-------------------------- MODULE ServicesProofs --------------------------
(***************************************************************************)
(* Proofs about the services: the mailing list server (MailServ), the      *)
(* memory of the tasks (TaskMemory), the user file (UserFile), the file    *)
(* transfer (Didadit) and the routes (WpRouting), each on its own, for     *)
(* every number of lists, members, tasks, blocks, users and boxes and      *)
(* every length of file and block.                                         *)
(*                                                                         *)
(* Lists: ListInv is the lock discipline of msmod, and that what a command *)
(* has read under the lock is still what the file says.  Memory: MemInv    *)
(* says whose each block is, and that the lines that wait for a task are   *)
(* its own and different.  Users: UserInv says that the chain leads from   *)
(* each record to the one before it, that the cache is what the file is,   *)
(* and that a copy younger than the last reorganisation has the place of   *)
(* its own user.  Transfer: TransferInv says which frames are under way    *)
(* while each program is where it is, that blocks come in the order of     *)
(* their offsets until FIN, and that the list has all of the damage.       *)
(* Routes: WpInv says that the next box of a route has it newer or better. *)
(***************************************************************************)
EXTENDS MailServ, TaskMemory, UserFile, Didadit, WpRouting, FiniteSetTheorems,
        SequenceTheorems, WellFoundedInduction, TLAPS

-----------------------------------------------------------------------------
(* The mailing list server.                                                *)

Command ==
    [at : {"idle", "lock", "read", "replace", "send", "answer"},
     kind : Kinds \cup {"nextnumber", "none"}, group : ListNames \cup {"none"},
     who : Members \cup {"none"}, call : Members \cup {"none"}, nr : Nat,
     opts : SUBSET {"c", "m", "u"}, todo : SUBSET Members, got : SUBSET Members,
     copy : Seq(GroupEntry)]

ListTypeOK ==
    /\ groups \in Seq(GroupEntry)
    /\ command \in [ListTasks -> Command]
    /\ msmod \in ListTasks \cup {"free"}

(* Who reads or writes the file, or sends to a group, has the lock.        *)
LockHeld == \A t \in ListTasks : command[t].at \in {"read", "replace", "send"} => msmod = t

(* What Give and EndSend put into a command.                               *)
WellFormed(c) ==
    /\ c.at \in {"lock", "read"} => c.got = {}
    /\ c.kind \in Kinds => c.group \in ListNames /\ c.who \in Members /\ c.call \in Members
    /\ c.kind \in {"subscribe", "unsubscribe"} => c.call = c.who

(* What a task has read or made of the file is still so.                   *)
UpToDate(c) ==
    /\ c.at = "replace" => c.copy = Rewritten(groups, c)
    /\ c.at = "send" =>
          /\ Exists(groups, c.group)
          /\ c.todo \cup c.got = InGroup(groups[Place(groups, c.group)])
          /\ c.nr = groups[Place(groups, c.group)].nr

ListInv ==
    /\ ListTypeOK /\ LockHeld
    /\ \A t \in ListTasks : WellFormed(command[t]) /\ UpToDate(command[t])

CommandFields ==
    {"at", "kind", "group", "who", "call", "nr", "opts", "todo", "got", "copy"}

LEMMA LeastOf ==
    ASSUME NEW A, A \subseteq Nat, A # {}
    PROVE  \E i \in A : \A j \in A : i <= j
  <1>1. IsWellFoundedOn(OpToRel(<, Nat), Nat)
    BY NatLessThanWellFounded
  <1>2. PICK i \in A : \A j \in A : ~ (<<j, i>> \in OpToRel(<, Nat))
    BY <1>1, WFMin
  <1>3. \A j \in A : ~ (j < i)
    BY <1>2 DEF OpToRel
  <1> QED
    BY <1>3

LEMMA PlaceFound ==
    ASSUME NEW list \in Seq(GroupEntry), NEW g, Exists(list, g)
    PROVE  /\ Place(list, g) \in DOMAIN list /\ list[Place(list, g)].name = g
           /\ list[Place(list, g)] \in GroupEntry
           /\ \A j \in DOMAIN list : list[j].name = g => Place(list, g) <= j
  <1> DEFINE P == PlacesOf(list, g)
  <1>1. P \subseteq Nat /\ P # {}
    BY DEF PlacesOf, Exists
  <1>2. \E i \in P : \A j \in P : i <= j
    <2> HIDE DEF P
    <2> QED
      BY <1>1, LeastOf
  <1>3. Place(list, g) \in P /\ \A j \in P : Place(list, g) <= j
    BY <1>2 DEF Place
  <1> QED
    BY <1>3 DEF PlacesOf

LEMMA ChangedEntry ==
    ASSUME NEW x \in GroupEntry, NEW c \in Command, WellFormed(c), Allowed(x, c)
    PROVE  Changed(x, c) \in GroupEntry /\ Changed(x, c).name = x.name
  <1>1. /\ x.users \subseteq Members /\ x.maints \subseteq Members /\ c.nr \in Nat
        /\ c.opts \subseteq {"c", "m", "u"}
        /\ DOMAIN x = {"name", "nr", "opts", "users", "maints"}
    BY DEF GroupEntry, Command
  <1>2. c.kind \in {"adduser", "subscribe", "deluser", "unsubscribe", "addmaintainer",
                    "delmaintainer", "options", "setnumber", "nextnumber"}
    BY DEF Allowed
  <1>3. c.kind # "nextnumber" => c.call \in Members
    BY <1>2 DEF WellFormed, Kinds
  <1>4. CASE c.kind \in {"adduser", "subscribe"}
    BY <1>1, <1>3, <1>4 DEF Changed, GroupEntry
  <1>5. CASE c.kind \in {"deluser", "unsubscribe"}
    BY <1>1, <1>3, <1>5 DEF Changed, GroupEntry
  <1>6. CASE c.kind = "addmaintainer"
    BY <1>1, <1>3, <1>6 DEF Changed, GroupEntry
  <1>7. CASE c.kind = "delmaintainer"
    BY <1>1, <1>3, <1>7 DEF Changed, GroupEntry
  <1>8. CASE c.kind = "options"
    BY <1>1, <1>3, <1>8 DEF Changed, GroupEntry
  <1>9. CASE c.kind \in {"setnumber", "nextnumber"}
    BY <1>1, <1>3, <1>9 DEF Changed, GroupEntry
  <1> QED
    BY <1>2, <1>4, <1>5, <1>6, <1>7, <1>8, <1>9

(* The five things that can become of the file.                            *)
MakesGroup(list, c) == Append(list, Group(c.group, {c.who}))
DropsGroup(list, c) ==
    SubSeq(list, 1, Place(list, c.group) - 1)
        \o SubSeq(list, Place(list, c.group) + 1, Len(list))
ChangesGroup(list, c) ==
    [list EXCEPT ![Place(list, c.group)] = Changed(@, c)]

LEMMA Outcomes ==
    ASSUME NEW list \in Seq(GroupEntry), NEW c
    PROVE  \/ Rewritten(list, c) = list
           \/ /\ c.kind = "newgroup" /\ ~Exists(list, c.group)
              /\ Rewritten(list, c) = MakesGroup(list, c)
           \/ /\ c.kind = "delgroup" /\ Exists(list, c.group) /\ c.who \in Sysops
              /\ Rewritten(list, c) = DropsGroup(list, c)
           \/ c.kind = "delmaintainer" /\ Rewritten(list, c) = list \o list
           \/ /\ Exists(list, c.group) /\ Allowed(list[Place(list, c.group)], c)
              /\ Rewritten(list, c) = ChangesGroup(list, c)
  BY DEF Rewritten, MakesGroup, DropsGroup, ChangesGroup

LEMMA RewrittenType ==
    ASSUME NEW list \in Seq(GroupEntry), NEW c \in Command, WellFormed(c)
    PROVE  Rewritten(list, c) \in Seq(GroupEntry)
  <1> DEFINE i == Place(list, c.group)
  <1>1. CASE c.kind = "newgroup" /\ Rewritten(list, c) = MakesGroup(list, c)
    <2>1. c.group \in STRING /\ c.who \in Members
      BY <1>1, MailServAssumption DEF Command, WellFormed, Kinds
    <2>2. Group(c.group, {c.who}) \in GroupEntry
      BY <2>1 DEF Group, GroupEntry
    <2> QED
      BY <1>1, <2>2 DEF MakesGroup
  <1>2. CASE Exists(list, c.group) /\ Rewritten(list, c) = DropsGroup(list, c)
    <2>1. i \in 1 .. Len(list)
      BY <1>2, PlaceFound
    <2> HIDE DEF i
    <2>2. SubSeq(list, 1, i - 1) \in Seq(GroupEntry)
      BY <2>1
    <2>3. SubSeq(list, i + 1, Len(list)) \in Seq(GroupEntry)
      BY <2>1
    <2> QED
      BY <1>2, <2>2, <2>3 DEF DropsGroup, i
  <1>3. CASE Exists(list, c.group) /\ Allowed(list[i], c) /\ Rewritten(list, c) = ChangesGroup(list, c)
    <2>1. i \in DOMAIN list /\ list[i] \in GroupEntry
      BY <1>3, PlaceFound
    <2>2. Changed(list[i], c) \in GroupEntry
      BY <1>3, <2>1, ChangedEntry
    <2> HIDE DEF i
    <2> QED
      BY <1>3, <2>1, <2>2 DEF ChangesGroup, i
  <1>4. CASE Rewritten(list, c) \in {list, list \o list}
    <2>1. list \o list \in Seq(GroupEntry)
      OBVIOUS
    <2> QED
      BY <1>4, <2>1
  <1> QED
    BY <1>1, <1>2, <1>3, <1>4, Outcomes

(* It does not depend on how far the command is.                           *)
LEMMA RewrittenSame ==
    ASSUME NEW list, NEW c, NEW d, d.kind = c.kind, d.group = c.group, d.who = c.who,
           d.call = c.call, d.nr = c.nr, d.opts = c.opts
    PROVE  Rewritten(list, d) = Rewritten(list, c)
  <1>1. \A x : Changed(x, d) = Changed(x, c)
    BY DEF Changed
  <1>2. \A x : Allowed(x, d) = Allowed(x, c)
    BY DEF Allowed, Maintainer
  <1> QED
    BY <1>1, <1>2 DEF Rewritten

LEMMA Fielded ==
    ASSUME ListTypeOK, NEW t \in ListTasks
    PROVE  /\ command[t] \in Command /\ DOMAIN command[t] = CommandFields
           /\ NoCommand \in Command /\ DOMAIN NoCommand = CommandFields
  <1>1. command[t] \in Command
    BY DEF ListTypeOK
  <1>2. \A c \in Command : DOMAIN c = CommandFields
    BY DEF Command, CommandFields
  <1>3. NoCommand \in Command /\ DOMAIN NoCommand = CommandFields
    <2>1. <<>> \in Seq(GroupEntry)/\ 0 \in Nat
      OBVIOUS
    <2> QED
      BY <2>1 DEF NoCommand, Command, CommandFields
  <1> QED
    BY <1>1, <1>2, <1>3

(* A step of task t that leaves the file as it is.                         *)
LEMMA CommandStep ==
    ASSUME ListInv, NEW t \in ListTasks, NEW c, Goes(t, c), c \in Command,
           WellFormed(c), UpToDate(c), groups' = groups,
           msmod' \in {msmod, t, "free"}, msmod' # msmod => msmod \in {t, "free"},
           c.at \in {"read", "replace", "send"} => msmod' = t
    PROVE  ListInv'
  <1>1. /\ command' = [command EXCEPT ![t] = c] /\ command \in [ListTasks -> Command]
        /\ groups \in Seq(GroupEntry) /\ msmod \in ListTasks \cup {"free"}
    BY DEF Goes, ListInv, ListTypeOK
  <1>2. ListTypeOK'
    BY <1>1 DEF ListTypeOK
  <1>3. \A u \in ListTasks : command'[u] = IF u = t THEN c ELSE command[u]
    BY <1>1
  <1>4. LockHeld'
    <2> SUFFICES ASSUME NEW u \in ListTasks, command'[u].at \in {"read", "replace", "send"}
                 PROVE  msmod' = u
      BY DEF LockHeld
    <2>1. CASE u = t
      BY <1>3, <2>1
    <2>2. CASE u # t
      <3>1. msmod = u /\ u # "free"
        BY <1>3, <2>2, MailServAssumption DEF ListInv, LockHeld
      <3> QED
        BY <2>2, <3>1
    <2> QED
      BY <2>1, <2>2
  <1>5. \A u \in ListTasks : WellFormed(command'[u]) /\ UpToDate(command'[u])
    BY <1>3 DEF ListInv
  <1>6. \A u \in ListTasks : (UpToDate(command[u]))'
    BY <1>5 DEF UpToDate
  <1>7. \A u \in ListTasks : (WellFormed(command[u]))'
    BY <1>5 DEF WellFormed
  <1> QED
    BY <1>2, <1>4, <1>6, <1>7 DEF ListInv

LEMMA GiveKeeps ==
    ASSUME ListInv, NEW t \in ListTasks, Give(t)
    PROVE  ListInv'
  <1>1. PICK k \in Kinds, g \in ListNames, w \in Members, m \in Members, o \in SUBSET {"c", "m", "u"} :
            /\ k \notin {"adduser", "deluser", "addmaintainer", "delmaintainer"} => m = w
            /\ Goes(t, [NoCommand EXCEPT !.at = "lock", !.kind = k, !.group = g, !.who = w,
                                         !.call = m, !.nr = 1, !.opts = o])
    BY DEF Give
  <1> DEFINE c == [NoCommand EXCEPT !.at = "lock", !.kind = k, !.group = g, !.who = w,
                                    !.call = m, !.nr = 1, !.opts = o]
  <1>2. ListTypeOK /\ NoCommand \in Command /\ DOMAIN NoCommand = CommandFields
    BY Fielded DEF ListInv
  <1>3. /\ c.at = "lock" /\ c.kind = k /\ c.group = g /\ c.who = w /\ c.call = m
        /\ c.nr = 1 /\ c.opts = o /\ c.got = {} /\ DOMAIN c = CommandFields
    BY <1>2 DEF CommandFields, NoCommand
  <1>4. c \in Command
    BY <1>2 DEF Command
  <1>5. Goes(t, c)
    BY <1>1
  <1> HIDE DEF c
  <1>6. WellFormed(c)
    BY <1>1, <1>3 DEF WellFormed
  <1>7. UpToDate(c)
    BY <1>3 DEF UpToDate
  <1>8. UNCHANGED <<groups, msmod>>
    BY DEF Give
  <1> QED
    BY <1>3, <1>4, <1>5, <1>6, <1>7, <1>8, CommandStep

LEMMA LockKeeps ==
    ASSUME ListInv, NEW t \in ListTasks, Lock(t)
    PROVE  ListInv'
  <1> DEFINE c == [command[t] EXCEPT !.at = "read"]
  <1>1. command[t] \in Command /\ DOMAIN command[t] = CommandFields /\ WellFormed(command[t])
    BY Fielded DEF ListInv
  <1>2. c.at = "read" /\ c \in Command
    BY <1>1 DEF Command, CommandFields
  <1>3. WellFormed(c)
    BY <1>1 DEF WellFormed, CommandFields, Lock, IsAt
  <1>4. Goes(t, c) /\ groups' = groups /\ msmod' = t /\ msmod = "free"
    BY DEF Lock
  <1> HIDE DEF c
  <1>5. UpToDate(c)
    BY <1>2 DEF UpToDate
  <1> QED
    BY <1>2, <1>3, <1>4, <1>5, CommandStep

LEMMA CopyKeeps ==
    ASSUME ListInv, NEW t \in ListTasks, Copy(t)
    PROVE  ListInv'
  <1> DEFINE d == command[t]
             c == [d EXCEPT !.at = "replace", !.copy = Rewritten(groups, d)]
  <1>1. d \in Command /\ DOMAIN d = CommandFields /\ WellFormed(d) /\ groups \in Seq(GroupEntry)
    BY Fielded DEF ListInv, ListTypeOK
  <1>2. Rewritten(groups, d) \in Seq(GroupEntry)
    BY <1>1, RewrittenType
  <1>3. Goes(t, c) /\ groups' = groups /\ msmod' = msmod /\ msmod = t
    BY DEF Copy, IsAt, ListInv, LockHeld
  <1> HIDE DEF d
  <1>4. /\ c.at = "replace" /\ c.kind = d.kind /\ c.group = d.group /\ c.who = d.who
        /\ c.call = d.call /\ c.nr = d.nr /\ c.opts = d.opts /\ c.copy = Rewritten(groups, d)
    BY <1>1 DEF CommandFields
  <1>5. c \in Command
    BY <1>1, <1>2 DEF Command
  <1> HIDE DEF c
  <1>6. WellFormed(c)
    BY <1>1, <1>4 DEF WellFormed
  <1>7. UpToDate(c)
    BY <1>4, RewrittenSame DEF UpToDate
  <1> QED
    BY <1>3, <1>4, <1>5, <1>6, <1>7, CommandStep

LEMMA ReplaceKeeps ==
    ASSUME ListInv, NEW t \in ListTasks, Replace(t)
    PROVE  ListInv'
  <1>1. /\ command[t].at = "replace" /\ groups' = command[t].copy /\ msmod' = "free"
        /\ command' = [command EXCEPT ![t] = NoCommand]
        /\ command \in [ListTasks -> Command] /\ command[t] \in Command /\ NoCommand \in Command
    BY Fielded DEF Replace, IsAt, Goes, ListInv, ListTypeOK
  <1>2. groups' \in Seq(GroupEntry)
    BY <1>1 DEF Command
  <1>3. ListTypeOK'
    BY <1>1, <1>2 DEF ListTypeOK
  <1>4. \A u \in ListTasks : command'[u].at \notin {"read", "replace", "send"}
    BY <1>1 DEF ListInv, LockHeld, NoCommand
  <1>5. LockHeld'
    BY <1>4 DEF LockHeld
  <1>6. \A u \in ListTasks : (UpToDate(command[u]))'
    BY <1>4 DEF UpToDate
  <1>7. \A u \in ListTasks : (WellFormed(command[u]))'
    BY <1>1 DEF ListInv, WellFormed, NoCommand, Kinds
  <1> QED
    BY <1>3, <1>5, <1>6, <1>7 DEF ListInv

LEMMA ReadGroupKeeps ==
    ASSUME ListInv, NEW t \in ListTasks, ReadGroup(t)
    PROVE  ListInv'
  <1> DEFINE d == command[t]
             x == groups[Place(groups, d.group)]
             c1 == [d EXCEPT !.at = "send", !.todo = InGroup(x), !.nr = x.nr]
             c2 == [d EXCEPT !.at = "answer"]
  <1>1. /\ d \in Command /\ DOMAIN d = CommandFields /\ WellFormed(d) /\ d.got = {}
        /\ groups \in Seq(GroupEntry) /\ msmod = t /\ groups' = groups
    BY Fielded DEF ListInv, ListTypeOK, ReadGroup, IsAt, WellFormed, LockHeld
  <1>2. CASE Exists(groups, d.group) /\ Goes(t, c1) /\ msmod' = msmod
    <2>1. x \in GroupEntry
      BY <1>1, <1>2, PlaceFound
    <2>2. InGroup(x) \subseteq Members /\ x.nr \in Nat
      <3> HIDE DEF x
      <3> QED
        BY <2>1 DEF InGroup, GroupEntry
    <2> HIDE DEF d
    <2>3. /\ c1.at = "send" /\ c1.kind = d.kind /\ c1.group = d.group /\ c1.who = d.who
          /\ c1.call = d.call /\ c1.got = d.got /\ c1.todo = InGroup(x) /\ c1.nr = x.nr
      BY <1>1 DEF CommandFields
    <2>4. c1 \in Command
      <3> HIDE DEF x
      <3> QED
        BY <1>1, <2>2 DEF Command
    <2> HIDE DEF c1
    <2>5. WellFormed(c1)
      BY <1>1, <2>3 DEF WellFormed
    <2>6. UpToDate(c1)
      BY <1>1, <1>2, <2>3 DEF UpToDate
    <2> QED
      BY <1>1, <1>2, <2>3, <2>4, <2>5, <2>6, CommandStep
  <1>3. CASE Goes(t, c2) /\ msmod' \in {"free", t}
    <2> HIDE DEF d
    <2>3. /\ c2.at = "answer" /\ c2.kind = d.kind /\ c2.group = d.group /\ c2.who = d.who
          /\ c2.call = d.call
      BY <1>1 DEF CommandFields
    <2>4. c2 \in Command
      BY <1>1 DEF Command
    <2> HIDE DEF c2
    <2>5. WellFormed(c2)
      BY <1>1, <2>3 DEF WellFormed
    <2>6. UpToDate(c2)
      BY <2>3 DEF UpToDate
    <2> QED
      BY <1>1, <1>3, <2>3, <2>4, <2>5, <2>6, CommandStep
  <1> QED
    BY <1>2, <1>3 DEF ReadGroup

LEMMA SendCopyKeeps ==
    ASSUME ListInv, NEW t \in ListTasks, SendCopy(t)
    PROVE  ListInv'
  <1> DEFINE d == command[t]
  <1>1. /\ d \in Command /\ DOMAIN d = CommandFields /\ WellFormed(d) /\ UpToDate(d)
        /\ d.at = "send" /\ msmod = t /\ groups' = groups /\ msmod' = msmod
    BY Fielded DEF ListInv, SendCopy, IsAt, LockHeld
  <1>2. PICK m \in d.todo : Goes(t, [d EXCEPT !.todo = @ \ {m}, !.got = @ \cup {m}])
    BY DEF SendCopy
  <1> DEFINE c == [d EXCEPT !.todo = @ \ {m}, !.got = @ \cup {m}]
  <1> HIDE DEF d
  <1>3. /\ c.at = d.at /\ c.kind = d.kind /\ c.group = d.group /\ c.who = d.who
        /\ c.call = d.call /\ c.nr = d.nr /\ c.todo = d.todo \ {m} /\ c.got = d.got \cup {m}
    BY <1>1 DEF CommandFields
  <1>4. c \in Command
    BY <1>1, <1>2 DEF Command
  <1>5. c.todo \cup c.got = d.todo \cup d.got
    <2> HIDE DEF c
    <2> QED
      BY <1>2, <1>3
  <1> HIDE DEF c
  <1>6. WellFormed(c)
    BY <1>1, <1>3 DEF WellFormed
  <1>7. UpToDate(c)
    BY <1>1, <1>3, <1>5 DEF UpToDate
  <1> QED
    BY <1>1, <1>2, <1>3, <1>4, <1>6, <1>7, CommandStep DEF c

LEMMA EndSendKeeps ==
    ASSUME ListInv, NEW t \in ListTasks, EndSend(t)
    PROVE  ListInv'
  <1> DEFINE d == command[t]
             c == [NoCommand EXCEPT !.at = "lock", !.kind = "nextnumber",
                                    !.group = d.group, !.nr = d.nr + 1]
  <1>1. /\ d \in Command /\ NoCommand \in Command /\ DOMAIN NoCommand = CommandFields
        /\ groups' = groups /\ msmod' = "free" /\ Goes(t, c)
        /\ msmod = t
    BY Fielded DEF ListInv, EndSend, IsAt, LockHeld
  <1> HIDE DEF d
  <1>2. d.group \in ListNames \cup {"none"} /\ d.nr + 1 \in Nat
    BY <1>1 DEF Command
  <1>3. c.at = "lock" /\ c.kind = "nextnumber" /\ c.got = {}
    BY <1>1 DEF CommandFields, NoCommand
  <1>4. c \in Command
    BY <1>1, <1>2 DEF Command
  <1> HIDE DEF c
  <1>5. WellFormed(c) /\ UpToDate(c)
    BY <1>3 DEF WellFormed, UpToDate, Kinds
  <1> QED
    BY <1>1, <1>3, <1>4, <1>5, CommandStep

LEMMA GivesUpKeeps ==
    ASSUME ListInv, NEW t \in ListTasks, ListAnswer(t) \/ ListKilled(t)
    PROVE  ListInv'
  <1>1. /\ NoCommand \in Command /\ NoCommand.at = "idle" /\ NoCommand.kind = "none"
        /\ groups' = groups /\ msmod' \in {msmod, "free"} /\ Goes(t, NoCommand)
    BY Fielded DEF ListInv, ListAnswer, ListKilled, NoCommand
  <1>2. WellFormed(NoCommand) /\ UpToDate(NoCommand)
    BY <1>1 DEF WellFormed, UpToDate, Kinds
  <1>3. msmod' # msmod => msmod = t
    BY DEF ListAnswer, ListKilled
  <1> QED
    BY <1>1, <1>2, <1>3, CommandStep

LEMMA ListStutterKeeps ==
    ASSUME ListInv, UNCHANGED listVars
    PROVE  ListInv'
  BY DEF ListInv, ListTypeOK, LockHeld, WellFormed, UpToDate, listVars

LEMMA ListInitInv == ListInit => ListInv
  <1> SUFFICES ASSUME ListInit PROVE ListInv
    OBVIOUS
  <1>1. groups \in Seq(GroupEntry)
    BY MailServAssumption DEF ListInit
  <1>2. NoCommand \in Command
    <2>1. <<>> \in Seq(GroupEntry)
      OBVIOUS
    <2> QED
      BY <2>1 DEF NoCommand, Command
  <1>3. command = [t \in ListTasks |-> NoCommand] /\ msmod = "free"
    BY DEF ListInit
  <1>4. \A t \in ListTasks : command[t].at = "idle" /\ command[t].kind = "none"
    BY <1>3 DEF NoCommand
  <1>5. ListTypeOK
    BY <1>1, <1>2, <1>3 DEF ListTypeOK
  <1>6. LockHeld
    BY <1>4 DEF LockHeld
  <1>7. \A t \in ListTasks : WellFormed(command[t]) /\ UpToDate(command[t])
    BY <1>4 DEF WellFormed, UpToDate, Kinds
  <1> QED
    BY <1>5, <1>6, <1>7 DEF ListInv

(* The lock protects what a task has read: in every state a task that has  *)
(* made a new file has made it of the file that is there, and a task that  *)
(* sends to a group sends to the members it has (modify_group,             *)
(* examine_mail).                                                          *)
THEOREM ListInvariant == ListSpec => []ListInv
  <1>1. ListInv /\ [ListNext]_listVars => ListInv'
    BY GiveKeeps, LockKeeps, CopyKeeps, ReplaceKeeps, ReadGroupKeeps, SendCopyKeeps,
       EndSendKeeps, GivesUpKeeps, ListStutterKeeps DEF ListNext
  <1> QED
    BY <1>1, ListInitInv, PTL DEF ListSpec

(* While a mail is sent to a group nobody joins or leaves it.              *)
THEOREM GroupStays == ListSpec => []SentToGroup
  <1>1. ListInv => SentToGroup
    BY DEF ListInv, UpToDate, SentToGroup, IsAt
  <1> QED
    BY <1>1, ListInvariant, PTL

(* What a command does to the calls of a group.                            *)
Moved(x, y) == (InGroup(x) \ InGroup(y)) \cup (InGroup(y) \ InGroup(x))

LEMMA ChangedMoves ==
    ASSUME NEW x \in GroupEntry, NEW c \in Command, WellFormed(c), Allowed(x, c)
    PROVE  /\ Moved(x, Changed(x, c)) \subseteq {c.call}
           /\ Moved(x, Changed(x, c)) \subseteq {c.who} \/ c.who \in x.maints \cup Sysops
  <1> DEFINE y == Changed(x, c)
  <1>1. DOMAIN x = {"name", "nr", "opts", "users", "maints"}
    BY DEF GroupEntry
  <1>2. c.kind \in {"adduser", "subscribe", "deluser", "unsubscribe", "addmaintainer",
                    "delmaintainer", "options", "setnumber", "nextnumber"}
    BY DEF Allowed
  <1>3. CASE c.kind \in {"adduser", "subscribe"}
    <2>1. y.users = x.users \cup ({c.call} \ InGroup(x)) /\ y.maints = x.maints
      BY <1>1, <1>3 DEF Changed
    <2> HIDE DEF y
    <2>2. Moved(x, y) \subseteq {c.call}
      BY <2>1 DEF Moved, InGroup
    <2>3. c.kind = "subscribe" => c.call = c.who
      BY DEF WellFormed
    <2>4. c.kind = "adduser" => c.who \in x.maints \cup Sysops
      BY DEF Allowed, Maintainer
    <2> QED
      BY <1>3, <2>2, <2>3, <2>4 DEF y
  <1>4. CASE c.kind \in {"deluser", "unsubscribe"}
    <2>1. y.users = x.users \ {c.call} /\ y.maints = x.maints \ {c.call}
      BY <1>1, <1>4 DEF Changed
    <2> HIDE DEF y
    <2>2. Moved(x, y) \subseteq {c.call}
      BY <2>1 DEF Moved, InGroup
    <2>3. c.kind = "unsubscribe" => c.call = c.who
      BY DEF WellFormed
    <2>4. c.kind = "deluser" => c.who \in x.maints \cup Sysops
      BY DEF Allowed, Maintainer
    <2> QED
      BY <1>4, <2>2, <2>3, <2>4 DEF y
  <1>5. CASE c.kind = "addmaintainer"
    <2>1. y.users = x.users \ {c.call} /\ y.maints = x.maints \cup {c.call}
      BY <1>1, <1>5 DEF Changed
    <2> HIDE DEF y
    <2>2. Moved(x, y) \subseteq {c.call}
      BY <2>1 DEF Moved, InGroup
    <2>3. c.who \in x.maints \cup Sysops
      BY <1>5 DEF Allowed, Maintainer
    <2> QED
      BY <2>2, <2>3 DEF y
  <1>6. CASE c.kind = "delmaintainer"
    <2>1. y.users = x.users \cup ({c.call} \cap x.maints) /\ y.maints = x.maints \ {c.call}
      BY <1>1, <1>6 DEF Changed
    <2> HIDE DEF y
    <2>2. Moved(x, y) = {}
      BY <2>1 DEF Moved, InGroup
    <2> QED
      BY <2>2 DEF y
  <1>7. CASE c.kind \in {"options", "setnumber", "nextnumber"}
    <2>1. y.users = x.users /\ y.maints = x.maints
      BY <1>1, <1>7 DEF Changed
    <2> HIDE DEF y
    <2>2. Moved(x, y) = {}
      BY <2>1 DEF Moved, InGroup
    <2> QED
      BY <2>2 DEF y
  <1> QED
    BY <1>2, <1>3, <1>4, <1>5, <1>6, <1>7

(* How a list relates to the one that takes its place.                     *)
Others(list, new, g) == \A h : h # g => Entry(new, h) = Entry(list, h)

LEMMA MakesOne ==
    ASSUME NEW list \in Seq(GroupEntry), NEW c, ~Exists(list, c.group),
           NEW new, new = MakesGroup(list, c)
    PROVE  /\ Others(list, new, c.group)
           /\ Entry(list, c.group) = {}
           /\ Entry(new, c.group) = {Group(c.group, {c.who})}
  <1> DEFINE G == Group(c.group, {c.who})
             n == Len(list)
  <1>0. new = Append(list, G)
    BY DEF MakesGroup
  <1>1. G.name = c.group
    BY DEF Group
  <1> HIDE DEF G
  <1>2. /\ n \in Nat /\ DOMAIN list = 1 .. n /\ DOMAIN new = 1 .. n + 1
        /\ \A k \in 1 .. n : new[k] = list[k]
        /\ new[n + 1] = G
    BY <1>0
  <1>3. \A k \in 1 .. n : list[k].name # c.group
    BY <1>2 DEF Exists, PlacesOf
  <1>4. \A k \in 1 .. n + 1 : k \in 1 .. n \/ k = n + 1
    BY <1>2
  <1>5. \A k \in 1 .. n : k \in 1 .. n + 1
    BY <1>2
  <1>6. n + 1 \in 1 .. n + 1
    BY <1>2
  <1> HIDE DEF n
  <1>7. Entry(list, c.group) = {}
    BY <1>2, <1>3 DEF Entry, PlacesOf
  <1>8. Entry(new, c.group) = {G}
    BY <1>1, <1>2, <1>3, <1>4, <1>6 DEF Entry, PlacesOf
  <1>9. Others(list, new, c.group)
    <2> SUFFICES ASSUME NEW h, h # c.group PROVE Entry(new, h) = Entry(list, h)
      BY DEF Others
    <2> QED
      BY <1>1, <1>2, <1>4, <1>5 DEF Entry, PlacesOf
  <1> QED
    BY <1>7, <1>8, <1>9 DEF G

LEMMA DropsOne ==
    ASSUME NEW list \in Seq(GroupEntry), NEW c, Exists(list, c.group), ~Doubled(list),
           NEW new, new = DropsGroup(list, c)
    PROVE  Others(list, new, c.group) /\ Entry(new, c.group) = {}
  <1> DEFINE i == Place(list, c.group)
             n == Len(list)
             a == SubSeq(list, 1, i - 1)
             b == SubSeq(list, i + 1, n)
  <1>1. i \in 1 .. n /\ n \in Nat /\ list[i].name = c.group /\ DOMAIN list = 1 .. n
    BY PlaceFound
  <1> HIDE DEF i
  <1>2. \A k \in 1 .. n : k # i => list[k].name # c.group
    BY <1>1 DEF Doubled
  <1> HIDE DEF n
  <1>3. a \in Seq(GroupEntry) /\ Len(a) = i - 1 /\ \A k \in 1 .. i - 1 : a[k] = list[k]
    BY <1>1 DEF n
  <1>4. b \in Seq(GroupEntry) /\ Len(b) = n - i /\ \A k \in 1 .. n - i : b[k] = list[k + i]
    <2>1. b \in Seq(GroupEntry) /\ Len(b) = n - i
      <3>1. i + 1 \in 1 .. Len(list) + 1 /\ n \in i .. Len(list) /\ n = Len(list)
        BY <1>1 DEF n
      <3>2. b \in Seq(GroupEntry) /\ Len(b) = IF i + 1 <= n THEN n - (i + 1) + 1 ELSE 0
        BY <1>1, <3>1, SubSeqProperties
      <3> QED
        BY <1>1, <3>2
    <2>2. \A k \in 1 .. n - i : b[k] = list[(i + 1) + k - 1]
      BY <1>1 DEF n
    <2>3. \A k \in 1 .. n - i : (i + 1) + k - 1 = k + i
      BY <1>1
    <2> QED
      BY <2>1, <2>2, <2>3
  <1>10. new = a \o b
    BY DEF DropsGroup, a, b, i, n
  <1> HIDE DEF a, b
  <1>5. /\ DOMAIN new = 1 .. n - 1
        /\ \A k \in 1 .. n - 1 : new[k] = IF k < i THEN list[k] ELSE list[k + 1]
    <2>0. a \o b \in Seq(GroupEntry) /\ Len(a \o b) = Len(a) + Len(b)
      <3>1. a \in Seq(GroupEntry) /\ b \in Seq(GroupEntry)
        BY <1>3, <1>4
      <3> QED
        BY <3>1, ConcatProperties
    <2>1. Len(new) = n - 1 /\ DOMAIN new = 1 .. Len(new)
      BY <1>1, <1>3, <1>4, <1>10, <2>0
    <2>2. \A k \in 1 .. n - 1 : new[k] = IF k <= i - 1 THEN a[k] ELSE b[k - (i - 1)]
      BY <1>1, <1>3, <1>4, <1>10, <2>1
    <2> SUFFICES ASSUME NEW k \in 1 .. n - 1
                 PROVE  new[k] = IF k < i THEN list[k] ELSE list[k + 1]
      BY <2>1
    <2>3. CASE k < i
      <3>1. k <= i - 1 /\ k \in 1 .. i - 1
        BY <1>1, <2>3
      <3> QED
        BY <1>3, <2>2, <2>3, <3>1
    <2>4. CASE ~(k < i)
      <3>1. ~(k <= i - 1) /\ k - (i - 1) \in 1 .. n - i /\ (k - (i - 1)) + i = k + 1
        BY <1>1, <2>4
      <3> QED
        BY <1>4, <2>2, <2>4, <3>1
    <2> QED
      BY <2>3, <2>4
  <1>6. \A k \in 1 .. n - 1 : \E j \in 1 .. n : j # i /\ new[k] = list[j]
    <2> TAKE k \in 1 .. n - 1
    <2>1. CASE k < i
      <3>1. k \in 1 .. n /\ k # i /\ new[k] = list[k]
        BY <1>1, <1>5, <2>1
      <3> QED
        BY <3>1
    <2>2. CASE ~(k < i)
      <3>1. k + 1 \in 1 .. n /\ k + 1 # i /\ new[k] = list[k + 1]
        BY <1>1, <1>5, <2>2
      <3> QED
        BY <3>1
    <2> QED
      BY <2>1, <2>2
  <1>7. \A j \in 1 .. n : j # i => \E k \in 1 .. n - 1 : new[k] = list[j]
    <2> TAKE j \in 1 .. n
    <2>1. CASE j < i
      <3>1. j \in 1 .. n - 1 /\ new[j] = list[j]
        BY <1>1, <1>5, <2>1
      <3> QED
        BY <3>1
    <2>2. CASE j > i
      <3>1. j - 1 \in 1 .. n - 1 /\ ~(j - 1 < i) /\ (j - 1) + 1 = j
        BY <1>1, <2>2
      <3>2. new[j - 1] = list[j]
        BY <1>5, <3>1
      <3> QED
        BY <3>1, <3>2
    <2> QED
      BY <1>1, <2>1, <2>2
  <1>8. Entry(new, c.group) = {}
    BY <1>2, <1>5, <1>6 DEF Entry, PlacesOf
  <1>9. Others(list, new, c.group)
    <2> SUFFICES ASSUME NEW h, h # c.group PROVE Entry(new, h) = Entry(list, h)
      BY DEF Others
    <2>1. ASSUME NEW e \in Entry(new, h) PROVE e \in Entry(list, h)
      <3>1. PICK k \in 1 .. n - 1 : new[k].name = h /\ e = new[k]
        BY <1>5, <2>1 DEF Entry, PlacesOf
      <3>2. PICK j \in 1 .. n : new[k] = list[j]
        BY <1>6
      <3> QED
        BY <1>1, <3>1, <3>2 DEF Entry, PlacesOf
    <2>2. ASSUME NEW e \in Entry(list, h) PROVE e \in Entry(new, h)
      <3>1. PICK j \in 1 .. n : list[j].name = h /\ e = list[j]
        BY <1>1, <2>2 DEF Entry, PlacesOf
      <3>2. j # i
        BY <1>1, <3>1
      <3>3. PICK k \in 1 .. n - 1 : new[k] = list[j]
        BY <1>7, <3>2
      <3> QED
        BY <1>5, <3>1, <3>3 DEF Entry, PlacesOf
    <2> QED
      BY <2>1, <2>2
  <1> QED
    BY <1>8, <1>9

LEMMA ChangesOne ==
    ASSUME NEW list \in Seq(GroupEntry), NEW c \in Command, WellFormed(c),
           Exists(list, c.group), ~Doubled(list), Allowed(list[Place(list, c.group)], c),
           NEW new, new = ChangesGroup(list, c),
           NEW x, x = list[Place(list, c.group)]
    PROVE  /\ Others(list, new, c.group) /\ x \in GroupEntry
           /\ Entry(list, c.group) = {x} /\ Entry(new, c.group) = {Changed(x, c)}
  <1> DEFINE i == Place(list, c.group)
             n == Len(list)
             y == Changed(x, c)
  <1>1. i \in 1 .. n /\ x.name = c.group /\ DOMAIN list = 1 .. n /\ x \in GroupEntry
    BY PlaceFound
  <1>2. y.name = c.group
    BY <1>1, ChangedEntry
  <1>8. new = [list EXCEPT ![i] = y] /\ x = list[i]
    BY DEF ChangesGroup
  <1> HIDE DEF i, y
  <1>3. \A k \in 1 .. n : k # i => list[k].name # c.group
    BY <1>1, <1>8 DEF Doubled
  <1>4. DOMAIN new = 1 .. n /\ \A k \in 1 .. n : new[k] = IF k = i THEN y ELSE list[k]
    BY <1>1, <1>8
  <1> HIDE DEF n
  <1>5. Entry(list, c.group) = {x}
    BY <1>1, <1>3, <1>8 DEF Entry, PlacesOf
  <1>6. Entry(new, c.group) = {y}
    BY <1>1, <1>2, <1>3, <1>4 DEF Entry, PlacesOf
  <1>7. Others(list, new, c.group)
    <2> SUFFICES ASSUME NEW h, h # c.group PROVE Entry(new, h) = Entry(list, h)
      BY DEF Others
    <2> QED
      BY <1>1, <1>2, <1>4, <1>8 DEF Entry, PlacesOf
  <1> QED
    BY <1>1, <1>5, <1>6, <1>7 DEF y

LEMMA ReplaceChange ==
    ASSUME ListInv, NEW t \in ListTasks, Replace(t), groups' # groups,
           ~Doubled(groups), ~Doubled(groups')
    PROVE  ListChange(command[t])
  <1> DEFINE c == command[t]
  <1>1. /\ c \in Command /\ WellFormed(c) /\ groups \in Seq(GroupEntry)
        /\ groups' = Rewritten(groups, c)
    BY DEF ListInv, ListTypeOK, UpToDate, Replace, IsAt
  <1> HIDE DEF c
  <1> SUFFICES ListChange(c)
    BY DEF c
  <1>2. SUFFICES
          /\ Others(groups, groups', c.group)
          /\ \A x \in Entry(groups, c.group) :
                /\ Entry(groups', c.group) = {} => c.who \in Sysops
                /\ \A y \in Entry(groups', c.group) :
                      /\ Cardinality(Moved(x, y)) <= 1
                      /\ Moved(x, y) \subseteq {c.who} \/ c.who \in x.maints \cup Sysops
          /\ Entry(groups, c.group) = {} =>
                \A y \in Entry(groups', c.group) : InGroup(y) = {c.who}
    BY DEF ListChange, Others, Moved
  <1>3. CASE ~Exists(groups, c.group) /\ groups' = MakesGroup(groups, c)
    <2>1. InGroup(Group(c.group, {c.who})) = {c.who}
      BY DEF InGroup, Group
    <2>2. /\ Others(groups, groups', c.group) /\ Entry(groups, c.group) = {}
          /\ Entry(groups', c.group) = {Group(c.group, {c.who})}
      BY <1>1, <1>3, MakesOne
    <2> QED
      BY <2>1, <2>2
  <1>4. CASE Exists(groups, c.group) /\ c.who \in Sysops /\ groups' = DropsGroup(groups, c)
    <2>1. Others(groups, groups', c.group) /\ Entry(groups', c.group) = {}
      BY <1>1, <1>4, DropsOne
    <2> QED
      BY <1>4, <2>1
  <1>5. CASE /\ Exists(groups, c.group) /\ Allowed(groups[Place(groups, c.group)], c)
             /\ groups' = ChangesGroup(groups, c)
    <2> DEFINE x == groups[Place(groups, c.group)]
    <2>0. x = groups[Place(groups, c.group)] /\ Allowed(x, c)
      BY <1>5
    <2> HIDE DEF x
    <2>1. /\ Others(groups, groups', c.group) /\ x \in GroupEntry
          /\ Entry(groups, c.group) = {x} /\ Entry(groups', c.group) = {Changed(x, c)}
      <3>1. /\ groups \in Seq(GroupEntry) /\ c \in Command /\ WellFormed(c)
            /\ Exists(groups, c.group) /\ ~Doubled(groups)
            /\ groups' = ChangesGroup(groups, c)
        BY <1>1, <1>5
      <3> QED
        BY ONLY <2>0, <3>1, ChangesOne
    <2>2. /\ Moved(x, Changed(x, c)) \subseteq {c.call}
          /\ Moved(x, Changed(x, c)) \subseteq {c.who} \/ c.who \in x.maints \cup Sysops
      BY <1>1, <2>0, <2>1, ChangedMoves
    <2>3. Cardinality(Moved(x, Changed(x, c))) <= 1
      <3>1. Moved(x, Changed(x, c)) = {} \/ Moved(x, Changed(x, c)) = {c.call}
        BY <2>2
      <3>2. Cardinality({}) = 0
        BY FS_EmptySet
      <3>3. Cardinality({c.call}) = 1
        BY FS_Singleton
      <3> QED
        BY <3>1, <3>2, <3>3
    <2> QED
      BY <2>1, <2>2, <2>3
  <1>6. groups' # groups \o groups
    <2>1. CASE groups = <<>>
      <3>1. groups \o groups = groups
        BY <1>1, <2>1
      <3> QED
        BY <3>1
    <2>2. CASE groups # <<>>
      <3> DEFINE n == Len(groups)
                 new == groups \o groups
      <3>1. n \in Nat /\ n > 0
        BY <1>1, <2>2
      <3>2. new \in Seq(GroupEntry) /\ Len(new) = n + n
        BY <1>1
      <3>3. new[1] = groups[1] /\ new[1 + n] = groups[1]
        BY <1>1, <3>1
      <3> HIDE DEF n, new
      <3>4. 1 \in DOMAIN new /\ 1 + n \in DOMAIN new /\ 1 # 1 + n
        BY <3>1, <3>2
      <3>5. Doubled(new)
        BY <3>3, <3>4 DEF Doubled
      <3> QED
        BY <3>5 DEF new
    <2> QED
      BY <2>1, <2>2
  <1> QED
    BY <1>1, <1>3, <1>4, <1>5, <1>6, Outcomes

(* Whatever commands run side by side, the file changes by one command at  *)
(* a time, and as that command may change it (modify_group).               *)
THEOREM OneChange == ListSpec => OneChangeEach
  <1>1. ListInv /\ [ListNext]_listVars =>
          [ Doubled(groups) \/ Doubled(groups')
            \/ \E t \in ListTasks : IsAt(t, "replace") /\ ListChange(command[t]) ]_groups
    <2> SUFFICES ASSUME ListInv, [ListNext]_listVars, groups' # groups,
                        ~Doubled(groups), ~Doubled(groups')
                 PROVE  \E t \in ListTasks : IsAt(t, "replace") /\ ListChange(command[t])
      OBVIOUS
    <2>1. PICK t \in ListTasks : Replace(t)
      BY DEF ListNext, listVars, Give, Lock, Copy, ReadGroup, SendCopy, EndSend,
             ListAnswer, ListKilled
    <2> QED
      BY <2>1, ReplaceChange DEF Replace
  <1> QED
    BY <1>1, ListInvariant, PTL DEF ListSpec, OneChangeEach

-----------------------------------------------------------------------------
(* Memory of tasks.                                                        *)

Block == [owner : Numbers \cup {"none"}, use : {"none", "line", "session", "buffer"}]
Work == [at : {"idle", "printing", "replying", "watching"}, place : Blks \cup {0},
         task : Numbers \cup {"none"}, conv : Seq(Blks)]
WorkFields == {"at", "place", "task", "conv"}

MemTypeOK ==
    /\ alive \subseteq Numbers /\ missed \subseteq Numbers /\ copied \in BOOLEAN
    /\ block \in [Blks -> Block]
    /\ conv \in [Numbers -> Seq(Blks)]
    /\ watched \in [Numbers -> Blks \cup {0}]
    /\ doing \in [Numbers -> Work]

Is(p, t, use) == block[p].owner = t /\ block[p].use = use

(* What a task is busy with has a block of its own.                        *)
UseOf(at) == CASE at = "printing" -> "line"
               [] at = "replying" -> "session"
               [] at = "watching" -> "buffer"
BusyWith(t, p) == doing[t].at # "idle" /\ doing[t].place = p

(* A block that is used belongs to a task that is there.                   *)
OwnersLive == \A p \in Blks : block[p] # Unused => block[p].owner \in alive

(* The lines that wait for a task are its own and different ones, ...      *)
LinesOwn ==
    \A t \in Numbers :
        /\ \A i \in DOMAIN conv[t] : Is(conv[t][i], t, "line")
        /\ \A i, j \in DOMAIN conv[t] : conv[t][i] = conv[t][j] => i = j
        /\ doing[t].at = "printing" => \A i \in DOMAIN conv[t] : conv[t][i] # doing[t].place

(* ... and there are no other lines.                                       *)
LinesWait ==
    \A p \in Blks : block[p].use = "line" =>
        LET o == block[p].owner IN
        \/ \E i \in DOMAIN conv[o] : conv[o][i] = p
        \/ doing[o].at = "printing" /\ doing[o].place = p

WorkOwn ==
    \A t \in Numbers : doing[t].at # "idle" =>
        doing[t].place \in Blks /\ Is(doing[t].place, t, UseOf(doing[t].at))

(* A buffer that is filled belongs to who watches.                         *)
Watches(w, x, p) ==
    w \in alive /\ doing[w].at = "watching" /\ doing[w].place = p /\ doing[w].task = x
WatchersThere ==
    /\ \A t \in Numbers \ alive : watched[t] = 0
    /\ \A t \in alive : watched[t] # 0 /\ t \notin missed =>
          Watches(block[watched[t]].owner, t, watched[t])

MemInv ==
    /\ MemTypeOK
    /\ ~copied => OwnersLive /\ LinesOwn /\ LinesWait /\ WorkOwn /\ WatchersThere

LEMMA NextFree ==
    ASSUME FreePlaces # {}
    PROVE  NextPlace \in Blks /\ block[NextPlace] = Unused
  <1>1. FreePlaces \subseteq Nat
    BY DEF FreePlaces, Blks
  <1>2. \E p \in FreePlaces : \A q \in FreePlaces : p <= q
    BY <1>1, LeastOf
  <1>3. NextPlace \in FreePlaces
    BY <1>2 DEF NextPlace
  <1> QED
    BY <1>3 DEF FreePlaces

LEMMA BlockFields ==
    ASSUME MemTypeOK, NEW p \in Blks, NEW t \in Numbers, NEW use \in {"line", "session", "buffer"}
    PROVE  /\ [owner |-> t, use |-> use] \in Block /\ Unused \in Block
           /\ Is(p, t, use) => block[p] = [owner |-> t, use |-> use] /\ block[p] # Unused
           /\ [owner |-> t, use |-> use] # Unused
  BY DEF Block, Unused, Is, MemTypeOK

(* A block is taken.                                                       *)
LEMMA Taken ==
    ASSUME MemTypeOK, NEW t \in Numbers, NEW use \in {"line", "session", "buffer"},
           FreePlaces # {}, block' = Allocated(t, use)
    PROVE  /\ NextPlace \in Blks /\ block[NextPlace] = Unused
           /\ block' \in [Blks -> Block]
           /\ block'[NextPlace].owner = t /\ block'[NextPlace].use = use
           /\ \A p \in Blks \ {NextPlace} : block'[p] = block[p]
  <1>1. NextPlace \in Blks /\ block[NextPlace] = Unused
    BY NextFree
  <1>2. [owner |-> t, use |-> use] \in Block
    BY DEF Block
  <1>3. block \in [Blks -> Block]
    BY DEF MemTypeOK
  <1> QED
    BY <1>1, <1>2, <1>3 DEF Allocated

LEMMA GivenBack ==
    ASSUME MemTypeOK, NEW P, block' = Released(P)
    PROVE  /\ block' \in [Blks -> Block]
           /\ \A p \in Blks : block'[p] = IF p \in P THEN Unused ELSE block[p]
           /\ Unused.use = "none" /\ Unused.owner = "none"
  <1>1. Unused \in Block /\ Unused.use = "none" /\ Unused.owner = "none"
    BY DEF Block, Unused
  <1>2. block \in [Blks -> Block]
    BY DEF MemTypeOK
  <1> QED
    BY <1>1, <1>2 DEF Released

LEMMA NewTaskKeeps ==
    ASSUME MemInv, ~copied, NEW t \in Numbers, NewTask(t)
    PROVE  MemInv'
  <1>1. MemTypeOK'
    BY DEF MemInv, NewTask, MemTypeOK
  <1>2. OwnersLive' /\ LinesOwn' /\ LinesWait' /\ WorkOwn' /\ WatchersThere'
    BY DEF MemInv, NewTask, OwnersLive, LinesOwn, LinesWait, WorkOwn, WatchersThere, Watches, Is
  <1> QED
    BY <1>1, <1>2 DEF MemInv

LEMMA CopiedTaskKeeps ==
    ASSUME MemInv, ~copied, NEW t \in Numbers, NEW parent \in Numbers, CopiedTask(t, parent)
    PROVE  MemInv'
  <1>1. MemTypeOK'
    BY DEF MemInv, CopiedTask, MemTypeOK
  <1>2. ASSUME ~copied'
        PROVE  OwnersLive' /\ LinesOwn' /\ LinesWait' /\ WorkOwn' /\ WatchersThere'
    <2>1. conv[parent] = <<>> /\ watched[parent] = 0
      BY <1>2 DEF CopiedTask
    <2>2. /\ conv \in [Numbers -> Seq(Blks)] /\ watched \in [Numbers -> Blks \cup {0}]
          /\ t \notin alive /\ alive \subseteq Numbers
          /\ block' = block /\ doing' = doing /\ missed' = missed /\ alive' = alive \cup {t}
      BY DEF MemInv, CopiedTask, MemTypeOK
    <2>3. \A x \in Numbers : /\ conv'[x] = IF x = t THEN <<>> ELSE conv[x]
                             /\ watched'[x] = IF x = t THEN 0 ELSE watched[x]
      BY <2>1, <2>2 DEF CopiedTask
    <2>4. OwnersLive'
      BY <2>2 DEF MemInv, OwnersLive
    <2>5. LinesOwn'
      BY <2>2, <2>3 DEF MemInv, LinesOwn, Is
    <2>6. LinesWait'
      <3> SUFFICES ASSUME NEW p \in Blks, block[p].use = "line"
                   PROVE  LET o == block[p].owner IN
                          \/ \E i \in DOMAIN conv'[o] : conv'[o][i] = p
                          \/ doing[o].at = "printing" /\ doing[o].place = p
        BY <2>2 DEF LinesWait
      <3>1. block[p].owner \in alive
        BY DEF MemInv, OwnersLive, Unused
      <3> QED
        BY <2>2, <2>3, <3>1 DEF MemInv, LinesWait
    <2>7. WorkOwn'
      BY <2>2 DEF MemInv, WorkOwn, Is
    <2>8. WatchersThere'
      BY <2>2, <2>3 DEF MemInv, WatchersThere, Watches
    <2> QED
      BY <2>4, <2>5, <2>6, <2>7, <2>8
  <1> QED
    BY <1>1, <1>2 DEF MemInv

(* A block that was free has nothing to do with what there is.             *)
LEMMA NotUsed ==
    ASSUME MemInv, ~copied, NEW q \in Blks, block[q] = Unused
    PROVE  /\ \A t \in Numbers : \A i \in DOMAIN conv[t] : conv[t][i] # q
           /\ \A t \in Numbers : doing[t].at # "idle" => doing[t].place # q
           /\ \A t \in alive : watched[t] # 0 /\ t \notin missed => watched[t] # q
  <1>1. block[q].use = "none"
    BY DEF Unused
  <1>2. \A t \in Numbers : UseOf(doing[t].at) # "none" \/ doing[t].at = "idle"
    BY DEF MemInv, MemTypeOK, Work, UseOf
  <1>3. \A t \in Numbers : doing[t].at # "idle" => doing[t].place # q
    BY <1>1, <1>2 DEF MemInv, WorkOwn, Is
  <1>4. \A t \in Numbers : \A i \in DOMAIN conv[t] : conv[t][i] # q
    BY <1>1 DEF MemInv, LinesOwn, Is
  <1>5. \A t \in alive : watched[t] # 0 /\ t \notin missed => watched[t] # q
    <2> SUFFICES ASSUME NEW t \in alive, watched[t] # 0, t \notin missed, watched[t] = q
                 PROVE  FALSE
      OBVIOUS
    <2>1. alive \subseteq Numbers
      BY DEF MemInv, MemTypeOK
    <2>2. Watches(block[q].owner, t, q)
      BY DEF MemInv, WatchersThere
    <2> QED
      BY <1>3, <2>1, <2>2 DEF Watches
  <1> QED
    BY <1>3, <1>4, <1>5

LEMMA ConvinKeeps ==
    ASSUME MemInv, ~copied, NEW s \in Numbers, NEW t \in Numbers, Convin(s, t)
    PROVE  MemInv'
  <1> DEFINE q == NextPlace
             c == conv[t]
             v == Append(c, q)
  <1>1. /\ UNCHANGED <<alive, watched, doing, copied, missed>> /\ t \in alive
        /\ FreePlaces # {} /\ MemTypeOK
    BY DEF Convin, MemInv
  <1>2. CASE UNCHANGED <<block, conv>>
    BY <1>1, <1>2 DEF MemInv, MemTypeOK, OwnersLive, LinesOwn, LinesWait, WorkOwn,
       WatchersThere, Watches, Is
  <1>3. CASE block' = Allocated(t, "line") /\ conv' = [conv EXCEPT ![t] = v]
    <2>1. /\ q \in Blks /\ block[q] = Unused /\ block' \in [Blks -> Block]
          /\ block'[q].owner = t /\ block'[q].use = "line"
          /\ \A p \in Blks \ {q} : block'[p] = block[p]
      BY <1>1, <1>3, Taken
    <2>2. /\ \A x \in Numbers : \A i \in DOMAIN conv[x] : conv[x][i] # q
          /\ \A x \in Numbers : doing[x].at # "idle" => doing[x].place # q
          /\ \A x \in alive : watched[x] # 0 /\ x \notin missed => watched[x] # q
      BY <2>1, NotUsed
    <2> HIDE DEF q
    <2>3. c \in Seq(Blks) /\ conv \in [Numbers -> Seq(Blks)] /\ alive \subseteq Numbers
      BY <1>1 DEF MemTypeOK
    <2>4. /\ v \in Seq(Blks) /\ DOMAIN v = 1 .. Len(c) + 1 /\ DOMAIN c = 1 .. Len(c) /\ Len(c) \in Nat
          /\ \A i \in 1 .. Len(c) : v[i] = c[i]
          /\ v[Len(c) + 1] = q
      <3> HIDE DEF c
      <3> QED
        BY <2>1, <2>3
    <2>5. \A i \in DOMAIN v : (i \in DOMAIN c /\ v[i] = c[i]) \/ (i = Len(c) + 1 /\ v[i] = q)
      <3> HIDE DEF c, v
      <3>1. \A i \in 1 .. Len(c) + 1 : i \in 1 .. Len(c) \/ i = Len(c) + 1
        BY <2>4
      <3> QED
        BY <2>4, <3>1
    <2>6. \A i \in DOMAIN c : i \in DOMAIN v /\ v[i] = c[i]
      BY <2>4
    <2>7. Len(c) + 1 \in DOMAIN v /\ v[Len(c) + 1] = q
      BY <2>4
    <2> HIDE DEF v
    <2>8. \A x \in Numbers : conv'[x] = IF x = t THEN v ELSE conv[x]
      BY <1>3, <2>3
    <2>9. MemTypeOK'
      BY <1>1, <1>3, <2>1, <2>3, <2>4 DEF MemTypeOK
    <2>10. OwnersLive'
      BY <1>1, <2>1 DEF MemInv, OwnersLive
    <2>11. LinesOwn'
      <3> SUFFICES ASSUME NEW x \in Numbers
                   PROVE  /\ \A i \in DOMAIN conv'[x] : 
                                block'[conv'[x][i]].owner = x /\ block'[conv'[x][i]].use = "line"
                          /\ \A i, j \in DOMAIN conv'[x] : conv'[x][i] = conv'[x][j] => i = j
                          /\ doing[x].at = "printing" =>
                                \A i \in DOMAIN conv'[x] : conv'[x][i] # doing[x].place
        BY <1>1 DEF LinesOwn, Is
      <3>1. CASE x # t
        <4>1. \A i \in DOMAIN conv[x] : conv[x][i] \in Blks \ {q}
          BY <2>2, <2>3
        <4> QED
          BY <2>1, <2>8, <3>1, <4>1 DEF MemInv, LinesOwn, Is
      <3>2. CASE x = t
        <4>1. /\ \A i \in DOMAIN c : c[i] \in Blks \ {q} /\ Is(c[i], t, "line")
              /\ \A i, j \in DOMAIN c : c[i] = c[j] => i = j
              /\ doing[t].at = "printing" => \A i \in DOMAIN c : c[i] # doing[t].place
          BY <2>2, <2>3 DEF MemInv, LinesOwn
        <4>2. doing[t].at = "printing" => doing[t].place # q
          BY <2>2
        <4> HIDE DEF c
        <4>3. \A i \in DOMAIN v : v[i] \in Blks /\ block'[v[i]].owner = t /\ block'[v[i]].use = "line"
          BY <2>1, <2>5, <4>1 DEF Is
        <4>4. \A i, j \in DOMAIN v : v[i] = v[j] => i = j
          BY <2>5, <4>1
        <4>5. doing[t].at = "printing" => \A i \in DOMAIN v : v[i] # doing[t].place
          BY <2>5, <4>1, <4>2
        <4> QED
          BY <2>8, <3>2, <4>3, <4>4, <4>5 DEF Is
      <3> QED
        BY <3>1, <3>2
    <2>12. LinesWait'
      <3> SUFFICES ASSUME NEW p \in Blks, block'[p].use = "line"
                   PROVE  LET o == block'[p].owner IN
                          \/ \E i \in DOMAIN conv'[o] : conv'[o][i] = p
                          \/ doing[o].at = "printing" /\ doing[o].place = p
        BY <1>1 DEF LinesWait
      <3>1. CASE p = q
        BY <2>1, <2>7, <2>8, <3>1
      <3>2. CASE p # q
        <4> DEFINE o == block[p].owner
        <4>1. o \in alive /\ block'[p] = block[p] /\ block[p].use = "line"
          BY <2>1, <3>2 DEF MemInv, OwnersLive, Unused
        <4>2. \/ \E i \in DOMAIN conv[o] : conv[o][i] = p
              \/ doing[o].at = "printing" /\ doing[o].place = p
          BY <4>1 DEF MemInv, LinesWait
        <4> HIDE DEF o
        <4>3. (\E i \in DOMAIN conv[o] : conv[o][i] = p) => \E i \in DOMAIN conv'[o] : conv'[o][i] = p
          BY <2>3, <2>6, <2>8, <4>1
        <4> QED
          BY <4>1, <4>2, <4>3 DEF o
      <3> QED
        BY <3>1, <3>2
    <2>13. WorkOwn'
      BY <1>1, <2>1, <2>2 DEF MemInv, WorkOwn, Is
    <2>14. WatchersThere'
      <3>1. \A x \in alive : watched[x] # 0 /\ x \notin missed => block'[watched[x]] = block[watched[x]]
        BY <1>1, <2>1, <2>2 DEF MemTypeOK
      <3> QED
        BY <1>1, <3>1 DEF MemInv, WatchersThere, Watches
    <2> QED
      BY <2>9, <2>10, <2>11, <2>12, <2>13, <2>14 DEF MemInv
  <1> QED
    BY <1>2, <1>3 DEF Convin

LEMMA TakeTalkKeeps ==
    ASSUME MemInv, ~copied, NEW t \in Numbers, TakeTalk(t)
    PROVE  MemInv'
  <1> DEFINE c == conv[t]
             v == Tail(c)
             d == [Nothing EXCEPT !.at = "printing", !.place = Head(c)]
  <1>1. /\ UNCHANGED <<alive, block, watched, copied, missed>> /\ t \in alive
        /\ MemTypeOK /\ doing[t].at = "idle" /\ c # <<>>
        /\ doing' = [doing EXCEPT ![t] = d] /\ conv' = [conv EXCEPT ![t] = v]
    BY DEF TakeTalk, MemInv, Does
  <1>2. /\ c \in Seq(Blks) /\ conv \in [Numbers -> Seq(Blks)] /\ alive \subseteq Numbers
        /\ doing \in [Numbers -> Work]
    BY <1>1 DEF MemTypeOK
  <1>3. /\ v \in Seq(Blks) /\ Head(c) = c[1] /\ 1 \in DOMAIN c /\ DOMAIN c = 1 .. Len(c) /\ Len(c) \in Nat
        /\ DOMAIN v = 1 .. Len(c) - 1 /\ \A i \in 1 .. Len(c) - 1 : v[i] = c[i + 1]
    <2> HIDE DEF c
    <2> QED
      BY <1>1, <1>2
  <1>4. \A i \in DOMAIN v : i + 1 \in DOMAIN c /\ i + 1 # 1 /\ v[i] = c[i + 1] /\ i \in Nat
    BY <1>3
  <1>5. \A i \in DOMAIN c : i = 1 \/ (i - 1 \in DOMAIN v /\ v[i - 1] = c[i])
    <2>1. \A i \in DOMAIN c : i = 1 \/ (i - 1 \in DOMAIN v /\ (i - 1) + 1 = i)
      BY <1>3
    <2> QED
      BY <1>3, <2>1
  <1>6. \A x \in Numbers : /\ conv'[x] = IF x = t THEN v ELSE conv[x]
                           /\ doing'[x] = IF x = t THEN d ELSE doing[x]
    BY <1>1, <1>2
  <1>7. d \in Work /\ d.at = "printing" /\ d.place = c[1]
    <2>1. <<>> \in Seq(Blks)
      OBVIOUS
    <2>2. c[1] \in Blks
      BY <1>2, <1>3
    <2> HIDE DEF c
    <2> QED
      BY <1>3, <2>1, <2>2 DEF Nothing, Work
  <1>8. /\ \A i \in DOMAIN c : Is(c[i], t, "line") /\ c[i] \in Blks
        /\ \A i, j \in DOMAIN c : c[i] = c[j] => i = j
    BY <1>2 DEF MemInv, LinesOwn
  <1> HIDE DEF v, d, c
  <1>9. MemTypeOK'
    BY <1>1, <1>2, <1>3, <1>7 DEF MemTypeOK
  <1>10. OwnersLive'
    BY <1>1 DEF MemInv, OwnersLive
  <1>11. LinesOwn'
    <2> SUFFICES ASSUME NEW x \in Numbers
                 PROVE  /\ \A i \in DOMAIN conv'[x] : Is(conv'[x][i], x, "line")
                        /\ \A i, j \in DOMAIN conv'[x] : conv'[x][i] = conv'[x][j] => i = j
                        /\ doing'[x].at = "printing" =>
                              \A i \in DOMAIN conv'[x] : conv'[x][i] # doing'[x].place
      BY <1>1 DEF LinesOwn, Is
    <2>1. CASE x # t
      BY <1>6, <2>1 DEF MemInv, LinesOwn
    <2>2. CASE x = t
      <3>1. \A i \in DOMAIN v : Is(v[i], t, "line") /\ v[i] # c[1]
        BY <1>3, <1>4, <1>8
      <3>2. \A i, j \in DOMAIN v : v[i] = v[j] => i = j
        <4> TAKE i, j \in DOMAIN v
        <4>1. v[i] = v[j] => i + 1 = j + 1
          BY <1>4, <1>8
        <4>2. i \in Nat /\ j \in Nat
          BY <1>4
        <4> QED
          BY <4>1, <4>2
      <3> QED
        BY <1>6, <1>7, <2>2, <3>1, <3>2
    <2> QED
      BY <2>1, <2>2
  <1>12. LinesWait'
    <2> SUFFICES ASSUME NEW p \in Blks, block[p].use = "line"
                 PROVE  LET o == block[p].owner IN
                        \/ \E i \in DOMAIN conv'[o] : conv'[o][i] = p
                        \/ doing'[o].at = "printing" /\ doing'[o].place = p
      BY <1>1 DEF LinesWait
    <2> DEFINE o == block[p].owner
    <2>1. o \in alive
      BY DEF MemInv, OwnersLive, Unused
    <2>2. \/ \E i \in DOMAIN conv[o] : conv[o][i] = p
          \/ doing[o].at = "printing" /\ doing[o].place = p
      BY DEF MemInv, LinesWait
    <2> HIDE DEF o
    <2>3. CASE o # t
      BY <1>2, <1>6, <2>1, <2>2, <2>3 DEF o
    <2>4. CASE o = t
      <3>1. PICK i \in DOMAIN c : c[i] = p
        BY <1>1, <2>2, <2>4 DEF c
      <3>2. CASE i = 1
        BY <1>6, <1>7, <2>4, <3>1, <3>2 DEF o
      <3>3. CASE i # 1
        BY <1>5, <1>6, <2>4, <3>1, <3>3 DEF o
      <3> QED
        BY <3>2, <3>3
    <2> QED
      BY <2>3, <2>4
  <1>13. WorkOwn'
    <2> SUFFICES ASSUME NEW x \in Numbers, doing'[x].at # "idle"
                 PROVE  doing'[x].place \in Blks /\ Is(doing'[x].place, x, UseOf(doing'[x].at))
      BY <1>1 DEF WorkOwn, Is
    <2>1. UseOf("printing") = "line"
      BY DEF UseOf
    <2> QED
      BY <1>3, <1>6, <1>7, <1>8, <2>1 DEF MemInv, WorkOwn
  <1>14. WatchersThere'
    <2> SUFFICES ASSUME NEW x \in alive, watched[x] # 0, x \notin missed
                 PROVE  Watches(block[watched[x]].owner, x, watched[x])'
      BY <1>1 DEF MemInv, WatchersThere
    <2>1. Watches(block[watched[x]].owner, x, watched[x])
      BY DEF MemInv, WatchersThere
    <2> QED
      BY <1>1, <1>2, <1>6, <2>1 DEF Watches
  <1> QED
    BY <1>9, <1>10, <1>11, <1>12, <1>13, <1>14 DEF MemInv

(* A task takes a block and is busy with it.                               *)
LEMMA StartsWork ==
    ASSUME MemInv, ~copied, NEW t \in alive, doing[t].at = "idle", FreePlaces # {},
           NEW use \in {"session", "buffer"}, block' = Allocated(t, use),
           NEW d \in Work, d.at # "idle", UseOf(d.at) = use, d.place = NextPlace,
           doing' = [doing EXCEPT ![t] = d],
           UNCHANGED <<alive, conv, copied, missed>>,
           watched' \in [Numbers -> Blks \cup {0}],
           \A x \in Numbers :
              watched'[x] = watched[x]
              \/ (x \in alive /\ watched'[x] = NextPlace /\ d.at = "watching" /\ d.task = x)
    PROVE  MemInv'
  <1> DEFINE q == NextPlace
  <1>1. /\ t \in Numbers /\ MemTypeOK /\ doing \in [Numbers -> Work]
        /\ conv \in [Numbers -> Seq(Blks)] /\ alive \subseteq Numbers
    BY DEF MemInv, MemTypeOK
  <1>2. /\ q \in Blks /\ block[q] = Unused /\ block' \in [Blks -> Block]
        /\ block'[q].owner = t /\ block'[q].use = use
        /\ \A p \in Blks \ {q} : block'[p] = block[p]
    BY <1>1, Taken
  <1>3. /\ \A x \in Numbers : \A i \in DOMAIN conv[x] : conv[x][i] # q /\ conv[x][i] \in Blks
        /\ \A x \in Numbers : doing[x].at # "idle" => doing[x].place # q
        /\ \A x \in alive : watched[x] # 0 /\ x \notin missed => watched[x] # q
    BY <1>1, <1>2, NotUsed
  <1>4. d.place = q
    OBVIOUS
  <1>5. \A x \in Numbers :
           watched'[x] = watched[x]
           \/ (x \in alive /\ watched'[x] = q /\ d.at = "watching" /\ d.task = x)
    OBVIOUS
  <1> HIDE DEF q
  <1>6. \A x \in Numbers : doing'[x] = IF x = t THEN d ELSE doing[x]
    BY <1>1
  <1>7. d.at # "printing"
    BY DEF UseOf
  <1>9. MemTypeOK'
    BY <1>1, <1>2 DEF MemTypeOK
  <1>10. OwnersLive'
    BY <1>2 DEF MemInv, OwnersLive
  <1>11. LinesOwn'
    <2> SUFFICES ASSUME NEW x \in Numbers
                 PROVE  /\ \A i \in DOMAIN conv[x] :
                              block'[conv[x][i]].owner = x /\ block'[conv[x][i]].use = "line"
                        /\ \A i, j \in DOMAIN conv[x] : conv[x][i] = conv[x][j] => i = j
                        /\ doing'[x].at = "printing" =>
                              \A i \in DOMAIN conv[x] : conv[x][i] # doing'[x].place
      BY DEF LinesOwn, Is
    <2> QED
      BY <1>2, <1>3, <1>6, <1>7 DEF MemInv, LinesOwn, Is
  <1>12. LinesWait'
    <2> SUFFICES ASSUME NEW p \in Blks, block'[p].use = "line"
                 PROVE  LET o == block'[p].owner IN
                        \/ \E i \in DOMAIN conv[o] : conv[o][i] = p
                        \/ doing'[o].at = "printing" /\ doing'[o].place = p
      BY DEF LinesWait
    <2>1. p # q /\ block'[p] = block[p]
      BY <1>2
    <2>2. block[p].owner \in Numbers
      BY <1>1, <2>1 DEF MemInv, OwnersLive, Unused
    <2>3. LET o == block[p].owner IN
          \/ \E i \in DOMAIN conv[o] : conv[o][i] = p
          \/ doing[o].at = "printing" /\ doing[o].place = p
      BY <2>1 DEF MemInv, LinesWait
    <2> QED
      BY <1>6, <2>1, <2>2, <2>3
  <1>13. WorkOwn'
    <2> SUFFICES ASSUME NEW x \in Numbers, doing'[x].at # "idle"
                 PROVE  /\ doing'[x].place \in Blks
                        /\ block'[doing'[x].place].owner = x
                        /\ block'[doing'[x].place].use = UseOf(doing'[x].at)
      BY DEF WorkOwn, Is
    <2> QED
      BY <1>2, <1>3, <1>4, <1>6 DEF MemInv, WorkOwn, Is
  <1>14. WatchersThere'
    <2>1. \A x \in Numbers \ alive : watched'[x] = 0
      BY <1>5 DEF MemInv, WatchersThere
    <2> SUFFICES ASSUME NEW x \in alive, watched'[x] # 0, x \notin missed
                 PROVE  LET w == block'[watched'[x]].owner IN
                        /\ w \in alive /\ doing'[w].at = "watching"
                        /\ doing'[w].place = watched'[x] /\ doing'[w].task = x
      BY <2>1 DEF WatchersThere, Watches
    <2>2. CASE watched'[x] = watched[x]
      <3>1. watched[x] \in Blks \ {q}
        BY <1>1, <1>3, <2>2
      <3>2. Watches(block[watched[x]].owner, x, watched[x])
        BY <2>2 DEF MemInv, WatchersThere
      <3>3. block'[watched[x]] = block[watched[x]]
        BY <1>2, <3>1
      <3> QED
        BY <1>1, <1>6, <2>2, <3>2, <3>3 DEF Watches
    <2>3. CASE watched'[x] = q /\ d.at = "watching" /\ d.task = x
      BY <1>1, <1>2, <1>4, <1>6, <2>3
    <2> QED
      BY <1>1, <1>5, <2>2, <2>3
  <1> QED
    BY <1>9, <1>10, <1>11, <1>12, <1>13, <1>14 DEF MemInv

LEMMA MbreplyKeeps ==
    ASSUME MemInv, ~copied, NEW t \in Numbers, Mbreply(t)
    PROVE  MemInv'
  <1> DEFINE d == [Nothing EXCEPT !.at = "replying", !.place = NextPlace, !.conv = conv[t]]
  <1>1. /\ t \in alive /\ doing[t].at = "idle" /\ FreePlaces # {}
        /\ block' = Allocated(t, "session") /\ doing' = [doing EXCEPT ![t] = d]
        /\ UNCHANGED <<alive, conv, watched, copied, missed>>
        /\ conv[t] \in Seq(Blks) /\ watched \in [Numbers -> Blks \cup {0}]
    BY DEF Mbreply, Does, MemInv, MemTypeOK
  <1>2. NextPlace \in Blks
    BY <1>1, NextFree
  <1>3. d \in Work /\ d.at = "replying" /\ d.place = NextPlace
    BY <1>1, <1>2 DEF Nothing, Work
  <1> HIDE DEF d
  <1>4. UseOf(d.at) = "session"
    BY <1>3 DEF UseOf
  <1> QED
    BY <1>1, <1>3, <1>4, StartsWork

LEMMA MonitorKeeps ==
    ASSUME MemInv, ~copied, NEW w \in Numbers, NEW x \in Numbers, Monitor(w, x)
    PROVE  MemInv'
  <1> DEFINE d == [Nothing EXCEPT !.at = "watching", !.place = NextPlace, !.task = x]
  <1>1. /\ w \in alive /\ x \in alive /\ doing[w].at = "idle" /\ FreePlaces # {}
        /\ block' = Allocated(w, "buffer") /\ doing' = [doing EXCEPT ![w] = d]
        /\ UNCHANGED <<alive, conv, copied, missed>>
        /\ watched' = [watched EXCEPT ![x] = NextPlace]
        /\ watched \in [Numbers -> Blks \cup {0}]
    BY DEF Monitor, Does, MemInv, MemTypeOK
  <1>2. NextPlace \in Blks
    BY <1>1, NextFree
  <1>3. d \in Work /\ d.at = "watching" /\ d.place = NextPlace /\ d.task = x
    <2>1. <<>> \in Seq(Blks)
      OBVIOUS
    <2> QED
      BY <1>1, <1>2, <2>1 DEF Nothing, Work
  <1> HIDE DEF d
  <1>4. UseOf(d.at) = "buffer"
    BY <1>3 DEF UseOf
  <1>5. watched' \in [Numbers -> Blks \cup {0}]
    BY <1>1, <1>2
  <1>6. \A y \in Numbers :
           watched'[y] = watched[y]
           \/ (y \in alive /\ watched'[y] = NextPlace /\ d.at = "watching" /\ d.task = y)
    BY <1>1, <1>3
  <1> QED
    BY <1>1, <1>3, <1>4, <1>5, <1>6, StartsWork

(* A task gives its block back.                                            *)
LEMMA StopsWork ==
    ASSUME MemInv, ~copied, NEW t \in alive, doing[t].at # "idle",
           block' = Released({doing[t].place}), doing' = [doing EXCEPT ![t] = Nothing],
           UNCHANGED <<alive, conv, copied>>, missed' \subseteq Numbers,
           watched' \in [Numbers -> Blks \cup {0}],
           \A x \in Numbers : watched'[x] \in {watched[x], 0},
           \A x \in alive : watched'[x] # 0 /\ x \notin missed' =>
              x \notin missed /\ ~(doing[t].at = "watching" /\ doing[t].task = x)
    PROVE  MemInv'
  <1> DEFINE q == doing[t].place
             use == UseOf(doing[t].at)
  <1>1. /\ t \in Numbers /\ MemTypeOK /\ doing \in [Numbers -> Work]
        /\ conv \in [Numbers -> Seq(Blks)] /\ alive \subseteq Numbers
        /\ watched \in [Numbers -> Blks \cup {0}]
    BY DEF MemInv, MemTypeOK
  <1>2. /\ block' \in [Blks -> Block]
        /\ \A p \in Blks : block'[p] = IF p = q THEN Unused ELSE block[p]
        /\ Unused.use = "none" /\ Unused.owner = "none"
    <2> HIDE DEF q
    <2>1. block' = Released({q})
      BY DEF q
    <2>2. \A p \in Blks : block'[p] = IF p \in {q} THEN Unused ELSE block[p]
      BY <1>1, <2>1, GivenBack
    <2>3. block' \in [Blks -> Block] /\ Unused.use = "none" /\ Unused.owner = "none"
      BY <1>1, <2>1, GivenBack
    <2> QED
      BY <2>2, <2>3
  <1>3. q \in Blks /\ block[q].owner = t /\ block[q].use = use
    BY <1>1 DEF MemInv, WorkOwn, Is
  <1>4. \A x \in Numbers : \A i \in DOMAIN conv[x] : conv[x][i] # q /\ conv[x][i] \in Blks
    <2> SUFFICES ASSUME NEW x \in Numbers, NEW i \in DOMAIN conv[x], conv[x][i] = q
                 PROVE  FALSE
      BY <1>1
    <2>1. x = t /\ use = "line"
      BY <1>3 DEF MemInv, LinesOwn, Is
    <2>2. doing[t].at = "printing"
      <3>1. doing[t].at \in {"printing", "replying", "watching"}
        BY <1>1 DEF Work
      <3> QED
        BY <2>1, <3>1 DEF UseOf
    <2> QED
      BY <1>1, <2>1, <2>2 DEF MemInv, LinesOwn
  <1>5. \A x \in Numbers \ {t} : doing[x].at # "idle" => doing[x].place # q
    BY <1>3 DEF MemInv, WorkOwn, Is
  <1>6. Nothing \in Work /\ Nothing.at = "idle"
    <2>1. <<>> \in Seq(Blks)
      OBVIOUS
    <2> QED
      BY <2>1 DEF Nothing, Work
  <1>7. \A x \in Numbers : doing'[x] = IF x = t THEN Nothing ELSE doing[x]
    BY <1>1
  <1>8. \A x \in alive : watched'[x] # 0 /\ x \notin missed' =>
           x \notin missed /\ watched'[x] = watched[x] /\ watched[x] \in Blks \ {q}
    <2> SUFFICES ASSUME NEW x \in alive, watched'[x] # 0, x \notin missed'
                 PROVE  x \notin missed /\ watched'[x] = watched[x] /\ watched[x] \in Blks \ {q}
      OBVIOUS
    <2>1. x \notin missed /\ watched'[x] = watched[x] /\ watched[x] \in Blks
      BY <1>1
    <2>2. Watches(block[watched[x]].owner, x, watched[x])
      BY <2>1 DEF MemInv, WatchersThere
    <2>3. watched[x] # q
      BY <1>3, <2>2 DEF Watches
    <2> QED
      BY <2>1, <2>3
  <1>9. MemTypeOK'
    BY <1>1, <1>2, <1>6 DEF MemTypeOK
  <1> HIDE DEF q, use
  <1>10. OwnersLive'
    BY <1>2 DEF MemInv, OwnersLive
  <1>11. LinesOwn'
    <2> SUFFICES ASSUME NEW x \in Numbers
                 PROVE  /\ \A i \in DOMAIN conv'[x] :
                              block'[conv'[x][i]].owner = x /\ block'[conv'[x][i]].use = "line"
                        /\ \A i, j \in DOMAIN conv'[x] : conv'[x][i] = conv'[x][j] => i = j
                        /\ doing'[x].at = "printing" =>
                              \A i \in DOMAIN conv'[x] : conv'[x][i] # doing'[x].place
      BY DEF LinesOwn, Is
    <2>6. conv' = conv
      OBVIOUS
    <2>1. \A i \in DOMAIN conv[x] : block'[conv[x][i]] = block[conv[x][i]]
      BY <1>2, <1>4
    <2>2. doing'[x].at = "printing" => doing'[x] = doing[x]
      BY <1>6, <1>7
    <2>3. /\ \A i \in DOMAIN conv[x] : Is(conv[x][i], x, "line")
          /\ \A i, j \in DOMAIN conv[x] : conv[x][i] = conv[x][j] => i = j
          /\ doing[x].at = "printing" => \A i \in DOMAIN conv[x] : conv[x][i] # doing[x].place
      BY DEF MemInv, LinesOwn
    <2>4. \A i \in DOMAIN conv[x] : block'[conv[x][i]].owner = x /\ block'[conv[x][i]].use = "line"
      BY <2>1, <2>3 DEF Is
    <2>5. doing'[x].at = "printing" => \A i \in DOMAIN conv[x] : conv[x][i] # doing'[x].place
      BY <2>2, <2>3
    <2> QED
      BY <2>3, <2>4, <2>5, <2>6
  <1>12. LinesWait'
    <2> SUFFICES ASSUME NEW p \in Blks, block'[p].use = "line"
                 PROVE  LET o == block'[p].owner IN
                        \/ \E i \in DOMAIN conv[o] : conv[o][i] = p
                        \/ doing'[o].at = "printing" /\ doing'[o].place = p
      BY DEF LinesWait
    <2>1. p # q /\ block'[p] = block[p]
      BY <1>2
    <2>2. block[p].owner \in Numbers
      BY <1>1, <2>1 DEF MemInv, OwnersLive, Unused
    <2>3. LET o == block[p].owner IN
          \/ \E i \in DOMAIN conv[o] : conv[o][i] = p
          \/ doing[o].at = "printing" /\ doing[o].place = p
      BY <2>1 DEF MemInv, LinesWait
    <2> QED
      BY <1>7, <2>1, <2>2, <2>3 DEF q
  <1>13. WorkOwn'
    <2> SUFFICES ASSUME NEW x \in Numbers, doing'[x].at # "idle"
                 PROVE  /\ doing'[x].place \in Blks
                        /\ block'[doing'[x].place].owner = x
                        /\ block'[doing'[x].place].use = UseOf(doing'[x].at)
      BY DEF WorkOwn, Is
    <2>1. x # t /\ doing'[x] = doing[x]
      BY <1>6, <1>7
    <2>2. doing[x].place \in Blks /\ Is(doing[x].place, x, UseOf(doing[x].at))
      BY <2>1 DEF MemInv, WorkOwn
    <2>3. block'[doing[x].place] = block[doing[x].place]
      BY <1>2, <1>5, <2>1, <2>2
    <2> QED
      BY <2>1, <2>2, <2>3 DEF Is
  <1>14. WatchersThere'
    <2>1. \A x \in Numbers \ alive : watched'[x] = 0
      BY DEF MemInv, WatchersThere
    <2> SUFFICES ASSUME NEW x \in alive, watched'[x] # 0, x \notin missed'
                 PROVE  LET w == block'[watched'[x]].owner IN
                        /\ w \in alive /\ doing'[w].at = "watching"
                        /\ doing'[w].place = watched'[x] /\ doing'[w].task = x
      BY <2>1 DEF WatchersThere, Watches
    <2>2. x \notin missed /\ watched'[x] = watched[x] /\ watched[x] \in Blks \ {q}
      BY <1>8
    <2>3. Watches(block[watched[x]].owner, x, watched[x])
      BY <2>2 DEF MemInv, WatchersThere
    <2>4. block'[watched[x]] = block[watched[x]]
      BY <1>2, <2>2
    <2>5. block[watched[x]].owner # t
      BY <2>2, <2>3 DEF Watches, q
    <2> QED
      BY <1>1, <1>7, <2>2, <2>3, <2>4, <2>5 DEF Watches
  <1> QED
    BY <1>9, <1>10, <1>11, <1>12, <1>13, <1>14 DEF MemInv

LEMMA EndsWorkKeeps ==
    ASSUME MemInv, ~copied, NEW t \in Numbers, TalkPrinted(t) \/ MbreplyEnds(t)
    PROVE  MemInv'
  <1>1. /\ t \in alive /\ doing[t].at \in {"printing", "replying"}
        /\ block' = Released({doing[t].place}) /\ doing' = [doing EXCEPT ![t] = Nothing]
        /\ UNCHANGED <<alive, conv, watched, copied, missed>>
    BY DEF TalkPrinted, MbreplyEnds, Does
  <1>2. missed \subseteq Numbers /\ watched \in [Numbers -> Blks \cup {0}]
    BY DEF MemInv, MemTypeOK
  <1> QED
    BY <1>1, <1>2, StopsWork

LEMMA MonitorEndsKeeps ==
    ASSUME MemInv, ~copied, NEW w \in Numbers, MonitorEnds(w)
    PROVE  MemInv'
  <1> DEFINE x == doing[w].task
  <1>1. /\ w \in alive /\ doing[w].at = "watching"
        /\ block' = Released({doing[w].place}) /\ doing' = [doing EXCEPT ![w] = Nothing]
        /\ UNCHANGED <<alive, conv, copied>>
        /\ IF x \in alive THEN watched' = [watched EXCEPT ![x] = 0] /\ missed' = missed \ {x}
           ELSE UNCHANGED <<watched, missed>>
    BY DEF MonitorEnds, Does
  <1>2. missed \subseteq Numbers /\ watched \in [Numbers -> Blks \cup {0}] /\ alive \subseteq Numbers
    BY DEF MemInv, MemTypeOK
  <1>3. missed' \subseteq Numbers /\ watched' \in [Numbers -> Blks \cup {0}]
    BY <1>1, <1>2
  <1>4. \A y \in Numbers : watched'[y] \in {watched[y], 0}
    BY <1>1, <1>2
  <1>5. \A y \in alive : watched'[y] # 0 /\ y \notin missed' =>
           y \notin missed /\ ~(doing[w].at = "watching" /\ doing[w].task = y)
    BY <1>1, <1>2
  <1> HIDE DEF x
  <1> QED
    BY <1>1, <1>3, <1>4, <1>5, StopsWork

LEMMA TaskEndsKeeps ==
    ASSUME MemInv, ~copied, NEW t \in Numbers, TaskEnds(t)
    PROVE  MemInv'
  <1> DEFINE fills == {x \in alive \ {t} : watched[x] \in Owned(t)} \cup (missed \ {t})
  <1>1. /\ t \in alive /\ alive' = alive \ {t}
        /\ block' = Released(Owned(t)) /\ doing' = [doing EXCEPT ![t] = Nothing]
        /\ conv' = [conv EXCEPT ![t] = <<>>] /\ UNCHANGED copied
    BY DEF TaskEnds, Does
  <1>2. PICK kept \in SUBSET fills :
           /\ missed' = kept
           /\ watched' = [x \in Numbers |-> IF x \in {t} \cup (fills \ kept) THEN 0 ELSE watched[x]]
    BY DEF TaskEnds
  <1>3. /\ MemTypeOK /\ doing \in [Numbers -> Work] /\ missed \subseteq Numbers
        /\ conv \in [Numbers -> Seq(Blks)] /\ alive \subseteq Numbers
        /\ watched \in [Numbers -> Blks \cup {0}]
    BY DEF MemInv, MemTypeOK
  <1>4. /\ block' \in [Blks -> Block]
        /\ \A p \in Blks : block'[p] = IF block[p].owner = t THEN Unused ELSE block[p]
        /\ Unused.use = "none" /\ Unused.owner = "none"
    BY <1>1, <1>3, GivenBack DEF Owned
  <1>5. Nothing \in Work /\ Nothing.at = "idle" /\ <<>> \in Seq(Blks) /\ DOMAIN <<>> = {}
    <2>1. <<>> \in Seq(Blks)
      OBVIOUS
    <2> QED
      BY <2>1 DEF Nothing, Work
  <1>6. \A x \in Numbers : /\ doing'[x] = IF x = t THEN Nothing ELSE doing[x]
                           /\ conv'[x] = IF x = t THEN <<>> ELSE conv[x]
    BY <1>1, <1>3
  <1>7. missed' \subseteq Numbers /\ watched' \in [Numbers -> Blks \cup {0}]
    BY <1>2, <1>3
  <1>8. \A x \in alive \ {t} : watched'[x] # 0 /\ x \notin missed' =>
           /\ x \notin missed /\ watched'[x] = watched[x] /\ watched[x] \in Blks
           /\ block[watched[x]].owner # t
    <2> SUFFICES ASSUME NEW x \in alive \ {t}, watched'[x] # 0, x \notin missed'
                 PROVE  /\ x \notin missed /\ watched'[x] = watched[x] /\ watched[x] \in Blks
                        /\ block[watched[x]].owner # t
      OBVIOUS
    <2>1. x \in Numbers /\ x # t
      BY <1>3
    <2>2. watched'[x] = IF x \in {t} \cup (fills \ kept) THEN 0 ELSE watched[x]
      BY <1>2, <2>1
    <2>3. x \notin fills /\ watched'[x] = watched[x]
      BY <1>2, <2>2
    <2>4. x \notin missed /\ watched[x] \notin Owned(t)
      BY <2>3
    <2> QED
      BY <1>3, <2>1, <2>3, <2>4 DEF Owned
  <1>9. MemTypeOK'
    BY <1>1, <1>3, <1>4, <1>5, <1>7 DEF MemTypeOK
  <1>10. OwnersLive'
    BY <1>1, <1>4 DEF MemInv, OwnersLive
  <1>11. LinesOwn'
    <2> SUFFICES ASSUME NEW x \in Numbers
                 PROVE  /\ \A i \in DOMAIN conv'[x] :
                              block'[conv'[x][i]].owner = x /\ block'[conv'[x][i]].use = "line"
                        /\ \A i, j \in DOMAIN conv'[x] : conv'[x][i] = conv'[x][j] => i = j
                        /\ doing'[x].at = "printing" =>
                              \A i \in DOMAIN conv'[x] : conv'[x][i] # doing'[x].place
      BY DEF LinesOwn, Is
    <2>1. CASE x = t
      BY <1>5, <1>6, <2>1
    <2>2. CASE x # t
      <3>1. \A i \in DOMAIN conv[x] : conv[x][i] \in Blks
        BY <1>3
      <3> QED
        BY <1>4, <1>6, <2>2, <3>1 DEF MemInv, LinesOwn, Is
    <2> QED
      BY <2>1, <2>2
  <1>12. LinesWait'
    <2> SUFFICES ASSUME NEW p \in Blks, block'[p].use = "line"
                 PROVE  LET o == block'[p].owner IN
                        \/ \E i \in DOMAIN conv'[o] : conv'[o][i] = p
                        \/ doing'[o].at = "printing" /\ doing'[o].place = p
      BY DEF LinesWait
    <2>1. block[p].owner # t /\ block'[p] = block[p]
      BY <1>4
    <2>2. block[p].owner \in Numbers
      BY <1>3, <2>1 DEF MemInv, OwnersLive, Unused
    <2>3. LET o == block[p].owner IN
          \/ \E i \in DOMAIN conv[o] : conv[o][i] = p
          \/ doing[o].at = "printing" /\ doing[o].place = p
      BY <2>1 DEF MemInv, LinesWait
    <2> QED
      BY <1>6, <2>1, <2>2, <2>3
  <1>13. WorkOwn'
    <2> SUFFICES ASSUME NEW x \in Numbers, doing'[x].at # "idle"
                 PROVE  /\ doing'[x].place \in Blks
                        /\ block'[doing'[x].place].owner = x
                        /\ block'[doing'[x].place].use = UseOf(doing'[x].at)
      BY DEF WorkOwn, Is
    <2> QED
      BY <1>4, <1>5, <1>6 DEF MemInv, WorkOwn, Is
  <1>14. WatchersThere'
    <2>1. \A x \in Numbers \ alive' : watched'[x] = 0
      BY <1>1, <1>2 DEF MemInv, WatchersThere
    <2> SUFFICES ASSUME NEW x \in alive \ {t}, watched'[x] # 0, x \notin missed'
                 PROVE  LET w == block'[watched'[x]].owner IN
                        /\ w \in alive \ {t} /\ doing'[w].at = "watching"
                        /\ doing'[w].place = watched'[x] /\ doing'[w].task = x
      BY <1>1, <2>1 DEF WatchersThere, Watches
    <2>2. /\ x \notin missed /\ watched'[x] = watched[x] /\ watched[x] \in Blks
          /\ block[watched[x]].owner # t
      BY <1>8
    <2>3. Watches(block[watched[x]].owner, x, watched[x])
      BY <2>2 DEF MemInv, WatchersThere
    <2>4. block'[watched[x]] = block[watched[x]]
      BY <1>4, <2>2
    <2> QED
      BY <1>3, <1>6, <2>2, <2>3, <2>4 DEF Watches
  <1> QED
    BY <1>9, <1>10, <1>11, <1>12, <1>13, <1>14 DEF MemInv

LEMMA MemInitInv == MemInit => MemInv
  <1> SUFFICES ASSUME MemInit PROVE MemInv
    OBVIOUS
  <1>1. Nothing \in Work /\ Nothing.at = "idle" /\ <<>> \in Seq(Blks) /\ DOMAIN <<>> = {}
    <2>1. <<>> \in Seq(Blks)
      OBVIOUS
    <2> QED
      BY <2>1 DEF Nothing, Work
  <1>2. Unused \in Block /\ Unused.use = "none"
    BY DEF Unused, Block
  <1>3. MemTypeOK
    BY <1>1, <1>2 DEF MemInit, MemTypeOK
  <1> QED
    BY <1>1, <1>2, <1>3 DEF MemInit, MemInv, OwnersLive, LinesOwn, LinesWait, WorkOwn,
       WatchersThere

(* What one task puts into another is there as long as it is used: every   *)
(* line waits for the task it belongs to or is being put out by it, and a  *)
(* buffer that a task fills belongs to one that is there and watches it    *)
(* (convin, conversout, monitor, dealloctask).                             *)
THEOREM MemoryInvariant == MemSpec => []MemInv
  <1>1. MemInv /\ [MemNext]_memVars => MemInv'
    <2>1. ASSUME MemInv, MemNext PROVE MemInv'
      BY <2>1, NewTaskKeeps, CopiedTaskKeeps, ConvinKeeps, TakeTalkKeeps, EndsWorkKeeps,
         MbreplyKeeps, MonitorKeeps, MonitorEndsKeeps, TaskEndsKeeps DEF MemNext
    <2>2. ASSUME MemInv, UNCHANGED memVars PROVE MemInv'
      BY <2>2 DEF memVars, MemInv, MemTypeOK, OwnersLive, LinesOwn, LinesWait, WorkOwn,
         WatchersThere, Watches, Is
    <2> QED
      BY <2>1, <2>2
  <1> QED
    BY <1>1, MemInitInv, PTL DEF MemSpec

(* A line that was accepted waits exactly once, and no task fills a buffer *)
(* that nobody watches.                                                    *)
THEOREM LinesAndBuffersHold == MemSpec => []LinesAndBuffers
  <1>1. MemInv => LinesAndBuffers
    <2> SUFFICES ASSUME MemInv, ~copied PROVE LinesAndBuffers
      BY DEF LinesAndBuffers
    <2>1. \A t \in alive : \A i \in DOMAIN conv[t] : block[conv[t][i]] = [owner |-> t, use |-> "line"]
      <3> TAKE t \in alive
      <3> TAKE i \in DOMAIN conv[t]
      <3>1. t \in Numbers /\ conv[t][i] \in Blks /\ MemTypeOK
        BY DEF MemInv, MemTypeOK
      <3>2. Is(conv[t][i], t, "line")
        BY <3>1 DEF MemInv, LinesOwn
      <3> QED
        BY <3>1, <3>2, BlockFields
    <2>2. ASSUME NEW p \in Blks, block[p].use = "line"
          PROVE  LET o == block[p].owner IN
                 Cardinality({i \in DOMAIN conv[o] : conv[o][i] = p})
                    + (IF doing[o].at = "printing" /\ doing[o].place = p THEN 1 ELSE 0) = 1
      <3> DEFINE o == block[p].owner
                 I == {i \in DOMAIN conv[o] : conv[o][i] = p}
      <3>1. o \in Numbers
        BY <2>2 DEF MemInv, MemTypeOK, OwnersLive, Unused
      <3>2. CASE doing[o].at = "printing" /\ doing[o].place = p
        <4>1. I = {}
          BY <3>1, <3>2 DEF MemInv, LinesOwn
        <4> HIDE DEF I
        <4>2. Cardinality(I) = 0
          BY <4>1, FS_EmptySet
        <4> QED
          BY <3>2, <4>2 DEF I
      <3>3. CASE ~(doing[o].at = "printing" /\ doing[o].place = p)
        <4>1. PICK i \in DOMAIN conv[o] : conv[o][i] = p
          BY <2>2, <3>3 DEF MemInv, LinesWait
        <4>2. I = {i}
          BY <3>1, <4>1 DEF MemInv, LinesOwn
        <4> HIDE DEF I
        <4>3. Cardinality(I) = 1
          BY <4>2, FS_Singleton
        <4> QED
          BY <3>3, <4>3 DEF I
      <3> QED
        BY <3>2, <3>3
    <2> QED
      BY <2>1, <2>2 DEF LinesAndBuffers, MemInv, OwnersLive, WatchersThere, Watches
  <1> QED
    BY <1>1, MemoryInvariant, PTL

LEMMA SetInduction ==
    ASSUME NEW S, 0 \in S, \A n \in Nat : n \in S => n + 1 \in S
    PROVE  Nat \subseteq S
  <1> DEFINE R == OpToRel(<, Nat)
             Q == Nat \ S
  <1>1. IsWellFoundedOn(R, Nat)
    BY NatLessThanWellFounded
  <1>2. SUFFICES ASSUME Q # {} PROVE FALSE
    OBVIOUS
  <1>3. PICK x \in Q : \A y \in Q : ~ (<<y, x>> \in R)
    <2>1. Q \subseteq Nat
      OBVIOUS
    <2> HIDE DEF R, Q
    <2> QED
      BY <1>1, <1>2, <2>1, WFMin
  <1>4. x - 1 \in Q /\ <<x - 1, x>> \in R
    BY DEF OpToRel
  <1> QED
    BY <1>3, <1>4

-----------------------------------------------------------------------------
(* The user file.                                                          *)

UserRecord == [call : Calls, data : Nat, next : Nat]
UserCopy == [call : Calls \cup {NoCall}, data : Nat, next : Nat, pos : Nat, load : Nat]

(* The chain of a file: each record leads to the one before it, and no two *)
(* are of one user.                                                        *)
Chained(f, first) ==
    /\ f \in Seq(UserRecord) /\ first = Len(f)
    /\ \A p \in DOMAIN f : f[p].next = p - 1
    /\ \A p, q \in DOMAIN f : f[p].call = f[q].call => p = q

(* How Walk goes on.                                                       *)
WalkOf(f, first, W) ==
    W = [k \in 0 .. Len(f) + 1 |->
            IF k = 0 THEN <<first>>
            ELSE LET w == W[k - 1] IN
                 IF w[Len(w)] = 0 THEN w ELSE Append(w, f[w[Len(w)]].next)]

(* The places from n down.                                                 *)
Down(n, j) == [i \in 1 .. j |-> n + 1 - i]

LEMMA DownStep ==
    ASSUME NEW n \in Nat, NEW j \in Nat, j <= n, j > 0
    PROVE  /\ Down(n, j)[Len(Down(n, j))] = n + 1 - j
           /\ Append(Down(n, j), n - j) = Down(n, j + 1)
           /\ Down(n, j) \in Seq(Nat) /\ Len(Down(n, j)) = j
  <1>1. Down(n, j) \in Seq(Nat) /\ Len(Down(n, j)) = j
    BY DEF Down
  <1>2. Down(n, j + 1) \in Seq(Nat) /\ Len(Down(n, j + 1)) = j + 1
    BY DEF Down
  <1>3. Append(Down(n, j), n - j) \in Seq(Nat) /\ Len(Append(Down(n, j), n - j)) = j + 1
    BY <1>1
  <1>4. \A i \in 1 .. j + 1 : Append(Down(n, j), n - j)[i] = Down(n, j + 1)[i]
    <2> TAKE i \in 1 .. j + 1
    <2>1. CASE i \in 1 .. j
      <3>1. Append(Down(n, j), n - j)[i] = Down(n, j)[i]
        BY <1>1, <2>1
      <3> QED
        BY <2>1, <3>1 DEF Down
    <2>2. CASE i = j + 1
      <3>1. Append(Down(n, j), n - j)[j + 1] = n - j
        BY <1>1
      <3>2. Down(n, j + 1)[j + 1] = n + 1 - (j + 1)
        BY DEF Down
      <3>3. n + 1 - (j + 1) = n - j
        OBVIOUS
      <3> QED
        BY <2>2, <3>1, <3>2, <3>3
    <2>3. i \in 1 .. j \/ i = j + 1
      OBVIOUS
    <2> QED
      BY <2>1, <2>2, <2>3
  <1>5. Append(Down(n, j), n - j) = Down(n, j + 1)
    BY <1>2, <1>3, <1>4, SeqEqual
  <1>6. Down(n, j)[j] = n + 1 - j
    BY DEF Down
  <1> QED
    BY <1>1, <1>5, <1>6

LEMMA WalkExists ==
    ASSUME NEW f, NEW first, Chained(f, first)
    PROVE  \E W : WalkOf(f, first, W)
  <1> DEFINE n == Len(f)
             V == [k \in 0 .. n + 1 |-> Down(n, IF k <= n THEN k + 1 ELSE n + 1)]
             B(k) == IF k = 0 THEN <<first>>
                     ELSE LET w == V[k - 1] IN
                          IF w[Len(w)] = 0 THEN w ELSE Append(w, f[w[Len(w)]].next)
  <1>1. n \in Nat /\ first = n /\ DOMAIN f = 1 .. n /\ \A p \in 1 .. n : f[p].next = p - 1
    BY DEF Chained
  <1> HIDE DEF n
  <1>2. \A k \in 0 .. n : V[k] = Down(n, k + 1)
    BY <1>1
  <1>3. V[n + 1] = Down(n, n + 1)
    BY <1>1
  <1> HIDE DEF V
  <1>4. \A k \in 0 .. n + 1 : V[k] = B(k)
    <2> SUFFICES ASSUME NEW k \in 0 .. n + 1 PROVE V[k] = B(k)
      OBVIOUS
    <2>1. CASE k = 0
      <3>1. V[0] = Down(n, 1)
        BY <1>1, <1>2
      <3>2. Down(n, 1) = <<n>>
        <4>1. Down(n, 1) \in Seq(Nat) /\ Len(Down(n, 1)) = 1 /\ Down(n, 1)[1] = n
          BY <1>1 DEF Down
        <4>2. <<n>> \in Seq(Nat) /\ Len(<<n>>) = 1 /\ <<n>>[1] = n
          BY <1>1
        <4>3. \A i \in 1 .. 1 : i = 1
          OBVIOUS
        <4> QED
          BY <4>1, <4>2, <4>3, SeqEqual
      <3> QED
        BY <1>1, <2>1, <3>1, <3>2
    <2>2. CASE k \in 1 .. n
      <3> DEFINE w == V[k - 1]
      <3>1. w = Down(n, k) /\ V[k] = Down(n, k + 1)
        <4>1. k - 1 \in 0 .. n /\ (k - 1) + 1 = k /\ k \in 0 .. n
          BY <1>1, <2>2
        <4> QED
          BY <1>2, <4>1
      <3>2. w[Len(w)] = n + 1 - k /\ Append(w, n - k) = Down(n, k + 1)
        <4>1. k \in Nat /\ k <= n /\ k > 0
          BY <1>1, <2>2
        <4> QED
          BY <1>1, <3>1, <4>1, DownStep
      <3>3. n + 1 - k \in 1 .. n /\ (n + 1 - k) - 1 = n - k
        BY <1>1, <2>2
      <3>4. w[Len(w)] # 0 /\ f[w[Len(w)]].next = n - k
        BY <1>1, <3>2, <3>3
      <3>5. k # 0
        BY <2>2
      <3> HIDE DEF w
      <3>6. B(k) = IF w[Len(w)] = 0 THEN w ELSE Append(w, f[w[Len(w)]].next)
        BY <3>5 DEF w
      <3> QED
        BY <3>1, <3>2, <3>4, <3>6
    <2>3. CASE k = n + 1
      <3> DEFINE w == V[k - 1]
      <3>1. w = Down(n, n + 1) /\ V[k] = Down(n, n + 1) /\ k # 0
        <4>1. k - 1 = n /\ n \in 0 .. n /\ k # 0
          BY <1>1, <2>3
        <4> QED
          BY <1>2, <1>3, <2>3, <4>1
      <3>2. w[Len(w)] = 0
        <4>1. Len(Down(n, n + 1)) = n + 1 /\ Down(n, n + 1)[n + 1] = 0
          BY <1>1 DEF Down
        <4> QED
          BY <3>1, <4>1
      <3> HIDE DEF w
      <3>6. B(k) = IF w[Len(w)] = 0 THEN w ELSE Append(w, f[w[Len(w)]].next)
        BY <3>1 DEF w
      <3> QED
        BY <3>1, <3>2, <3>6
    <2> QED
      BY <1>1, <2>1, <2>2, <2>3
  <1>5. V = [k \in 0 .. n + 1 |-> V[k]]
    BY DEF V
  <1>6. V = [k \in 0 .. n + 1 |-> B(k)]
    <2> HIDE DEF B
    <2> QED
      BY <1>4, <1>5
  <1>7. WalkOf(f, first, V)
    BY <1>6 DEF WalkOf, n
  <1> QED
    BY <1>7

LEMMA WalkOfDown ==
    ASSUME NEW f, NEW first, Chained(f, first), NEW W, WalkOf(f, first, W)
    PROVE  W[Len(f) + 1] = Down(Len(f), Len(f) + 1)
  <1> DEFINE n == Len(f)
             B(k) == IF k = 0 THEN <<first>>
                     ELSE LET w == W[k - 1] IN
                          IF w[Len(w)] = 0 THEN w ELSE Append(w, f[w[Len(w)]].next)
             Good == {k \in Nat : k <= n => W[k] = Down(n, k + 1)}
  <1>1. n \in Nat /\ first = n /\ DOMAIN f = 1 .. n /\ \A p \in 1 .. n : f[p].next = p - 1
    BY DEF Chained
  <1>2. \A k \in 0 .. n + 1 : W[k] = B(k)
    <2>1. W = [k \in 0 .. n + 1 |-> B(k)]
      BY DEF WalkOf
    <2> HIDE DEF B
    <2> QED
      BY <2>1
  <1> HIDE DEF n
  <1>3. 0 \in Good
    <2>1. 0 \in 0 .. n + 1
      BY <1>1
    <2>2. W[0] = B(0)
      <3> HIDE DEF B
      <3> QED
        BY <1>2, <2>1
    <2>3. W[0] = <<n>>
      BY <1>1, <2>2
    <2>4. Down(n, 1) = <<n>>
      <4>1. Down(n, 1) \in Seq(Nat) /\ Len(Down(n, 1)) = 1 /\ Down(n, 1)[1] = n
        BY <1>1 DEF Down
      <4>2. <<n>> \in Seq(Nat) /\ Len(<<n>>) = 1 /\ <<n>>[1] = n
        BY <1>1
      <4>3. \A i \in 1 .. 1 : i = 1
        OBVIOUS
      <4> QED
        BY <4>1, <4>2, <4>3, SeqEqual
    <2> QED
      BY <2>3, <2>4
  <1>4. ASSUME NEW k \in Nat, k \in Good PROVE k + 1 \in Good
    <2> SUFFICES ASSUME k + 1 <= n PROVE W[k + 1] = Down(n, (k + 1) + 1)
      OBVIOUS
    <2>1. W[k] = Down(n, k + 1) /\ k + 1 \in 0 .. n + 1 /\ k + 1 # 0 /\ (k + 1) - 1 = k
      BY <1>1, <1>4
    <2> DEFINE w == W[k]
    <2>2. w[Len(w)] = n + 1 - (k + 1) /\ Append(w, n - (k + 1)) = Down(n, (k + 1) + 1)
      <3>1. k + 1 \in Nat /\ k + 1 <= n /\ k + 1 > 0
        OBVIOUS
      <3> QED
        BY <1>1, <2>1, <3>1, DownStep
    <2>3. n + 1 - (k + 1) \in 1 .. n /\ (n + 1 - (k + 1)) - 1 = n - (k + 1)
      BY <1>1
    <2>4. w[Len(w)] # 0 /\ f[w[Len(w)]].next = n - (k + 1)
      BY <1>1, <2>2, <2>3
    <2>5. W[k + 1] = B(k + 1)
      <3> HIDE DEF B
      <3> QED
        BY <1>2, <2>1
    <2> HIDE DEF w
    <2>6. B(k + 1) = IF w[Len(w)] = 0 THEN w ELSE Append(w, f[w[Len(w)]].next)
      BY <2>1 DEF w
    <2> QED
      BY <2>2, <2>4, <2>5, <2>6
  <1>5. Nat \subseteq Good
    <2> HIDE DEF Good
    <2> QED
      BY <1>3, <1>4, SetInduction
  <1>6. W[n] = Down(n, n + 1)
    BY <1>1, <1>5
  <1> DEFINE w == W[n]
  <1>7. W[n + 1] = B(n + 1) /\ n + 1 # 0 /\ (n + 1) - 1 = n
    <2>1. n + 1 \in 0 .. n + 1
      BY <1>1
    <2> HIDE DEF B
    <2> QED
      BY <1>1, <1>2, <2>1
  <1>8. w[Len(w)] = 0
    <2>1. Len(Down(n, n + 1)) = n + 1 /\ Down(n, n + 1)[n + 1] = 0
      BY <1>1 DEF Down
    <2> QED
      BY <1>6, <2>1
  <1> HIDE DEF w
  <1>9. B(n + 1) = IF w[Len(w)] = 0 THEN w ELSE Append(w, f[w[Len(w)]].next)
    BY <1>7 DEF w
  <1>10. W[n + 1] = Down(n, n + 1)
    BY <1>6, <1>7, <1>8, <1>9 DEF w
  <1> QED
    BY <1>10 DEF n

(* A chain leads from the last record to the first.                        *)
LEMMA WalkDown ==
    ASSUME NEW f, NEW first, Chained(f, first)
    PROVE  /\ DOMAIN Walk(f, first) = 1 .. Len(f) /\ Len(Walk(f, first)) = Len(f)
           /\ \A k \in 1 .. Len(f) : Walk(f, first)[k] = Len(f) + 1 - k
  <1> DEFINE n == Len(f)
             E(W) == W = [k \in 0 .. Len(f) + 1 |->
                             IF k = 0 THEN <<first>>
                             ELSE LET w == W[k - 1] IN
                                  IF w[Len(w)] = 0 THEN w ELSE Append(w, f[w[Len(w)]].next)]
             W == CHOOSE W : E(W)
  <1>1. WalkOf(f, first, W)
    <2>1. \A X : WalkOf(f, first, X) <=> E(X)
      BY DEF WalkOf
    <2>2. \E X : E(X)
      BY <2>1, WalkExists
    <2> HIDE DEF E
    <2> QED
      BY <2>1, <2>2
  <1>2. W[n + 1] = Down(n, n + 1)
    BY <1>1, WalkOfDown
  <1>3. Walk(f, first) = SubSeq(W[n + 1], 1, Len(W[n + 1]) - 1)
    BY DEF Walk
  <1> HIDE DEF W
  <1>4. n \in Nat
    BY DEF Chained
  <1> HIDE DEF n
  <1>5. /\ Down(n, n + 1) \in Seq(Nat) /\ Len(Down(n, n + 1)) = n + 1
        /\ \A k \in 1 .. n + 1 : Down(n, n + 1)[k] = n + 1 - k
    BY <1>4 DEF Down
  <1>6. Walk(f, first) = SubSeq(Down(n, n + 1), 1, n)
    BY <1>2, <1>3, <1>4, <1>5
  <1>7. /\ DOMAIN Walk(f, first) = 1 .. n /\ Len(Walk(f, first)) = n
        /\ \A k \in 1 .. n : Walk(f, first)[k] = Down(n, n + 1)[k]
    BY <1>4, <1>5, <1>6
  <1>8. \A k \in 1 .. n : k \in 1 .. n + 1
    BY <1>4
  <1>9. \A k \in 1 .. n : Walk(f, first)[k] = n + 1 - k
    BY <1>5, <1>7, <1>8
  <1> QED
    BY <1>7, <1>9 DEF n

(* Found gives the record of a call, when it has one.                      *)
LEMMA FoundChained ==
    ASSUME NEW f, NEW first, Chained(f, first), NEW c
    PROVE  /\ \A p \in DOMAIN f : f[p].call = c => Found(f, first, c) = p
           /\ (\A p \in DOMAIN f : f[p].call # c) => Found(f, first, c) = 0
  <1> DEFINE n == Len(f)
             w == Walk(f, first)
             hits == {k \in DOMAIN w : f[w[k]].call = c}
             k0 == CHOOSE k \in hits : \A j \in hits : k <= j
  <1>1. /\ n \in Nat /\ DOMAIN f = 1 .. n
        /\ \A p, q \in 1 .. n : f[p].call = f[q].call => p = q
    BY DEF Chained
  <1>2. DOMAIN w = 1 .. n /\ \A k \in 1 .. n : w[k] = n + 1 - k
    BY WalkDown
  <1>3. Found(f, first, c) = IF hits = {} THEN 0 ELSE w[k0]
    BY DEF Found
  <1> HIDE DEF w, n
  <1>4. ASSUME NEW p \in DOMAIN f, f[p].call = c PROVE Found(f, first, c) = p
    <2>1. n + 1 - p \in 1 .. n /\ n + 1 - (n + 1 - p) = p
      BY <1>1
    <2>2. n + 1 - p \in hits
      BY <1>2, <1>4, <2>1
    <2>3. \A k \in hits : k = n + 1 - p
      <3> TAKE k \in hits
      <3>1. k \in 1 .. n /\ n + 1 - k \in 1 .. n /\ f[n + 1 - k].call = c
        BY <1>1, <1>2
      <3>2. n + 1 - k = p
        BY <1>1, <1>4, <3>1
      <3> QED
        BY <1>1, <3>1, <3>2
    <2> HIDE DEF hits
    <2>4. k0 = n + 1 - p
      <3>1. n + 1 - p <= n + 1 - p
        BY <1>1, <2>1
      <3>2. \E k \in hits : \A j \in hits : k <= j
        BY <2>2, <2>3, <3>1
      <3>3. k0 \in hits
        BY <3>2
      <3> QED
        BY <2>3, <3>3
    <2> QED
      BY <1>2, <1>3, <2>1, <2>2, <2>4
  <1>5. ASSUME \A p \in DOMAIN f : f[p].call # c PROVE Found(f, first, c) = 0
    <2>1. \A k \in 1 .. n : n + 1 - k \in 1 .. n
      BY <1>1
    <2>2. hits = {}
      BY <1>1, <1>2, <1>5, <2>1
    <2> HIDE DEF hits
    <2> QED
      BY <1>3, <2>2
  <1> QED
    BY <1>4, <1>5

UserTypeOK ==
    /\ now \in Nat /\ lastreorg \in Nat /\ lastreorg <= now /\ reorgAt \in Nat
    /\ usCache \in [1 .. CacheSize -> UserCopy] /\ putPos \in 1 .. CacheSize
    /\ held \in [Users -> UserCopy]

RecordOf(u) == [call |-> u.call, data |-> u.data, next |-> u.next]

(* What the cache answers is what is in file f.                            *)
CacheRight(cache, f) ==
    \A i \in 1 .. CacheSize : cache[i].call # NoCall =>
        cache[i].pos \in DOMAIN f /\ f[cache[i].pos] = RecordOf(cache[i]) /\ cache[i].load <= now
CacheSingle(cache) ==
    \A i, j \in 1 .. CacheSize :
        cache[i].call = cache[j].call /\ cache[i].call # NoCall => i = j

(* A copy that may be saved has the place of its own user.                 *)
Saveable(u, f) ==
    u.call \in Calls /\ u.pos \in DOMAIN f /\ f[u.pos].call = u.call /\ f[u.pos].next = u.next
CopiesRight ==
    \A s \in Users : held[s].load <= now /\ (MaySave(held[s]) => Saveable(held[s], userFile))

UserInv ==
    /\ UserTypeOK
    /\ Chained(userFile, chain) /\ Chained(newFile, newChain)
    /\ CacheRight(usCache, userFile) /\ CacheSingle(usCache)
    /\ CopiesRight

LEMMA PutCacheRight ==
    ASSUME NEW f, NEW cache \in [1 .. CacheSize -> UserCopy], CacheSingle(cache),
           putPos \in 1 .. CacheSize, NEW u \in UserCopy, u.call # NoCall,
           u.pos \in DOMAIN f, f[u.pos] = RecordOf(u), u.load <= now,
           \A i \in 1 .. CacheSize : cache[i].call \notin {NoCall, u.call} =>
              cache[i].pos \in DOMAIN f /\ f[cache[i].pos] = RecordOf(cache[i])
                /\ cache[i].load <= now,
           PutCache(u, cache)
    PROVE  /\ usCache' \in [1 .. CacheSize -> UserCopy] /\ putPos' \in 1 .. CacheSize
           /\ CacheRight(usCache', f) /\ CacheSingle(usCache')
  <1> DEFINE same == {i \in 1 .. CacheSize : cache[i].call = u.call}
             i0 == CHOOSE i \in same : TRUE
  <1>1. CASE same # {}
    <2>1. i0 \in same /\ usCache' = [cache EXCEPT ![i0] = u] /\ putPos' = putPos
      BY <1>1 DEF PutCache
    <2>2. i0 \in 1 .. CacheSize /\ cache[i0].call = u.call
      BY <2>1
    <2> HIDE DEF i0
    <2>3. \A i \in 1 .. CacheSize : usCache'[i] = IF i = i0 THEN u ELSE cache[i]
      BY <2>1
    <2>4. \A i \in 1 .. CacheSize : i # i0 => cache[i].call # u.call
      BY <2>2 DEF CacheSingle
    <2>5. CacheRight(usCache', f)
      BY <2>3, <2>4 DEF CacheRight
    <2>6. CacheSingle(usCache')
      BY <2>2, <2>3 DEF CacheSingle
    <2> QED
      BY <2>1, <2>2, <2>5, <2>6
  <1>2. CASE same = {}
    <2>1. usCache' = [cache EXCEPT ![putPos] = u] /\ putPos' = (putPos % CacheSize) + 1
      BY <1>2 DEF PutCache
    <2>2. putPos' \in 1 .. CacheSize
      <3>1. CacheSize \in Nat \ {0} /\ putPos \in Nat
        BY UserFileAssumption
      <3>2. putPos % CacheSize \in 0 .. CacheSize - 1
        BY <3>1
      <3> QED
        BY <2>1, <3>1, <3>2
    <2>3. \A i \in 1 .. CacheSize : usCache'[i] = IF i = putPos THEN u ELSE cache[i]
      BY <2>1
    <2>4. \A i \in 1 .. CacheSize : cache[i].call # u.call
      BY <1>2
    <2>5. CacheRight(usCache', f)
      BY <2>3, <2>4 DEF CacheRight
    <2>6. CacheSingle(usCache')
      BY <2>3, <2>4 DEF CacheSingle
    <2>7. usCache' \in [1 .. CacheSize -> UserCopy]
      BY <2>1
    <2> QED
      BY <2>2, <2>5, <2>6, <2>7
  <1> QED
    BY <1>1, <1>2

LEMMA EmptyCacheRight ==
    ASSUME NEW f
    PROVE  /\ EmptyCache \in [1 .. CacheSize -> UserCopy]
           /\ \A i \in 1 .. CacheSize : EmptyCache[i].call = NoCall
           /\ CacheRight(EmptyCache, f) /\ CacheSingle(EmptyCache)
           /\ None \in UserCopy /\ None.pos = 0 /\ None.load = 0 /\ None.call = NoCall
  <1>1. None \in UserCopy /\ None.call = NoCall /\ None.pos = 0 /\ None.load = 0
    BY DEF None, UserCopy
  <1>2. EmptyCache \in [1 .. CacheSize -> UserCopy] /\ \A i \in 1 .. CacheSize : EmptyCache[i] = None
    BY <1>1 DEF EmptyCache
  <1> QED
    BY <1>1, <1>2 DEF CacheRight, CacheSingle

(* newuser and reorguser: a record with a new call goes in front.          *)
LEMMA ChainAppend ==
    ASSUME NEW f, NEW first, Chained(f, first), NEW c \in Calls, NEW d \in Nat,
           Found(f, first, c) = 0, NEW r, r = [call |-> c, data |-> d, next |-> first]
    PROVE  /\ Chained(Append(f, r), Len(f) + 1)
           /\ \A p \in DOMAIN f : p \in DOMAIN Append(f, r) /\ Append(f, r)[p] = f[p]
           /\ Len(f) + 1 \in DOMAIN Append(f, r) /\ Append(f, r)[Len(f) + 1] = r
           /\ Len(f) \in Nat /\ first \in Nat
  <1> DEFINE n == Len(f)
             g == Append(f, r)
  <1>1. /\ f \in Seq(UserRecord) /\ first = n /\ n \in Nat /\ DOMAIN f = 1 .. n
        /\ \A p \in 1 .. n : f[p].next = p - 1
        /\ \A p, q \in 1 .. n : f[p].call = f[q].call => p = q
    BY DEF Chained
  <1>2. \A p \in 1 .. n : f[p].call # c
    <2>1. \A p \in DOMAIN f : f[p].call = c => Found(f, first, c) = p
      BY FoundChained
    <2> QED
      BY <1>1, <2>1
  <1>3. r \in UserRecord /\ r.call = c /\ r.next = n
    BY <1>1 DEF UserRecord
  <1>4. g \in Seq(UserRecord) /\ Len(g) = n + 1 /\ DOMAIN g = 1 .. n + 1
    BY <1>1, <1>3
  <1>5. g[n + 1] = r /\ \A p \in 1 .. n : g[p] = f[p]
    BY <1>1, <1>3
  <1> HIDE DEF g, n
  <1>6. \A p \in 1 .. n + 1 : p \in 1 .. n \/ p = n + 1
    BY <1>1
  <1>7. \A p \in DOMAIN g : g[p].next = p - 1
    <2> TAKE p \in DOMAIN g
    <2>1. CASE p \in 1 .. n
      BY <1>1, <1>5, <2>1
    <2>2. CASE p = n + 1
      BY <1>1, <1>3, <1>5, <2>2
    <2> QED
      BY <1>4, <1>6, <2>1, <2>2
  <1>8. \A p, q \in DOMAIN g : g[p].call = g[q].call => p = q
    BY <1>1, <1>2, <1>3, <1>4, <1>5, <1>6
  <1>9. Chained(g, n + 1)
    BY <1>4, <1>7, <1>8 DEF Chained
  <1>10. \A p \in 1 .. n : p \in 1 .. n + 1
    BY <1>1
  <1>11. n + 1 \in 1 .. n + 1
    BY <1>1
  <1> QED
    BY <1>1, <1>4, <1>5, <1>9, <1>10, <1>11 DEF g, n

-----------------------------------------------------------------------------
(* Each step keeps the invariant.                                          *)

LEMMA CacheHit ==
    ASSUME UserInv, NEW c \in Calls, CachedAt(c) # {}
    PROVE  LET u == usCache[CHOOSE i \in CachedAt(c) : TRUE]
           IN /\ u \in UserCopy /\ u.call = c /\ u.load <= now
              /\ Saveable(u, userFile)
  <1> DEFINE i0 == CHOOSE i \in CachedAt(c) : TRUE
  <1>1. i0 \in CachedAt(c)
    OBVIOUS
  <1>2. i0 \in 1 .. CacheSize /\ usCache[i0].call = c
    BY <1>1 DEF CachedAt
  <1> HIDE DEF i0
  <1>3. usCache[i0] \in UserCopy
    BY <1>2 DEF UserInv, UserTypeOK
  <1>4. c # NoCall
    BY UserFileAssumption
  <1>5. /\ usCache[i0].pos \in DOMAIN userFile
        /\ userFile[usCache[i0].pos] = RecordOf(usCache[i0])
        /\ usCache[i0].load <= now
    BY <1>2, <1>4 DEF UserInv, CacheRight
  <1>6. Saveable(usCache[i0], userFile)
    BY <1>2, <1>5 DEF Saveable, RecordOf
  <1> QED
    BY <1>2, <1>3, <1>5, <1>6 DEF i0

LEMMA LoadCachedKeeps ==
    ASSUME UserInv, NEW s \in Users, NEW c \in Calls, LoadCached(s, c)
    PROVE  UserInv'
  <1> DEFINE u == usCache[CHOOSE i \in CachedAt(c) : TRUE]
  <1>1. u \in UserCopy /\ u.load <= now /\ Saveable(u, userFile)
    BY CacheHit DEF LoadCached
  <1>2. held' = [held EXCEPT ![s] = u]
    BY DEF LoadCached
  <1> HIDE DEF u
  <1>3. /\ now' = now /\ userFile' = userFile /\ chain' = chain /\ usCache' = usCache
        /\ putPos' = putPos /\ reorgAt' = reorgAt /\ newFile' = newFile
        /\ newChain' = newChain /\ lastreorg' = lastreorg
    BY DEF LoadCached
  <1>4. UserTypeOK'
    BY <1>1, <1>2, <1>3 DEF UserInv, UserTypeOK
  <1>5. CopiesRight'
    <2>1. \A t \in Users : held'[t] = IF t = s THEN u ELSE held[t]
      BY <1>2 DEF UserInv, UserTypeOK
    <2>2. \A v : MaySave(v)' <=> MaySave(v)
      BY <1>3 DEF MaySave
    <2> QED
      BY <1>1, <1>3, <2>1 DEF UserInv, CopiesRight, MaySave, Saveable
  <1> QED
    BY <1>3, <1>4, <1>5 DEF UserInv, CacheRight, CacheSingle, Chained

LEMMA LoadFileKeeps ==
    ASSUME UserInv, NEW s \in Users, NEW c \in Calls, LoadFile(s, c)
    PROVE  UserInv'
  <1> DEFINE p == Found(userFile, chain, c)
             u == [call |-> c, data |-> userFile[p].data, next |-> userFile[p].next,
                   pos |-> p, load |-> now]
  <1>1. /\ held' = [held EXCEPT ![s] = u] /\ PutCache(u, usCache) /\ p # 0
        /\ now' = now /\ userFile' = userFile /\ chain' = chain /\ reorgAt' = reorgAt
        /\ newFile' = newFile /\ newChain' = newChain /\ lastreorg' = lastreorg
    BY DEF LoadFile
  <1>2. p \in DOMAIN userFile /\ userFile[p].call = c
    <2>1. Chained(userFile, chain)
      BY DEF UserInv
    <2>2. PICK q \in DOMAIN userFile : userFile[q].call = c
      BY <1>1, <2>1, FoundChained
    <2>3. p = q
      BY <2>1, <2>2, FoundChained
    <2> QED
      BY <2>2, <2>3
  <1>3. p \in Nat /\ userFile[p] \in UserRecord
    BY <1>2 DEF UserInv, Chained
  <1>4. now \in Nat /\ c # NoCall
    BY UserFileAssumption DEF UserInv, UserTypeOK
  <1> HIDE DEF p
  <1>5. /\ u \in UserCopy /\ u.call = c /\ u.pos = p /\ u.load = now
        /\ u.data = userFile[p].data /\ u.next = userFile[p].next
    BY <1>3, <1>4 DEF UserCopy, UserRecord
  <1>6. userFile[p] = RecordOf(u)
    BY <1>2, <1>3, <1>5 DEF RecordOf, UserRecord
  <1>7. Saveable(u, userFile)
    BY <1>2, <1>5 DEF Saveable
  <1> HIDE DEF u
  <1>8. /\ usCache' \in [1 .. CacheSize -> UserCopy] /\ putPos' \in 1 .. CacheSize
        /\ CacheRight(usCache', userFile) /\ CacheSingle(usCache')
    <2>1. /\ usCache \in [1 .. CacheSize -> UserCopy] /\ CacheSingle(usCache)
          /\ putPos \in 1 .. CacheSize
      BY DEF UserInv, UserTypeOK
    <2>2. \A i \in 1 .. CacheSize : usCache[i].call \notin {NoCall, u.call} =>
              usCache[i].pos \in DOMAIN userFile
                /\ userFile[usCache[i].pos] = RecordOf(usCache[i]) /\ usCache[i].load <= now
      BY DEF UserInv, CacheRight
    <2>3. u.call # NoCall /\ u.pos \in DOMAIN userFile /\ userFile[u.pos] = RecordOf(u)
            /\ u.load <= now
      BY <1>2, <1>4, <1>5, <1>6
    <2> QED
      BY <1>1, <1>5, <2>1, <2>2, <2>3, PutCacheRight
  <1>9. UserTypeOK'
    BY <1>1, <1>5, <1>8 DEF UserInv, UserTypeOK
  <1>10. CopiesRight'
    <2>1. \A t \in Users : held'[t] = IF t = s THEN u ELSE held[t]
      BY <1>1 DEF UserInv, UserTypeOK
    <2> QED
      BY <1>1, <1>4, <1>5, <1>7, <2>1 DEF UserInv, CopiesRight, MaySave, Saveable
  <1> QED
    BY <1>1, <1>8, <1>9, <1>10 DEF UserInv, CacheRight, CacheSingle, Chained

LEMMA LoadNewKeeps ==
    ASSUME UserInv, NEW s \in Users, NEW c \in Calls, LoadNew(s, c)
    PROVE  UserInv'
  <1> DEFINE u == [call |-> c, data |-> 0, next |-> chain,
                   pos |-> Len(userFile) + 1, load |-> now]
             r == [call |-> c, data |-> 0, next |-> chain]
             g == Append(userFile, r)
             n == Len(userFile) + 1
  <1>1. /\ held' = [held EXCEPT ![s] = u] /\ PutCache(u, EmptyCache)
        /\ userFile' = g /\ chain' = n /\ Found(userFile, chain, c) = 0
        /\ now' = now /\ reorgAt' = reorgAt
        /\ newFile' = newFile /\ newChain' = newChain /\ lastreorg' = lastreorg
    BY DEF LoadNew
  <1>2. /\ Chained(g, n)
        /\ \A p \in DOMAIN userFile : p \in DOMAIN g /\ g[p] = userFile[p]
        /\ n \in DOMAIN g /\ g[n] = r /\ n \in Nat /\ chain \in Nat
    <2>1. Chained(userFile, chain)
      BY DEF UserInv
    <2>2. Found(userFile, chain, c) = 0 /\ 0 \in Nat
      BY <1>1
    <2> HIDE DEF u
    <2> QED
      BY ONLY <2>1, <2>2, c \in Calls, ChainAppend
  <1>3. now \in Nat /\ c # NoCall
    BY UserFileAssumption DEF UserInv, UserTypeOK
  <1> HIDE DEF g, n
  <1>4. /\ u \in UserCopy /\ u.call = c /\ u.pos = n /\ u.load = now
        /\ u.data = 0 /\ u.next = chain
    BY <1>2, <1>3 DEF UserCopy, n
  <1>5. g[n] = RecordOf(u)
    BY <1>2, <1>4 DEF RecordOf
  <1>6. Saveable(u, g)
    BY <1>2, <1>4 DEF Saveable
  <1> HIDE DEF u, r
  <1>7. /\ usCache' \in [1 .. CacheSize -> UserCopy] /\ putPos' \in 1 .. CacheSize
        /\ CacheRight(usCache', g) /\ CacheSingle(usCache')
    <2>1. /\ EmptyCache \in [1 .. CacheSize -> UserCopy] /\ CacheSingle(EmptyCache)
          /\ putPos \in 1 .. CacheSize
          /\ \A i \in 1 .. CacheSize : EmptyCache[i].call = NoCall
      BY EmptyCacheRight DEF UserInv, UserTypeOK
    <2>2. \A i \in 1 .. CacheSize : EmptyCache[i].call \notin {NoCall, u.call} =>
              EmptyCache[i].pos \in DOMAIN g
                /\ g[EmptyCache[i].pos] = RecordOf(EmptyCache[i]) /\ EmptyCache[i].load <= now
      BY <2>1
    <2>3. u.call # NoCall /\ u.pos \in DOMAIN g /\ g[u.pos] = RecordOf(u) /\ u.load <= now
      BY <1>2, <1>3, <1>4, <1>5
    <2> QED
      BY <1>1, <1>4, <2>1, <2>2, <2>3, PutCacheRight
  <1>8. UserTypeOK'
    BY <1>1, <1>4, <1>7 DEF UserInv, UserTypeOK
  <1>9. CopiesRight'
    <2>1. \A t \in Users : held'[t] = IF t = s THEN u ELSE held[t]
      BY <1>1 DEF UserInv, UserTypeOK
    <2>2. \A v : Saveable(v, userFile) => Saveable(v, g)
      BY <1>2 DEF Saveable
    <2>3. \A v : MaySave(v)' <=> MaySave(v)
      BY <1>1 DEF MaySave
    <2>4. \A t \in Users : held'[t].load <= now /\ (MaySave(held'[t]) => Saveable(held'[t], g))
      BY <1>3, <1>4, <1>6, <2>1, <2>2 DEF UserInv, CopiesRight
    <2> QED
      BY <1>1, <2>4 DEF CopiesRight, MaySave, Saveable
  <1> QED
    BY <1>1, <1>2, <1>7, <1>8, <1>9 DEF UserInv, CacheRight, CacheSingle, Chained

LEMMA LoadUnknownKeeps ==
    ASSUME UserInv, NEW s \in Users, NEW c \in Calls, LoadUnknown(s, c)
    PROVE  UserInv'
  <1> DEFINE u == [held[s] EXCEPT !.pos = 0]
  <1>1. /\ held' = [held EXCEPT ![s] = u]
        /\ now' = now /\ userFile' = userFile /\ chain' = chain /\ usCache' = usCache
        /\ putPos' = putPos /\ reorgAt' = reorgAt /\ newFile' = newFile
        /\ newChain' = newChain /\ lastreorg' = lastreorg
    BY DEF LoadUnknown
  <1>2. held[s] \in UserCopy /\ held[s].load <= now
    BY DEF UserInv, UserTypeOK, CopiesRight
  <1>3. u \in UserCopy /\ u.pos = 0 /\ u.load = held[s].load
    BY <1>2 DEF UserCopy
  <1> HIDE DEF u
  <1>4. UserTypeOK'
    BY <1>1, <1>3 DEF UserInv, UserTypeOK
  <1>5. CopiesRight'
    <2>1. \A t \in Users : held'[t] = IF t = s THEN u ELSE held[t]
      BY <1>1 DEF UserInv, UserTypeOK
    <2> QED
      BY <1>1, <1>2, <1>3, <2>1 DEF UserInv, CopiesRight, MaySave, Saveable
  <1> QED
    BY <1>1, <1>4, <1>5 DEF UserInv, CacheRight, CacheSingle, Chained

(* A save goes to the record of its own user: the chain stays.             *)
LEMMA SaveuserKeeps ==
    ASSUME UserInv, NEW s \in Users, Saveuser(s)
    PROVE  UserInv'
  <1> DEFINE u == [held[s] EXCEPT !.data = @ + 1]
             r == [call |-> u.call, data |-> u.data, next |-> u.next]
             g == [userFile EXCEPT ![u.pos] = r]
  <1>1. /\ held' = [held EXCEPT ![s] = u] /\ held[s].call # NoCall
        /\ IF MaySave(u) THEN userFile' = g /\ PutCache(u, usCache)
                         ELSE UNCHANGED <<userFile, usCache, putPos>>
        /\ now' = now /\ chain' = chain /\ reorgAt' = reorgAt
        /\ newFile' = newFile /\ newChain' = newChain /\ lastreorg' = lastreorg
    BY DEF Saveuser
  <1>2. held[s] \in UserCopy /\ held[s].load <= now
    BY DEF UserInv, UserTypeOK, CopiesRight
  <1>3. /\ u \in UserCopy /\ u.call = held[s].call /\ u.pos = held[s].pos
        /\ u.load = held[s].load /\ u.next = held[s].next
    BY <1>2 DEF UserCopy
  <1> HIDE DEF u
  <1>4. MaySave(u) <=> MaySave(held[s])
    BY <1>3 DEF MaySave
  <1>5. \A t \in Users : held'[t] = IF t = s THEN u ELSE held[t]
    BY <1>1 DEF UserInv, UserTypeOK
  <1>6. held' \in [Users -> UserCopy]
    BY <1>1, <1>3 DEF UserInv, UserTypeOK
  <1>7. CASE ~ MaySave(u)
    <2>1. userFile' = userFile /\ usCache' = usCache /\ putPos' = putPos
      BY <1>1, <1>7
    <2>2. UserTypeOK'
      BY <1>1, <1>6, <2>1 DEF UserInv, UserTypeOK
    <2>3. CopiesRight'
      BY <1>1, <1>2, <1>3, <1>5, <1>7, <2>1 DEF UserInv, CopiesRight, MaySave, Saveable
    <2> QED
      BY <1>1, <2>1, <2>2, <2>3 DEF UserInv, CacheRight, CacheSingle, Chained
  <1>8. CASE MaySave(u)
    <2>1. userFile' = g /\ PutCache(u, usCache)
      BY <1>1, <1>8
    <2>2. Saveable(held[s], userFile)
      BY <1>4, <1>8 DEF UserInv, CopiesRight
    <2>3. /\ u.call \in Calls /\ u.pos \in DOMAIN userFile
          /\ userFile[u.pos].call = u.call /\ userFile[u.pos].next = u.next
      BY <1>3, <2>2 DEF Saveable
    <2>4. r \in UserRecord /\ r = RecordOf(u) /\ r.call = u.call /\ r.next = u.next
      BY <1>3, <2>3 DEF UserCopy, UserRecord, RecordOf
    <2> HIDE DEF r
    <2>5. Chained(userFile, chain) /\ userFile \in Seq(UserRecord)
      BY DEF UserInv, Chained
    <2>6. /\ g \in Seq(UserRecord) /\ Len(g) = Len(userFile) /\ DOMAIN g = DOMAIN userFile
          /\ \A p \in DOMAIN userFile : g[p] = IF p = u.pos THEN r ELSE userFile[p]
      BY <2>3, <2>4, <2>5
    <2> HIDE DEF g
    <2>7. \A p \in DOMAIN userFile : g[p].call = userFile[p].call /\ g[p].next = userFile[p].next
      BY <2>3, <2>4, <2>6
    <2>8. Chained(g, chain)
      BY <2>5, <2>6, <2>7 DEF Chained
    <2>9. /\ usCache' \in [1 .. CacheSize -> UserCopy] /\ putPos' \in 1 .. CacheSize
          /\ CacheRight(usCache', g) /\ CacheSingle(usCache')
      <3>1. /\ usCache \in [1 .. CacheSize -> UserCopy] /\ CacheSingle(usCache)
            /\ putPos \in 1 .. CacheSize
        BY DEF UserInv, UserTypeOK
      <3>2. ASSUME NEW i \in 1 .. CacheSize, usCache[i].call \notin {NoCall, u.call}
            PROVE  usCache[i].pos \in DOMAIN g
                     /\ g[usCache[i].pos] = RecordOf(usCache[i]) /\ usCache[i].load <= now
        <4>1. /\ usCache[i].pos \in DOMAIN userFile /\ usCache[i].load <= now
              /\ userFile[usCache[i].pos] = RecordOf(usCache[i])
          BY <3>2 DEF UserInv, CacheRight
        <4>2. userFile[usCache[i].pos].call = usCache[i].call
          BY <4>1 DEF RecordOf
        <4>3. usCache[i].pos # u.pos
          BY <2>3, <3>2, <4>2
        <4> QED
          BY <2>6, <4>1, <4>3
      <3>3. u.call # NoCall /\ u.pos \in DOMAIN g /\ g[u.pos] = RecordOf(u) /\ u.load <= now
        BY <1>1, <1>2, <1>3, <2>3, <2>4, <2>6
      <3> QED
        BY <1>3, <2>1, <3>1, <3>2, <3>3, PutCacheRight
    <2>10. UserTypeOK'
      BY <1>1, <1>6, <2>9 DEF UserInv, UserTypeOK
    <2>11. CopiesRight'
      <3>1. \A v : Saveable(v, userFile) => Saveable(v, g)
        BY <2>6, <2>7 DEF Saveable
      <3>2. Saveable(u, g)
        BY <2>3, <2>6, <2>7 DEF Saveable
      <3>3. \A t \in Users : held'[t].load <= now /\ (MaySave(held'[t]) => Saveable(held'[t], g))
        BY <1>2, <1>3, <1>5, <3>1, <3>2 DEF UserInv, CopiesRight
      <3> QED
        BY <1>1, <2>1, <3>3 DEF CopiesRight, MaySave, Saveable
    <2> QED
      BY <1>1, <2>1, <2>8, <2>9, <2>10, <2>11 DEF UserInv, CacheRight, CacheSingle, Chained
  <1> QED
    BY <1>7, <1>8

LEMMA ReorgStartKeeps ==
    ASSUME UserInv, ReorgStart
    PROVE  UserInv'
  <1>1. /\ usCache' = EmptyCache /\ newFile' = << >> /\ newChain' = 0 /\ reorgAt' = 1
        /\ now' = now /\ userFile' = userFile /\ chain' = chain
        /\ putPos' = putPos /\ held' = held /\ lastreorg' = lastreorg
    BY DEF ReorgStart
  <1>2. /\ usCache' \in [1 .. CacheSize -> UserCopy]
        /\ CacheRight(usCache', userFile) /\ CacheSingle(usCache')
    BY <1>1, EmptyCacheRight
  <1>3. Chained(newFile', newChain')
    BY <1>1 DEF Chained
  <1>4. UserTypeOK'
    BY <1>1, <1>2 DEF UserInv, UserTypeOK
  <1>5. CopiesRight'
    BY <1>1 DEF UserInv, CopiesRight, MaySave, Saveable
  <1> QED
    BY <1>1, <1>2, <1>3, <1>4, <1>5 DEF UserInv, CacheRight, CacheSingle, Chained

LEMMA ReorgRecordKeeps ==
    ASSUME UserInv, ReorgRecord
    PROVE  UserInv'
  <1> DEFINE old == userFile[reorgAt]
             r == [call |-> old.call, data |-> old.data, next |-> newChain]
  <1>1. /\ reorgAt' = reorgAt + 1 /\ usCache' = usCache
        /\ now' = now /\ userFile' = userFile /\ chain' = chain
        /\ putPos' = putPos /\ held' = held /\ lastreorg' = lastreorg
        /\ reorgAt # 0 /\ reorgAt <= Len(userFile)
    BY DEF ReorgRecord
  <1>2. Chained(newFile', newChain')
    <2>1. CASE newFile' = newFile /\ newChain' = newChain
      BY <2>1 DEF UserInv
    <2>2. CASE /\ Found(newFile, newChain, old.call) = 0
               /\ newFile' = Append(newFile, r) /\ newChain' = Len(newFile) + 1
      <3>1. reorgAt \in DOMAIN userFile
        BY <1>1 DEF UserInv, UserTypeOK, Chained
      <3>2. old \in UserRecord
        BY <3>1 DEF UserInv, Chained
      <3>3. old.call \in Calls /\ old.data \in Nat
        BY <3>2 DEF UserRecord
      <3>4. Chained(newFile, newChain)
        BY DEF UserInv
      <3> QED
        BY <2>2, <3>3, <3>4, ChainAppend
    <2> QED
      BY <2>1, <2>2 DEF ReorgRecord
  <1>3. UserTypeOK'
    BY <1>1 DEF UserInv, UserTypeOK
  <1>4. CopiesRight'
    BY <1>1 DEF UserInv, CopiesRight, MaySave, Saveable
  <1> QED
    BY <1>1, <1>2, <1>3, <1>4 DEF UserInv, CacheRight, CacheSingle, Chained

(* The records have new places, and no copy is young enough to be saved.   *)
LEMMA ReorgEndKeeps ==
    ASSUME UserInv, ReorgEnd
    PROVE  UserInv'
  <1>1. /\ userFile' = newFile /\ chain' = newChain /\ usCache' = EmptyCache
        /\ lastreorg' = now /\ reorgAt' = 0 /\ now' = now /\ putPos' = putPos
        /\ held' = held /\ newFile' = newFile /\ newChain' = newChain
    BY DEF ReorgEnd
  <1>2. /\ usCache' \in [1 .. CacheSize -> UserCopy]
        /\ CacheRight(usCache', newFile) /\ CacheSingle(usCache')
    BY <1>1, EmptyCacheRight
  <1>3. UserTypeOK'
    BY <1>1, <1>2 DEF UserInv, UserTypeOK
  <1>4. CopiesRight'
    <2>1. \A t \in Users : held[t].load \in Nat /\ now \in Nat /\ held[t].load <= now
      BY DEF UserInv, UserTypeOK, CopiesRight, UserCopy
    <2>2. \A t \in Users : ~ (held[t].load > now)
      BY <2>1
    <2> QED
      BY <1>1, <2>1, <2>2 DEF CopiesRight, MaySave
  <1> QED
    BY <1>1, <1>2, <1>3, <1>4 DEF UserInv, CacheRight, CacheSingle, Chained

LEMMA ReorgKilledKeeps ==
    ASSUME UserInv, ReorgKilled
    PROVE  UserInv'
  BY DEF ReorgKilled, UserInv, UserTypeOK, CopiesRight, MaySave, Saveable,
         CacheRight, CacheSingle, Chained

LEMMA SecondKeeps ==
    ASSUME UserInv, Second
    PROVE  UserInv'
  <1>1. /\ now' = now + 1 /\ userFile' = userFile /\ chain' = chain /\ usCache' = usCache
        /\ putPos' = putPos /\ reorgAt' = reorgAt /\ newFile' = newFile
        /\ newChain' = newChain /\ lastreorg' = lastreorg /\ held' = held
    BY DEF Second
  <1>2. now \in Nat /\ lastreorg \in Nat /\ lastreorg <= now
    BY DEF UserInv, UserTypeOK
  <1>3. UserTypeOK'
    BY <1>1, <1>2 DEF UserInv, UserTypeOK
  <1>4. CopiesRight'
    <2>1. \A t \in Users : held[t].load \in Nat
      BY DEF UserInv, UserTypeOK, UserCopy
    <2> QED
      BY <1>1, <1>2, <2>1 DEF UserInv, CopiesRight, MaySave, Saveable
  <1>5. CacheRight(usCache, userFile)'
    <2>1. \A i \in 1 .. CacheSize : usCache[i].load \in Nat
      BY DEF UserInv, UserTypeOK, UserCopy
    <2> QED
      BY <1>1, <1>2, <2>1 DEF UserInv, CacheRight
  <1> QED
    BY <1>1, <1>3, <1>4, <1>5 DEF UserInv, CacheSingle, Chained

(* However saves, new users and a reorganisation interleave, the chain     *)
(* leads from each record to the one before it and no two are of one user, *)
(* the cache is what the file is, and a copy that may be saved has the     *)
(* place of its own user.  (loaduser, newuser, saveuser, reorguser)        *)
THEOREM UserInvariant == UserSpec => []UserInv
  <1>1. UserInit => UserInv
    <2> SUFFICES ASSUME UserInit PROVE UserInv
      OBVIOUS
    <2>1. usCache = EmptyCache
      BY DEF UserInit, EmptyCache
    <2>2. /\ usCache \in [1 .. CacheSize -> UserCopy]
          /\ CacheRight(usCache, userFile) /\ CacheSingle(usCache)
      BY <2>1, EmptyCacheRight
    <2>3. \A s \in Users : held[s] = None
      BY DEF UserInit
    <2>4. None \in UserCopy /\ None.pos = 0 /\ None.load = 0 /\ None.call = NoCall
      BY EmptyCacheRight
    <2>5. UserTypeOK
      <3>1. putPos \in 1 .. CacheSize
        BY UserFileAssumption DEF UserInit
      <3> QED
        BY <2>2, <2>4, <3>1 DEF UserInit, UserTypeOK
    <2>6. CopiesRight
      BY <2>3, <2>4 DEF UserInit, CopiesRight, MaySave
    <2>7. Chained(userFile, chain) /\ Chained(newFile, newChain)
      BY DEF UserInit, Chained
    <2> QED
      BY <2>2, <2>5, <2>6, <2>7 DEF UserInv
  <1>2. UserInv /\ [UserNext]_uvars => UserInv'
    <2> SUFFICES ASSUME UserInv, [UserNext]_uvars PROVE UserInv'
      OBVIOUS
    <2>1. ASSUME NEW s \in Users, NEW c \in Calls, LoadCached(s, c) PROVE UserInv'
      BY <2>1, LoadCachedKeeps
    <2>2. ASSUME NEW s \in Users, NEW c \in Calls, LoadFile(s, c) PROVE UserInv'
      BY <2>2, LoadFileKeeps
    <2>3. ASSUME NEW s \in Users, NEW c \in Calls, LoadNew(s, c) PROVE UserInv'
      BY <2>3, LoadNewKeeps
    <2>4. ASSUME NEW s \in Users, NEW c \in Calls, LoadUnknown(s, c) PROVE UserInv'
      BY <2>4, LoadUnknownKeeps
    <2>5. ASSUME NEW s \in Users, Saveuser(s) PROVE UserInv'
      BY <2>5, SaveuserKeeps
    <2>6. CASE ReorgStart
      BY <2>6, ReorgStartKeeps
    <2>7. CASE ReorgRecord
      BY <2>7, ReorgRecordKeeps
    <2>8. CASE ReorgEnd
      BY <2>8, ReorgEndKeeps
    <2>9. CASE ReorgKilled
      BY <2>9, ReorgKilledKeeps
    <2>10. CASE Second
      BY <2>10, SecondKeeps
    <2>11. CASE UNCHANGED uvars
      BY <2>11 DEF uvars, UserInv, UserTypeOK, CopiesRight, MaySave, Saveable,
                   CacheRight, CacheSingle, Chained
    <2> QED
      BY <2>1, <2>2, <2>3, <2>4, <2>5, <2>6, <2>7, <2>8, <2>9, <2>10, <2>11 DEF UserNext
  <1> QED
    BY <1>1, <1>2, PTL DEF UserSpec

(* Every record is reached by its chain exactly once, no callsign has two, *)
(* and what the cache answers is the record of the file.                   *)
(* (loaduser, saveuser, reorguser)                                         *)
THEOREM UsersFoundHold == UserSpec => []UsersFound
  <1>1. UserInv => UsersFound
    <2> SUFFICES ASSUME UserInv PROVE UsersFound
      OBVIOUS
    <2>1. Chained(userFile, chain)
      BY DEF UserInv
    <2>2. \A p \in DOMAIN userFile : Found(userFile, chain, userFile[p].call) = p
      BY <2>1, FoundChained
    <2>3. Len(Walk(userFile, chain)) = Len(userFile)
      BY <2>1, WalkDown
    <2> QED
      BY <2>2, <2>3 DEF UserInv, CacheRight, RecordOf, UsersFound
  <1> QED
    BY <1>1, UserInvariant, PTL

-----------------------------------------------------------------------------
(* The file transfer.                                                      *)

Parts == {r \in [offset : Nat, len : Nat] : r.offset + r.len <= FileLen}
Listed(i, req) ==
    \E c \in 1 .. Len(req) : req[c].offset < i /\ i <= req[c].offset + req[c].len

BlockAt(o, n) == [type |-> "DATA", offset |-> o, data |-> Data(o, n)]
Blocks == {BlockAt(r.offset, r.len) : r \in {r \in Parts : r.len >= 1}}
EndOf(f) == f.offset + Len(f.data)
Fin == [type |-> "FIN"]

(* Blocks under way, and FIN behind them when fin is TRUE.                  *)
BlocksIn(q, fin) ==
    /\ q \in Seq(Blocks \cup {Fin})
    /\ \A k \in 1 .. Len(q) : q[k] = Fin => fin /\ k = Len(q)
(* None begins before lo or before the end of one sent earlier.             *)
Ascending(q, lo) ==
    \A k \in 1 .. Len(q) : q[k] # Fin =>
        lo <= q[k].offset /\ \A j \in 1 .. k - 1 : EndOf(q[j]) <= q[k].offset
Before(q, o) == \A k \in 1 .. Len(q) : EndOf(q[k]) <= o

(* Where both programs are, and what is under way between them then.       *)
Idle == txState = "off" /\ rxState = "off" /\ toTx = <<>> /\ toRx = <<>>
Offering ==
    /\ txState = "start" /\ rxState = "info" /\ toTx = <<>>
    /\ toRx \in {<<>>, <<[type |-> "INFO", size |-> FileLen]>>}
Resuming ==
    /\ txState = "start" /\ rxState = "data" /\ toRx = <<>>
    /\ toTx \in {<<>>, <<[type |-> "START", offset |-> rxPos]>>}
Rest(o) == <<Part(o, FileLen - o)>>
Streaming ==
    /\ txState = "send" /\ rxState = "data" /\ toTx = <<>>
    /\ BlocksIn(toRx, FALSE) /\ Ascending(toRx, rxPos)
    /\ todo = <<>> \/ \E o \in rxPos .. FileLen : todo = Rest(o) /\ Before(toRx, o)
Streamed ==
    /\ txState = "wait" /\ rxState = "data" /\ toTx = <<>>
    /\ BlocksIn(toRx, TRUE) /\ Ascending(toRx, rxPos)
Replying ==
    /\ txState = "wait" /\ rxState \in {"req", "done"} /\ toRx = <<>>
    /\ toTx \in {<<>>, <<IF rxState = "done" THEN [type |-> "FINACK"]
                         ELSE [type |-> "REQ", parts |-> rxReq]>>}
Resending ==
    /\ txState = "send" /\ rxState = "req" /\ toTx = <<>>
    /\ BlocksIn(toRx, FALSE) /\ todo \in Seq(Parts)
Resent == txState = "wait" /\ rxState = "req" /\ toTx = <<>> /\ BlocksIn(toRx, TRUE)
Finished == txState = "done" /\ rxState = "done" /\ toTx = <<>> /\ toRx = <<>>

Phase ==
    \/ Idle \/ Offering \/ Resuming \/ Streaming \/ Streamed
    \/ Replying \/ Resending \/ Resent \/ Finished

(* The list on disk is that in memory and has every byte that is wrong; a   *)
(* transfer that has seen FIN has all of the file's length.                *)
FileInv ==
    /\ disk \in Seq(Int) /\ rxPos = Len(disk) /\ rxPos <= FileLen
    /\ rFile \in Seq(Parts) /\ exists \in BOOLEAN
    /\ rxSize \in 0 .. FileLen
    /\ \A i \in 1 .. Len(disk) : disk[i] # i - 1 => Listed(i, rFile)
    /\ rxState \in {"data", "req", "done"} => rxReq = rFile
    /\ rxState = "done" => rxReq = <<>>
    /\ rxState \in {"req", "done"} => rxSize <= rxPos

TransferInv == Phase /\ FileInv

LEMMA DataIs ==
    ASSUME NEW o \in Nat, NEW n \in Nat
    PROVE  Data(o, n) \in Seq(Nat) /\ Len(Data(o, n)) = n /\ \A i \in 1 .. n : Data(o, n)[i] = o + i - 1
  <1>1. \A i \in 1 .. n : o + i - 1 \in Nat
    OBVIOUS
  <1> QED
    BY <1>1 DEF Data

LEMMA BlockIs ==
    ASSUME NEW f \in Blocks
    PROVE  /\ f.type = "DATA" /\ f.offset \in Nat /\ Len(f.data) \in Nat /\ Len(f.data) >= 1
           /\ f.offset + Len(f.data) <= FileLen /\ f.data = Data(f.offset, Len(f.data))
           /\ EndOf(f) = f.offset + Len(f.data) /\ f # Fin
  <1>1. PICK r \in Parts : r.len >= 1 /\ f = BlockAt(r.offset, r.len)
    BY DEF Blocks
  <1>2. f.type = "DATA" /\ f.offset = r.offset /\ f.data = Data(r.offset, r.len) /\ f # Fin
    BY <1>1 DEF BlockAt, Fin
  <1>3. r.offset \in Nat /\ r.len \in Nat /\ r.offset + r.len <= FileLen
    BY DEF Parts
  <1>4. Len(f.data) = r.len
    <2>1. Len(Data(r.offset, r.len)) = r.len
      BY <1>3, DataIs
    <2> QED
      BY <1>2, <2>1
  <1> QED
    BY <1>1, <1>2, <1>3, <1>4 DEF EndOf

LEMMA BlockOf ==
    ASSUME NEW o \in Nat, NEW n \in Nat, n >= 1, o + n <= FileLen
    PROVE  [type |-> "DATA", offset |-> o, data |-> Data(o, n)] \in Blocks
  <1>1. Part(o, n) \in Parts /\ Part(o, n).offset = o /\ Part(o, n).len = n
    BY DEF Part, Parts
  <1> QED
    BY <1>1 DEF Blocks, BlockAt

LEMMA Grown ==
    ASSUME NEW d \in Seq(Int), NEW gap \in Nat, NEW n \in Nat
    PROVE  /\ (d \o Stars(gap)) \o Data(Len(d) + gap, n) \in Seq(Int)
           /\ Len((d \o Stars(gap)) \o Data(Len(d) + gap, n)) = Len(d) + gap + n
           /\ \A i \in 1 .. Len(d) + gap + n :
                 ((d \o Stars(gap)) \o Data(Len(d) + gap, n))[i]
                    = IF i <= Len(d) THEN d[i] ELSE IF i <= Len(d) + gap THEN Star ELSE i - 1
           /\ d \o Stars(gap) \in Seq(Int) /\ Len(d \o Stars(gap)) = Len(d) + gap
           /\ \A i \in 1 .. Len(d) + gap :
                 (d \o Stars(gap))[i] = IF i <= Len(d) THEN d[i] ELSE Star
  <1> DEFINE s == Stars(gap)
             e == d \o s
             l == Len(d)
             o == l + gap
             x == Data(o, n)
  <1>1. s \in Seq(Int) /\ Len(s) = gap /\ \A i \in 1 .. gap : s[i] = Star
    BY DEF Stars, Star
  <1>2. l \in Nat /\ o \in Nat /\ o = l + gap /\ l = Len(d)
    OBVIOUS
  <1>3. x \in Seq(Nat) /\ Len(x) = n /\ \A i \in 1 .. n : x[i] = o + i - 1
    <2> HIDE DEF o
    <2> QED
      BY <1>2, DataIs
  <1> HIDE DEF s, x, o, l
  <1>4. e \in Seq(Int) /\ Len(e) = o /\ \A i \in 1 .. o : e[i] = IF i <= l THEN d[i] ELSE Star
    <2>1. e \in Seq(Int) /\ Len(e) = o
      BY <1>1, <1>2
    <2>2. \A i \in 1 .. l : e[i] = d[i]
      BY <1>1, <1>2
    <2>3. \A i \in l + 1 .. o : e[i] = s[i - l] /\ i - l \in 1 .. gap
      BY <1>1, <1>2
    <2> HIDE DEF e
    <2>4. \A i \in l + 1 .. o : e[i] = Star
      BY <1>1, <2>3
    <2>5. \A i \in 1 .. o : (i <= l => i \in 1 .. l) /\ (~ i <= l => i \in l + 1 .. o)
      BY <1>2
    <2> QED
      BY <2>1, <2>2, <2>4, <2>5
  <1> HIDE DEF e
  <1>5. e \o x \in Seq(Int) /\ Len(e \o x) = o + n
    <2>1. x \in Seq(Int)
      BY <1>3
    <2>2. e \in Seq(Int) /\ Len(e) = o /\ Len(x) = n
      BY <1>3, <1>4
    <2>3. e \o x \in Seq(Int)
      BY <2>1, <2>2
    <2>4. Len(e \o x) = Len(e) + Len(x)
      BY <2>1, <2>2, ConcatProperties
    <2> QED
      BY <2>2, <2>3, <2>4
  <1>6. \A i \in 1 .. o + n :
           (e \o x)[i] = IF i <= l THEN d[i] ELSE IF i <= o THEN Star ELSE i - 1
    <2>0. \A i \in 1 .. o + n : (e \o x)[i] = IF i <= o THEN e[i] ELSE x[i - o]
      <3>1. e \in Seq(Int) /\ x \in Seq(Int) /\ Len(e) = o /\ Len(x) = n
        BY <1>3, <1>4
      <3> QED
        BY <3>1, ConcatProperties
    <2>1. \A i \in 1 .. o : (e \o x)[i] = e[i]
      <3>1. \A i \in 1 .. o : i \in 1 .. o + n /\ i <= o
        BY <1>2
      <3> QED
        BY <2>0, <3>1
    <2>2. \A i \in o + 1 .. o + n : (e \o x)[i] = x[i - o] /\ i - o \in 1 .. n
      <3>1. \A i \in o + 1 .. o + n : i \in 1 .. o + n /\ ~ i <= o /\ i - o \in 1 .. n
        BY <1>2
      <3> QED
        BY <2>0, <3>1
    <2> DEFINE y == e \o x
    <2>3. \A i \in o + 1 .. o + n : y[i] = i - 1
      <3> SUFFICES ASSUME NEW i \in o + 1 .. o + n PROVE y[i] = i - 1
        OBVIOUS
      <3>1. y[i] = x[i - o] /\ i - o \in 1 .. n
        BY <2>2
      <3> HIDE DEF y
      <3>2. x[i - o] = o + (i - o) - 1
        BY <1>3, <3>1
      <3> QED
        BY <1>2, <3>1, <3>2
    <2>4. \A i \in 1 .. o : y[i] = e[i]
      BY <2>1
    <2> HIDE DEF y
    <2>5. \A i \in 1 .. o + n : y[i] = IF i <= l THEN d[i] ELSE IF i <= o THEN Star ELSE i - 1
      <3>1. \A i \in 1 .. o + n : (i <= o => i \in 1 .. o) /\ (~ i <= o => i \in o + 1 .. o + n /\ ~ i <= l)
        BY <1>2
      <3> QED
        BY <1>4, <2>3, <2>4, <3>1
    <2> QED
      BY <2>5 DEF y
  <1> QED
    BY <1>2, <1>4, <1>5, <1>6 DEF e, s, x, o, l

-----------------------------------------------------------------------------
LEMMA QueueTail ==
    ASSUME NEW q, NEW fin \in BOOLEAN, BlocksIn(q, fin), q # <<>>
    PROVE  /\ Head(q) \in Blocks \cup {Fin} /\ BlocksIn(Tail(q), fin)
           /\ Head(q) = Fin => fin /\ Tail(q) = <<>>
           /\ \A lo \in Nat : Ascending(q, lo) /\ Head(q) # Fin =>
                 lo <= Head(q).offset /\ Ascending(Tail(q), EndOf(Head(q)))
           /\ \A o \in Nat : Before(q, o) =>
                 EndOf(Head(q)) <= o /\ Before(Tail(q), o)
  <1> DEFINE t == Tail(q)
  <1>1. /\ q \in Seq(Blocks \cup {Fin}) /\ Len(q) \in Nat /\ Len(q) >= 1 /\ Head(q) = q[1]
        /\ \A k \in 1 .. Len(q) : q[k] = Fin => fin /\ k = Len(q)
    BY DEF BlocksIn
  <1>2. /\ Head(q) \in Blocks \cup {Fin} /\ t \in Seq(Blocks \cup {Fin}) /\ Len(t) = Len(q) - 1
        /\ \A i \in 1 .. Len(t) : t[i] = q[i + 1]
    BY <1>1, HeadTailProperties
  <1>3. Head(q) = Fin => fin /\ Len(q) = 1
    <2>1. 1 \in 1 .. Len(q)
      BY <1>1
    <2> QED
      BY <1>1, <2>1
  <1>4. Len(q) = 1 => t = <<>>
    <2>1. Len(q) = 1 => Len(t) = 0
      BY <1>2
    <2> QED
      BY <1>2, <2>1, EmptySeq
  <1> HIDE DEF t
  <1>5. BlocksIn(t, fin)
    BY <1>1, <1>2 DEF BlocksIn
  <1>6. ASSUME NEW lo \in Nat, Ascending(q, lo), Head(q) # Fin
        PROVE  lo <= Head(q).offset /\ Ascending(t, EndOf(Head(q)))
    <2>1. lo <= Head(q).offset
      BY <1>1, <1>6 DEF Ascending
    <2>2. ASSUME NEW k \in 1 .. Len(t), t[k] # Fin
          PROVE  EndOf(Head(q)) <= t[k].offset /\ \A j \in 1 .. k - 1 : EndOf(t[j]) <= t[k].offset
      <3>1. k + 1 \in 1 .. Len(q) /\ t[k] = q[k + 1]
        BY <1>1, <1>2
      <3>2. \A j \in 1 .. (k + 1) - 1 : EndOf(q[j]) <= q[k + 1].offset
        BY <1>6, <2>2, <3>1 DEF Ascending
      <3>3. \A j \in 1 .. k - 1 : j + 1 \in 1 .. (k + 1) - 1 /\ t[j] = q[j + 1]
        BY <1>1, <1>2
      <3>4. 1 \in 1 .. (k + 1) - 1
        OBVIOUS
      <3> QED
        BY <1>1, <3>1, <3>2, <3>3, <3>4
    <2> QED
      BY <2>1, <2>2 DEF Ascending
  <1>7. ASSUME NEW o \in Nat, Before(q, o)
        PROVE  EndOf(Head(q)) <= o /\ Before(t, o)
    <2>1. \A k \in 1 .. Len(t) : k + 1 \in 1 .. Len(q) /\ t[k] = q[k + 1]
      BY <1>1, <1>2
    <2> QED
      BY <1>1, <1>7, <2>1 DEF Before
  <1> QED
    BY <1>2, <1>3, <1>4, <1>5, <1>6, <1>7 DEF t

LEMMA QueueAppend ==
    ASSUME NEW q, BlocksIn(q, FALSE), NEW f \in Blocks
    PROVE  /\ BlocksIn(Append(q, f), FALSE)
           /\ \A lo \in Nat : Ascending(q, lo) /\ Before(q, f.offset) /\ lo <= f.offset =>
                 Ascending(Append(q, f), lo)
           /\ Before(q, f.offset) => Before(Append(q, f), EndOf(f))
  <1> DEFINE a == Append(q, f)
  <1>1. /\ q \in Seq(Blocks \cup {Fin}) /\ Len(q) \in Nat /\ f # Fin
        /\ \A k \in 1 .. Len(q) : q[k] # Fin /\ q[k] \in Blocks
    <2>1. f # Fin
      BY BlockIs
    <2> QED
      BY <2>1 DEF BlocksIn
  <1>2. /\ a \in Seq(Blocks \cup {Fin}) /\ Len(a) = Len(q) + 1
        /\ \A k \in 1 .. Len(q) : a[k] = q[k]
        /\ a[Len(q) + 1] = f
    BY <1>1, AppendProperties
  <1> HIDE DEF a
  <1>3. \A k \in 1 .. Len(a) : k \in 1 .. Len(q) \/ k = Len(q) + 1
    BY <1>1, <1>2
  <1>4. BlocksIn(a, FALSE)
    BY <1>1, <1>2, <1>3 DEF BlocksIn
  <1>5. ASSUME NEW lo \in Nat, Ascending(q, lo), Before(q, f.offset), lo <= f.offset
        PROVE  Ascending(a, lo)
    <2> SUFFICES ASSUME NEW k \in 1 .. Len(a)
                 PROVE  lo <= a[k].offset /\ \A j \in 1 .. k - 1 : EndOf(a[j]) <= a[k].offset
      BY DEF Ascending
    <2>1. \A j \in 1 .. k - 1 : j \in 1 .. Len(q) /\ a[j] = q[j]
      BY <1>1, <1>2
    <2>2. CASE k \in 1 .. Len(q)
      BY <1>1, <1>2, <1>5, <2>1, <2>2 DEF Ascending
    <2>3. CASE k = Len(q) + 1
      BY <1>1, <1>2, <1>5, <2>1, <2>3 DEF Before
    <2> QED
      BY <1>3, <2>2, <2>3
  <1>6. ASSUME Before(q, f.offset)
        PROVE  Before(a, EndOf(f))
    <2>1. f.offset \in Nat /\ EndOf(f) \in Nat /\ f.offset <= EndOf(f)
      BY BlockIs
    <2>2. \A k \in 1 .. Len(q) : EndOf(q[k]) \in Nat
      BY <1>1, BlockIs
    <2>3. \A k \in 1 .. Len(q) : EndOf(q[k]) <= f.offset
      BY <1>6 DEF Before
    <2>4. \A k \in 1 .. Len(q) : EndOf(q[k]) <= EndOf(f)
      BY <2>1, <2>2, <2>3
    <2> QED
      BY <1>1, <1>2, <1>3, <2>1, <2>4 DEF Before
  <1> QED
    BY <1>4, <1>5, <1>6 DEF a

LEMMA QueueEnded ==
    ASSUME NEW q, BlocksIn(q, FALSE)
    PROVE  /\ BlocksIn(q, TRUE) /\ BlocksIn(Append(q, Fin), TRUE)
           /\ \A lo \in Nat : Ascending(q, lo) => Ascending(Append(q, Fin), lo)
  <1> DEFINE a == Append(q, Fin)
  <1>1. q \in Seq(Blocks \cup {Fin}) /\ Len(q) \in Nat /\ \A k \in 1 .. Len(q) : q[k] # Fin
    BY DEF BlocksIn
  <1>2. /\ a \in Seq(Blocks \cup {Fin}) /\ Len(a) = Len(q) + 1
        /\ \A k \in 1 .. Len(q) : a[k] = q[k]
        /\ a[Len(q) + 1] = Fin
    BY <1>1, AppendProperties
  <1> HIDE DEF a
  <1>3. \A k \in 1 .. Len(a) : k \in 1 .. Len(q) \/ k = Len(q) + 1
    BY <1>1, <1>2
  <1>4. BlocksIn(a, TRUE) /\ BlocksIn(q, TRUE)
    BY <1>1, <1>2, <1>3 DEF BlocksIn
  <1>5. ASSUME NEW lo \in Nat, Ascending(q, lo)
        PROVE  Ascending(a, lo)
    <2> SUFFICES ASSUME NEW k \in 1 .. Len(a), a[k] # Fin
                 PROVE  lo <= a[k].offset /\ \A j \in 1 .. k - 1 : EndOf(a[j]) <= a[k].offset
      BY DEF Ascending
    <2>1. k \in 1 .. Len(q)
      BY <1>2, <1>3
    <2>2. \A j \in 1 .. k - 1 : j \in 1 .. Len(q) /\ a[j] = q[j]
      BY <1>1, <1>2, <2>1
    <2> QED
      BY <1>1, <1>2, <1>5, <2>1, <2>2 DEF Ascending
  <1> QED
    BY <1>4, <1>5 DEF a

LEMMA QueueEmpty ==
    /\ \A fin \in BOOLEAN : BlocksIn(<<>>, fin)
    /\ \A lo \in Nat : Ascending(<<>>, lo) /\ Before(<<>>, lo)
  <1>1. <<>> \in Seq(Blocks \cup {Fin}) /\ \A k \in 1 .. Len(<<>>) : FALSE
    OBVIOUS
  <1> QED
    BY <1>1 DEF BlocksIn, Ascending, Before

LEMMA NotedLists ==
    ASSUME NEW req \in Seq(Parts), NEW gap \in Nat, rxPos \in Nat, rxPos + gap <= FileLen
    PROVE  /\ Noted(req, gap) \in Seq(Parts)
           /\ gap = 0 => Noted(req, gap) = req
           /\ \A i \in Nat : Listed(i, req) \/ (rxPos < i /\ i <= rxPos + gap) => Listed(i, Noted(req, gap))
  <1>1. CASE gap = 0
    <2>1. Noted(req, gap) = req
      BY <1>1 DEF Noted
    <2> QED
      BY <1>1, <2>1
  <1>2. CASE gap > 0
    <2> DEFINE p == Part(rxPos, gap)
               a == Append(req, p)
    <2>1. p \in Parts /\ p.offset = rxPos /\ p.len = gap
      BY DEF Part, Parts
    <2>2. Noted(req, gap) = a
      BY <1>2 DEF Noted
    <2> HIDE DEF p
    <2>3. /\ a \in Seq(Parts) /\ Len(a) = Len(req) + 1 /\ Len(req) \in Nat
          /\ \A k \in 1 .. Len(req) : a[k] = req[k] /\ k \in 1 .. Len(req) + 1
          /\ a[Len(req) + 1] = p
      BY <2>1, AppendProperties
    <2> HIDE DEF a
    <2>4. \A i \in Nat : Listed(i, req) => Listed(i, a)
      BY <2>3 DEF Listed
    <2>5. \A i \in Nat : rxPos < i /\ i <= rxPos + gap => Listed(i, a)
      <3>1. Len(req) + 1 \in 1 .. Len(a)
        BY <2>3
      <3> QED
        BY <2>1, <2>3, <3>1 DEF Listed
    <2> QED
      BY <1>2, <2>2, <2>3, <2>4, <2>5
  <1> QED
    BY <1>1, <1>2

LEMMA ShortenedLists ==
    ASSUME NEW req \in Seq(Parts), NEW o \in Nat, NEW l \in Nat, l >= 1, NEW c \in Places(req, o, l)
    PROVE  /\ Shortened(req, c, o, l) \in Seq(Parts)
           /\ \A i \in Nat : Listed(i, req) /\ ~ (o < i /\ i <= o + l) => Listed(i, Shortened(req, c, o, l))
  <1> DEFINE r == req[c]
             n == Len(req)
             rest == Part(o + l, r.offset + r.len - (o + l))
  <1>1. c \in 1 .. n /\ n \in Nat /\ o >= r.offset /\ o + l <= r.offset + r.len
    BY DEF Places
  <1>2. r \in Parts /\ r.offset \in Nat /\ r.len \in Nat /\ r.offset + r.len <= FileLen
        /\ r = [offset |-> r.offset, len |-> r.len]
    <2>1. r \in Parts
      BY <1>1
    <2> QED
      BY <2>1 DEF Parts
  <1>3. rest \in Parts /\ rest.offset = o + l /\ rest.len = r.offset + r.len - (o + l)
    <2>1. o + l \in Nat /\ r.offset + r.len - (o + l) \in Nat
      BY <1>1, <1>2
    <2>2. (o + l) + (r.offset + r.len - (o + l)) <= FileLen
      BY <1>1, <1>2, DidaditAssumption
    <2> QED
      BY <2>1, <2>2 DEF Part, Parts
  <1>4. CASE r.offset = o /\ r.len = l
    <2> DEFINE less == SubSeq(req, 1, n - 1)
               new == IF c = n THEN less ELSE [less EXCEPT ![c] = req[n]]
    <2>1. Shortened(req, c, o, l) = new
      BY <1>4 DEF Shortened
    <2>2. less \in Seq(Parts) /\ Len(less) = n - 1 /\ \A k \in 1 .. n - 1 : less[k] = req[k]
      <3>1. 1 \in 1 .. n + 1 /\ n - 1 \in 1 - 1 .. n
        BY <1>1
      <3>2. /\ less \in Seq(Parts)
            /\ Len(less) = IF 1 <= n - 1 THEN (n - 1) - 1 + 1 ELSE 0
            /\ \A k \in 1 .. (n - 1) - 1 + 1 : less[k] = req[1 + k - 1]
        BY <3>1, SubSeqProperties
      <3> HIDE DEF less
      <3>3. \A k \in 1 .. n - 1 : k \in 1 .. (n - 1) - 1 + 1 /\ 1 + k - 1 = k
        BY <1>1
      <3>4. Len(less) = n - 1
        <4>1. n \in Nat /\ n >= 1
          BY <1>1
        <4> HIDE DEF n
        <4>2. (IF 1 <= n - 1 THEN (n - 1) - 1 + 1 ELSE 0) = n - 1
          BY <4>1
        <4> QED
          BY <3>2, <4>2
      <3>5. \A k \in 1 .. n - 1 : less[k] = req[1 + k - 1]
        BY <3>2, <3>3
      <3>6. \A k \in 1 .. n - 1 : less[k] = req[k]
        BY <3>3, <3>5
      <3> QED
        BY <3>2, <3>4, <3>6
    <2> HIDE DEF less
    <2>3. /\ new \in Seq(Parts) /\ Len(new) = n - 1
          /\ \A k \in 1 .. n - 1 : new[k] = IF k = c THEN req[n] ELSE req[k]
      <3>1. CASE c = n
        BY <1>1, <2>2, <3>1
      <3>2. CASE c # n
        <4>1. c \in 1 .. n - 1 /\ req[n] \in Parts
          BY <1>1, <3>2
        <4>2. new = [less EXCEPT ![c] = req[n]]
          BY <3>2
        <4> QED
          BY <2>2, <4>1, <4>2
      <3> QED
        BY <3>1, <3>2
    <2> HIDE DEF new
    <2>4. ASSUME NEW i \in Nat, Listed(i, req), ~ (o < i /\ i <= o + l)
          PROVE  Listed(i, new)
      <3>1. PICK k \in 1 .. n : req[k].offset < i /\ i <= req[k].offset + req[k].len
        BY <2>4 DEF Listed
      <3>2. k # c
        BY <1>4, <2>4, <3>1
      <3>3. CASE k = n
        <4>1. c \in 1 .. n - 1 /\ new[c] = req[k]
          BY <1>1, <2>3, <3>2, <3>3
        <4> QED
          BY <2>3, <3>1, <4>1 DEF Listed
      <3>4. CASE k # n
        <4>1. k \in 1 .. n - 1 /\ new[k] = req[k]
          BY <1>1, <2>3, <3>2, <3>4
        <4> QED
          BY <2>3, <3>1, <4>1 DEF Listed
      <3> QED
        BY <3>3, <3>4
    <2> QED
      BY <2>1, <2>3, <2>4
  <1>5. CASE r.offset = o /\ r.len # l
    <2> DEFINE new == [req EXCEPT ![c] = rest]
    <2>1. Shortened(req, c, o, l) = new
      BY <1>5 DEF Shortened
    <2> HIDE DEF rest
    <2>2. /\ new \in Seq(Parts) /\ Len(new) = n /\ new[c] = rest
          /\ \A k \in 1 .. n : k # c => new[k] = req[k]
      BY <1>1, <1>3
    <2> HIDE DEF new
    <2>3. ASSUME NEW i \in Nat, Listed(i, req), ~ (o < i /\ i <= o + l)
          PROVE  Listed(i, new)
      <3>1. PICK k \in 1 .. n : req[k].offset < i /\ i <= req[k].offset + req[k].len
        BY <2>3 DEF Listed
      <3>2. CASE k = c
        <4>1. rest.offset < i /\ i <= rest.offset + rest.len
          BY <1>2, <1>3, <1>5, <2>3, <3>1, <3>2
        <4> QED
          BY <1>1, <2>2, <4>1 DEF Listed
      <3>3. CASE k # c
        BY <2>2, <3>1, <3>3 DEF Listed
      <3> QED
        BY <3>2, <3>3
    <2> QED
      BY <2>1, <2>2, <2>3
  <1>6. CASE r.offset # o /\ rest.len = 0
    <2> DEFINE cut == [r EXCEPT !.len = r.len - l]
               new == [req EXCEPT ![c] = cut]
    <2>1. Shortened(req, c, o, l) = new
      BY <1>6 DEF Shortened
    <2>2. cut \in Parts /\ cut.offset = r.offset /\ cut.len = r.len - l
      <3>1. r.len - l \in Nat /\ r.offset + (r.len - l) <= FileLen
        BY <1>1, <1>2, DidaditAssumption
      <3>2. cut = [offset |-> r.offset, len |-> r.len - l]
        BY <1>2
      <3> QED
        BY <1>2, <3>1, <3>2 DEF Parts
    <2> HIDE DEF cut
    <2>3. /\ new \in Seq(Parts) /\ Len(new) = n /\ new[c] = cut
          /\ \A k \in 1 .. n : k # c => new[k] = req[k]
      BY <1>1, <2>2
    <2> HIDE DEF new
    <2>4. ASSUME NEW i \in Nat, Listed(i, req), ~ (o < i /\ i <= o + l)
          PROVE  Listed(i, new)
      <3>1. PICK k \in 1 .. n : req[k].offset < i /\ i <= req[k].offset + req[k].len
        BY <2>4 DEF Listed
      <3>2. CASE k = c
        <4>1. cut.offset < i /\ i <= cut.offset + cut.len
          BY <1>1, <1>2, <1>3, <1>6, <2>2, <2>4, <3>1, <3>2
        <4> QED
          BY <1>1, <2>3, <4>1 DEF Listed
      <3>3. CASE k # c
        BY <2>3, <3>1, <3>3 DEF Listed
      <3> QED
        BY <3>2, <3>3
    <2> QED
      BY <2>1, <2>3, <2>4
  <1>7. CASE r.offset # o /\ rest.len # 0
    <2> DEFINE cut == [r EXCEPT !.len = o - r.offset]
               mid == [req EXCEPT ![c] = cut]
               new == Append(mid, rest)
    <2>1. Shortened(req, c, o, l) = new
      BY <1>7 DEF Shortened
    <2>2. cut \in Parts /\ cut.offset = r.offset /\ cut.len = o - r.offset
      <3>1. o - r.offset \in Nat /\ r.offset + (o - r.offset) <= FileLen
        BY <1>1, <1>2, DidaditAssumption
      <3>2. cut = [offset |-> r.offset, len |-> o - r.offset]
        BY <1>2
      <3> QED
        BY <1>2, <3>1, <3>2 DEF Parts
    <2> HIDE DEF cut, rest
    <2>3. /\ mid \in Seq(Parts) /\ Len(mid) = n /\ mid[c] = cut
          /\ \A k \in 1 .. n : k # c => mid[k] = req[k]
      BY <1>1, <2>2
    <2> HIDE DEF mid
    <2>4. /\ new \in Seq(Parts) /\ Len(new) = n + 1 /\ new[n + 1] = rest
          /\ \A k \in 1 .. n : new[k] = mid[k] /\ k \in 1 .. n + 1
      BY <1>1, <1>3, <2>3, AppendProperties
    <2> HIDE DEF new
    <2>5. ASSUME NEW i \in Nat, Listed(i, req), ~ (o < i /\ i <= o + l)
          PROVE  Listed(i, new)
      <3>1. PICK k \in 1 .. n : req[k].offset < i /\ i <= req[k].offset + req[k].len
        BY <2>5 DEF Listed
      <3>2. CASE k = c
        <4>1. \/ cut.offset < i /\ i <= cut.offset + cut.len
              \/ rest.offset < i /\ i <= rest.offset + rest.len
          BY <1>1, <1>2, <1>3, <2>2, <2>5, <3>1, <3>2
        <4>2. n + 1 \in 1 .. n + 1
          BY <1>1
        <4> QED
          BY <1>1, <2>3, <2>4, <4>1, <4>2 DEF Listed
      <3>3. CASE k # c
        BY <2>3, <2>4, <3>1, <3>3 DEF Listed
      <3> QED
        BY <3>2, <3>3
    <2> QED
      BY <2>1, <2>4, <2>5
  <1> QED
    BY <1>4, <1>5, <1>6, <1>7

-----------------------------------------------------------------------------
LEMMA Queued ==
    ASSUME NEW f, Transmit(toRx, f)
    PROVE  toRx' = toRx \/ toRx' = Append(toRx, f)
  BY DEF Transmit

LEMMA OfferStep ==
    ASSUME TransferInv, Offer
    PROVE  TransferInv'
  <1>1. toRx = <<>> /\ toTx = <<>>
    BY DEF TransferInv, Phase, Idle, Offering, Resuming, Streaming, Streamed, Replying, Resending,
           Resent, Finished, Offer
  <1>2. toRx' \in {<<>>, <<[type |-> "INFO", size |-> FileLen]>>}
    BY <1>1 DEF Offer, Transmit
  <1>3. Offering'
    BY <1>1, <1>2 DEF Offer, Offering
  <1>4. FileInv'
    BY DEF TransferInv, FileInv, Offer, Listed
  <1> QED
    BY <1>3, <1>4 DEF TransferInv, Phase

LEMMA ResumeStep ==
    ASSUME TransferInv, Resume
    PROVE  TransferInv'
  <1>1. Offering /\ toRx = <<[type |-> "INFO", size |-> FileLen]>>
    BY DEF TransferInv, Phase, Idle, Offering, Resuming, Streaming, Streamed, Replying, Resending,
           Resent, Finished, Resume
  <1>2. toRx' = <<>> /\ Head(toRx).size = FileLen
    BY <1>1 DEF Resume
  <1>3. Resuming'
    BY <1>1, <1>2 DEF Resume, Transmit, Offering, Resuming
  <1>4. FileInv'
    BY <1>2, DidaditAssumption DEF TransferInv, FileInv, Resume, Listed
  <1> QED
    BY <1>3, <1>4 DEF TransferInv, Phase

LEMMA StartStep ==
    ASSUME TransferInv, StartSending
    PROVE  TransferInv'
  <1>1. Resuming /\ toTx = <<[type |-> "START", offset |-> rxPos]>>
    BY DEF TransferInv, Phase, Idle, Offering, Resuming, Streaming, Streamed, Replying, Resending,
           Resent, Finished, StartSending
  <1>2. toTx' = <<>> /\ todo' = Rest(rxPos) /\ rxPos' = rxPos /\ toRx' = <<>>
    BY <1>1 DEF StartSending, Rest, Resuming
  <1>3. rxPos \in Nat /\ rxPos \in rxPos .. FileLen
    BY DidaditAssumption DEF TransferInv, FileInv
  <1>4. BlocksIn(toRx', FALSE) /\ Ascending(toRx', rxPos) /\ Before(toRx', rxPos)
    BY <1>2, <1>3, QueueEmpty
  <1>5. Streaming'
    BY <1>1, <1>2, <1>3, <1>4 DEF StartSending, Streaming, Resuming, Rest
  <1>6. FileInv'
    BY DEF TransferInv, FileInv, StartSending, Listed
  <1> QED
    BY <1>5, <1>6 DEF TransferInv, Phase

LEMMA FinStep ==
    ASSUME TransferInv, SendFin
    PROVE  TransferInv'
  <1>1. Streaming \/ Resending
    BY DEF TransferInv, Phase, Idle, Offering, Resuming, Streaming, Streamed, Replying, Resending,
           Resent, Finished, SendFin
  <1>2. BlocksIn(toRx, FALSE) /\ (toRx' = toRx \/ toRx' = Append(toRx, Fin))
    BY <1>1, Queued DEF SendFin, Fin, Streaming, Resending
  <1>3. BlocksIn(toRx', TRUE)
    BY <1>2, QueueEnded
  <1>4. FileInv'
    BY DEF TransferInv, FileInv, SendFin, Listed
  <1>5. CASE Streaming
    <2>1. Ascending(toRx', rxPos)
      <3>1. rxPos \in Nat /\ Ascending(toRx, rxPos)
        BY <1>5 DEF Streaming, TransferInv, FileInv
      <3> QED
        BY <1>2, <3>1, QueueEnded
    <2>2. rxPos' = rxPos
      BY DEF SendFin
    <2>3. Streamed'
      BY <1>3, <1>5, <2>1, <2>2 DEF Streaming, Streamed, SendFin
    <2> QED
      BY <1>4, <2>3 DEF TransferInv, Phase
  <1>6. CASE Resending
    <2>1. Resent'
      BY <1>3, <1>6 DEF Resending, Resent, SendFin
    <2> QED
      BY <1>4, <2>1 DEF TransferInv, Phase
  <1> QED
    BY <1>1, <1>5, <1>6

LEMMA AnsweredStep ==
    ASSUME TransferInv, Answered
    PROVE  TransferInv'
  <1>1. /\ Replying /\ toTx # <<>>
        /\ toTx = <<IF rxState = "done" THEN [type |-> "FINACK"] ELSE [type |-> "REQ", parts |-> rxReq]>>
    BY DEF TransferInv, Phase, Idle, Offering, Resuming, Streaming, Streamed, Replying, Resending,
           Resent, Finished, Answered
  <1>2. toTx' = <<>> /\ toRx' = <<>> /\ rxState' = rxState
    BY <1>1 DEF Answered, Replying
  <1>3. FileInv'
    BY DEF TransferInv, FileInv, Answered, Listed
  <1>4. CASE rxState = "done"
    <2>1. Finished'
      BY <1>1, <1>2, <1>4 DEF Answered, Finished
    <2> QED
      BY <1>3, <2>1 DEF TransferInv, Phase
  <1>5. CASE rxState = "req"
    <2>1. todo' = rxReq /\ txState' = "send"
      BY <1>1, <1>5 DEF Answered
    <2>2. rxReq \in Seq(Parts)
      BY <1>5 DEF TransferInv, FileInv
    <2>3. Resending'
      BY <1>2, <1>5, <2>1, <2>2, QueueEmpty DEF Resending
    <2> QED
      BY <1>3, <2>3 DEF TransferInv, Phase
  <1> QED
    BY <1>1, <1>4, <1>5 DEF Replying

LEMMA BreakStep ==
    ASSUME TransferInv, BreakOff
    PROVE  TransferInv'
  <1>1. Idle'
    BY DEF BreakOff, Idle
  <1>2. FileInv'
    BY DEF TransferInv, FileInv, BreakOff, Listed
  <1> QED
    BY <1>1, <1>2 DEF TransferInv, Phase

LEMMA BlockStep ==
    ASSUME TransferInv, SendBlock
    PROVE  TransferInv'
  <1> DEFINE part == Head(todo)
             n == IF part.len < BlockLen THEN part.len ELSE BlockLen
             f == [type |-> "DATA", offset |-> part.offset, data |-> Data(part.offset, n)]
             rest == Part(part.offset + n, part.len - n)
  <1>1. Streaming \/ Resending
    BY DEF TransferInv, Phase, Idle, Offering, Resuming, Streaming, Streamed, Replying, Resending,
           Resent, Finished, SendBlock
  <1>2. /\ todo # <<>> /\ txState = "send" /\ txState' = "send" /\ rxState' = rxState
        /\ toTx' = toTx /\ rxPos' = rxPos
        /\ n = 0 => toRx' = toRx
        /\ n # 0 => toRx' = toRx \/ toRx' = Append(toRx, f)
        /\ todo' = IF n = part.len THEN Tail(todo) ELSE <<rest>> \o Tail(todo)
    BY DEF SendBlock, Transmit
  <1>3. FileInv'
    BY DEF TransferInv, FileInv, SendBlock, Listed
  <1>4. part \in Parts
    <2>1. CASE Streaming
      <3>1. PICK o \in rxPos .. FileLen : todo = Rest(o)
        BY <1>2, <2>1 DEF Streaming
      <3>2. part = Part(o, FileLen - o)
        BY <3>1 DEF Rest
      <3>3. o \in Nat /\ FileLen - o \in Nat /\ o + (FileLen - o) <= FileLen
        BY <3>1, DidaditAssumption DEF TransferInv, FileInv
      <3> HIDE DEF part
      <3> QED
        BY <3>2, <3>3 DEF Part, Parts
    <2>2. CASE Resending
      BY <1>2, <2>2 DEF Resending
    <2> QED
      BY <1>1, <2>1, <2>2
  <1>5. /\ part.offset \in Nat /\ part.len \in Nat /\ part.offset + part.len <= FileLen
        /\ n \in Nat /\ n <= part.len /\ (n # 0 => n >= 1) /\ (n # part.len => n < part.len)
    BY <1>4, DidaditAssumption DEF Parts
  <1> HIDE DEF n, part
  <1>6. n # 0 => f \in Blocks /\ f.offset = part.offset /\ EndOf(f) = part.offset + n
    <2>1. ASSUME n # 0
          PROVE  f \in Blocks /\ f.offset = part.offset /\ EndOf(f) = part.offset + n
      <3>1. part.offset + n <= FileLen
        BY <1>5, DidaditAssumption
      <3>2. f \in Blocks
        BY <1>5, <2>1, <3>1, BlockOf
      <3>3. Len(Data(part.offset, n)) = n
        BY <1>5, DataIs
      <3> QED
        BY <3>2, <3>3 DEF EndOf
    <2> QED
      BY <2>1
  <1>7. rest \in Parts /\ rest = Part(part.offset + n, part.len - n)
    <2>1. part.offset + n \in Nat /\ part.len - n \in Nat /\ (part.offset + n) + (part.len - n) <= FileLen
      BY <1>5, DidaditAssumption
    <2> QED
      BY <2>1 DEF Part, Parts
  <1> HIDE DEF f, rest
  <1>8. CASE Streaming
    <2>1. PICK o \in rxPos .. FileLen : todo = Rest(o) /\ Before(toRx, o)
      BY <1>2, <1>8 DEF Streaming
    <2>2. part = Part(o, FileLen - o) /\ Tail(todo) = <<>>
      BY <2>1 DEF Rest, part
    <2>3. part.offset = o /\ part.len = FileLen - o
      BY <2>2 DEF Part
    <2>4. rxPos \in Nat /\ rxPos <= o /\ o \in Nat /\ o <= FileLen
      BY <2>1, DidaditAssumption DEF TransferInv, FileInv
    <2>5. BlocksIn(toRx', FALSE) /\ Ascending(toRx', rxPos)
      <3>1. BlocksIn(toRx, FALSE) /\ Ascending(toRx, rxPos)
        BY <1>8 DEF Streaming
      <3>2. CASE toRx' = toRx
        BY <3>1, <3>2
      <3>3. CASE n # 0 /\ toRx' = Append(toRx, f)
        <4>1. f \in Blocks /\ f.offset = o
          BY <1>6, <2>3, <3>3
        <4>2. BlocksIn(Append(toRx, f), FALSE)
          BY <3>1, <4>1, QueueAppend
        <4>3. Before(toRx, f.offset) /\ rxPos <= f.offset
          BY <2>1, <2>4, <4>1
        <4>4. Ascending(Append(toRx, f), rxPos)
          BY <2>4, <3>1, <4>1, <4>3, QueueAppend
        <4> QED
          BY <3>3, <4>2, <4>4
      <3> QED
        BY <1>2, <3>2, <3>3
    <2>6. todo' = <<>> \/ \E u \in rxPos .. FileLen : todo' = Rest(u) /\ Before(toRx', u)
      <3>1. CASE n = part.len
        BY <1>2, <2>2, <3>1
      <3>2. CASE n # part.len
        <4>1. n # 0
          <5>1. n = 0 => part.len = 0
            BY <1>5, DidaditAssumption DEF n
          <5> QED
            BY <3>2, <5>1
        <4>2. part.len - n = FileLen - (o + n) /\ o + n \in rxPos .. FileLen /\ o <= o + n
          BY <1>5, <2>3, <2>4, DidaditAssumption
        <4>3. rest = Part(o + n, FileLen - (o + n))
          BY <1>7, <2>3, <4>2
        <4>4. todo' = Rest(o + n)
          <5>1. todo' = <<rest>> \o <<>>
            BY <1>2, <2>2, <3>2
          <5>2. todo' = <<rest>>
            BY <5>1
          <5> QED
            BY <4>3, <5>2 DEF Rest
        <4>5. Before(toRx', o + n)
          <5>1. f \in Blocks /\ f.offset = o /\ EndOf(f) = o + n /\ BlocksIn(toRx, FALSE)
            BY <1>6, <1>8, <2>3, <4>1 DEF Streaming
          <5>2. CASE toRx' = Append(toRx, f)
            BY <2>1, <5>1, <5>2, QueueAppend
          <5>3. CASE toRx' = toRx
            <6>1. \A k \in 1 .. Len(toRx) : toRx[k] \in Blocks
              BY <5>1 DEF BlocksIn
            <6>2. \A k \in 1 .. Len(toRx) : EndOf(toRx[k]) \in Nat /\ EndOf(toRx[k]) <= o
              BY <2>1, <6>1, BlockIs DEF Before
            <6>3. \A k \in 1 .. Len(toRx) : EndOf(toRx[k]) <= o + n
              BY <1>5, <2>4, <6>2
            <6> QED
              BY <5>3, <6>3 DEF Before
          <5> QED
            BY <1>2, <4>1, <5>2, <5>3
        <4> QED
          BY <4>2, <4>4, <4>5
      <3> QED
        BY <3>1, <3>2
    <2>7. Streaming'
      BY <1>2, <1>8, <2>5, <2>6 DEF Streaming, Rest
    <2> QED
      BY <1>3, <2>7 DEF TransferInv, Phase
  <1>9. CASE Resending
    <2>1. BlocksIn(toRx', FALSE)
      <3>1. BlocksIn(toRx, FALSE)
        BY <1>9 DEF Resending
      <3>2. n # 0 => BlocksIn(Append(toRx, f), FALSE)
        BY <1>6, <3>1, QueueAppend
      <3> QED
        BY <1>2, <3>1, <3>2
    <2>2. todo' \in Seq(Parts)
      <3>1. todo \in Seq(Parts)
        BY <1>9 DEF Resending
      <3>2. Tail(todo) \in Seq(Parts)
        BY <1>2, <3>1, HeadTailProperties
      <3>3. <<rest>> \in Seq(Parts)
        BY <1>7
      <3>4. <<rest>> \o Tail(todo) \in Seq(Parts)
        BY <3>2, <3>3, ConcatProperties
      <3> QED
        BY <1>2, <3>2, <3>4
    <2>3. Resending'
      BY <1>2, <1>9, <2>1, <2>2 DEF Resending
    <2> QED
      BY <1>3, <2>3 DEF TransferInv, Phase
  <1> QED
    BY <1>1, <1>8, <1>9

-----------------------------------------------------------------------------
(* The steps of the receiver: the frame at the head of the queue.          *)
LEMMA AtHead ==
    ASSUME TransferInv, toRx # <<>>, rxState \in {"data", "req"}
    PROVE  /\ Streaming \/ Streamed \/ Resending \/ Resent
           /\ Head(toRx).type = "DATA" => Head(toRx) \in Blocks
           /\ Head(toRx).type = "FIN" =>
                 /\ Tail(toRx) = <<>>
                 /\ (rxState = "data" /\ Streamed) \/ (rxState = "req" /\ Resent)
           /\ BlocksIn(Tail(toRx), TRUE)
           /\ Streaming \/ Resending => BlocksIn(Tail(toRx), FALSE)
  <1>1. Streaming \/ Streamed \/ Resending \/ Resent
    BY DEF TransferInv, Phase, Idle, Offering, Resuming, Streaming, Streamed, Replying, Resending,
           Resent, Finished
  <1>2. BlocksIn(toRx, TRUE) /\ (Streaming \/ Resending => BlocksIn(toRx, FALSE))
    <2>1. CASE Streaming \/ Resending
      <3>1. BlocksIn(toRx, FALSE)
        BY <2>1 DEF Streaming, Resending
      <3> QED
        BY <3>1, QueueEnded
    <2>2. CASE (Streamed \/ Resent) /\ ~ (Streaming \/ Resending)
      BY <2>2 DEF Streamed, Resent
    <2> QED
      BY <1>1, <2>1, <2>2
  <1>3. /\ Head(toRx) \in Blocks \cup {Fin} /\ BlocksIn(Tail(toRx), TRUE)
        /\ Head(toRx) = Fin => Tail(toRx) = <<>>
    BY <1>2, QueueTail
  <1>4. Streaming \/ Resending => BlocksIn(Tail(toRx), FALSE) /\ Head(toRx) # Fin
    BY <1>2, QueueTail
  <1>5. /\ Head(toRx).type = "DATA" => Head(toRx) \in Blocks
        /\ Head(toRx).type = "FIN" => Head(toRx) = Fin
    <2>1. \A f \in Blocks : f.type = "DATA"
      BY BlockIs
    <2> QED
      BY <1>3, <2>1 DEF Fin
  <1> QED
    BY <1>1, <1>3, <1>4, <1>5 DEF Streamed, Resent

LEMMA GrowStep ==
    ASSUME TransferInv, Grow
    PROVE  TransferInv'
  <1> DEFINE f == Head(toRx)
             gap == GapBefore(f)
             n == Len(f.data)
             req == Noted(rxReq, gap)
             new == (disk \o Stars(gap)) \o Data(Len(disk) + gap, n)
  <1>1. rxState = "data" /\ toRx # <<>> /\ f.type = "DATA"
    BY DEF Grow
  <1>2. f \in Blocks /\ (Streaming \/ Streamed)
    BY <1>1, AtHead DEF Resending, Resent
  <1>3. /\ f.offset \in Nat /\ n \in Nat /\ n >= 1 /\ f.offset + n <= FileLen
        /\ f.data = Data(f.offset, n) /\ EndOf(f) = f.offset + n /\ f # Fin
    BY <1>2, BlockIs
  <1>4. /\ disk \in Seq(Int) /\ rxPos = Len(disk) /\ rxPos \in Nat /\ rxSize \in 0 .. FileLen
        /\ rFile \in Seq(Parts) /\ rxReq = rFile /\ exists \in BOOLEAN
        /\ \A i \in 1 .. Len(disk) : disk[i] # i - 1 => Listed(i, rFile)
    BY <1>1 DEF TransferInv, FileInv
  <1>5. Ascending(toRx, rxPos) /\ BlocksIn(toRx, TRUE)
    <2>1. Streaming => BlocksIn(toRx, TRUE)
      BY QueueEnded DEF Streaming
    <2> QED
      BY <1>2, <2>1 DEF Streaming, Streamed
  <1>6. rxPos <= f.offset /\ Ascending(Tail(toRx), EndOf(f))
    BY <1>1, <1>3, <1>4, <1>5, QueueTail
  <1>7. gap \in Nat /\ rxPos + gap = f.offset
    <2>1. OffsetOf(f) = f.offset
      BY <1>1 DEF OffsetOf
    <2>2. f.offset \in Nat /\ rxPos \in Nat /\ rxPos <= f.offset
      BY <1>3, <1>4, <1>6
    <2> HIDE DEF f
    <2>3. gap = IF f.offset > rxPos THEN f.offset - rxPos ELSE 0
      BY <2>1 DEF GapBefore
    <2> HIDE DEF gap
    <2> QED
      BY <2>2, <2>3
  <1>8. /\ rxReq' = req /\ rFile' = (IF gap > 0 THEN rxReq' ELSE rFile)
        /\ disk' = (disk \o Stars(gap)) \o f.data /\ rxPos' = rxPos + gap + n
        /\ toRx' = Tail(toRx)
        /\ UNCHANGED <<exists, rxState, rxSize, txState, todo, toTx>>
    BY DEF Grow
  <1> HIDE DEF f, gap, n
  <1>9. disk' = new /\ rxPos' = EndOf(f)
    BY <1>3, <1>4, <1>7, <1>8
  <1>10. /\ req \in Seq(Parts) /\ (gap = 0 => req = rxReq)
         /\ \A i \in Nat : Listed(i, rxReq) \/ (rxPos < i /\ i <= rxPos + gap) => Listed(i, req)
    <2>1. rxReq \in Seq(Parts) /\ rxPos + gap <= FileLen
      BY <1>3, <1>4, <1>7, DidaditAssumption
    <2> QED
      BY <1>4, <1>7, <2>1, NotedLists
  <1>11. /\ new \in Seq(Int) /\ Len(new) = rxPos + gap + n
         /\ \A i \in 1 .. rxPos + gap + n :
               new[i] = IF i <= rxPos THEN disk[i] ELSE IF i <= rxPos + gap THEN Star ELSE i - 1
    <2>1. Len(disk) = rxPos
      BY <1>4
    <2>2. /\ new \in Seq(Int) /\ Len(new) = Len(disk) + gap + n
          /\ \A i \in 1 .. Len(disk) + gap + n :
                new[i] = IF i <= Len(disk) THEN disk[i] ELSE IF i <= Len(disk) + gap THEN Star ELSE i - 1
      <3>1. disk \in Seq(Int) /\ gap \in Nat /\ n \in Nat
        BY <1>3, <1>4, <1>7
      <3> QED
        BY <3>1, Grown
    <2> QED
      BY <2>1, <2>2
  <1> HIDE DEF new, req
  <1>12. rFile' = req
    BY <1>4, <1>7, <1>8, <1>10
  <1>13. FileInv'
    <2>1. \A i \in 1 .. Len(new) : new[i] # i - 1 => Listed(i, req)
      <3> SUFFICES ASSUME NEW i \in 1 .. Len(new), new[i] # i - 1
                   PROVE  Listed(i, req)
        OBVIOUS
      <3>1. i \in Nat /\ i >= 1 /\ i <= rxPos + gap + n /\ i \in 1 .. rxPos + gap + n
        BY <1>3, <1>4, <1>7, <1>11
      <3>2. new[i] = IF i <= rxPos THEN disk[i] ELSE IF i <= rxPos + gap THEN Star ELSE i - 1
        BY <1>11, <3>1
      <3>3. CASE i <= rxPos
        <4>1. i \in 1 .. Len(disk)
          BY <1>4, <3>1, <3>3
        <4> QED
          BY <1>4, <1>10, <3>1, <3>2, <3>3, <4>1
      <3>4. CASE ~ i <= rxPos
        <4>1. i <= rxPos + gap /\ rxPos < i
          BY <1>4, <3>1, <3>2, <3>4
        <4> QED
          BY <1>10, <3>1, <4>1
      <3> QED
        BY <3>3, <3>4
    <2>2. rxPos' = Len(disk') /\ rxPos' <= FileLen
      BY <1>3, <1>4, <1>7, <1>8, <1>9, <1>11
    <2>3. rxState' = "data" /\ rxSize' = rxSize /\ exists' = exists /\ rxReq' = req
      BY <1>1, <1>8
    <2>4. (\A i \in 1 .. Len(disk) : disk[i] # i - 1 => Listed(i, rFile))'
      BY <1>9, <1>12, <2>1 DEF Listed
    <2> QED
      BY <1>4, <1>9, <1>10, <1>11, <1>12, <2>2, <2>3, <2>4 DEF FileInv
  <1>14. Phase'
    <2>1. EndOf(f) \in Nat
      BY <1>3
    <2>2. CASE Streaming
      <3>1. BlocksIn(toRx', FALSE) /\ Ascending(toRx', rxPos')
        BY <1>1, <1>6, <1>8, <1>9, <2>2, AtHead
      <3>2. todo' = <<>> \/ \E o \in rxPos' .. FileLen : todo' = Rest(o) /\ Before(toRx', o)
        <4>1. CASE todo = <<>>
          BY <1>8, <4>1
        <4>2. ASSUME NEW o \in rxPos .. FileLen, todo = Rest(o), Before(toRx, o)
              PROVE  o \in rxPos' .. FileLen /\ todo' = Rest(o) /\ Before(toRx', o)
          <5>1. o \in Nat /\ o <= FileLen
            BY <1>4, DidaditAssumption
          <5>2. EndOf(f) <= o /\ Before(Tail(toRx), o)
            BY <1>1, <1>5, <4>2, <5>1, QueueTail DEF f
          <5> QED
            BY <1>8, <1>9, <2>1, <4>2, <5>1, <5>2, DidaditAssumption
        <4> QED
          BY <2>2, <4>1, <4>2 DEF Streaming
      <3>3. Streaming'
        BY <1>1, <1>8, <2>2, <3>1, <3>2 DEF Streaming, Rest
      <3> QED
        BY <3>3 DEF Phase
    <2>3. CASE Streamed
      <3>1. BlocksIn(toRx', TRUE) /\ Ascending(toRx', rxPos')
        BY <1>1, <1>6, <1>8, <1>9, AtHead
      <3>2. Streamed'
        BY <1>1, <1>8, <2>3, <3>1 DEF Streamed
      <3> QED
        BY <3>2 DEF Phase
    <2> QED
      BY <1>2, <2>2, <2>3
  <1> QED
    BY <1>13, <1>14 DEF TransferInv

LEMMA ReplyStep ==
    ASSUME rxState' = (IF rxReq' = <<>> THEN "done" ELSE "req"),
           toTx = <<>>, txState' = "wait", toRx' = <<>>,
           Transmit(toTx, IF rxReq' = <<>> THEN [type |-> "FINACK"] ELSE [type |-> "REQ", parts |-> rxReq'])
    PROVE  Phase'
  <1>1. toTx' \in {<<>>, <<IF rxState' = "done" THEN [type |-> "FINACK"] ELSE [type |-> "REQ", parts |-> rxReq']>>}
    BY DEF Transmit
  <1>2. Replying'
    BY <1>1 DEF Replying
  <1> QED
    BY <1>2 DEF Phase

LEMMA FirstFinStep ==
    ASSUME TransferInv, FirstFin
    PROVE  TransferInv'
  <1> DEFINE f == Head(toRx)
             gap == GapBefore(f)
             req == Noted(rxReq, gap)
             new == disk \o Stars(gap)
  <1>1. rxState = "data" /\ toRx # <<>> /\ f.type = "FIN"
    BY DEF FirstFin
  <1>2. Tail(toRx) = <<>> /\ Streamed
    BY <1>1, AtHead
  <1>3. /\ disk \in Seq(Int) /\ rxPos = Len(disk) /\ rxPos \in Nat /\ rxPos <= FileLen
        /\ rxSize \in 0 .. FileLen
        /\ rFile \in Seq(Parts) /\ rxReq = rFile /\ exists \in BOOLEAN
        /\ \A i \in 1 .. Len(disk) : disk[i] # i - 1 => Listed(i, rFile)
    BY <1>1 DEF TransferInv, FileInv
  <1>4. gap \in Nat /\ rxPos + gap <= FileLen /\ rxSize <= rxPos + gap
    <2>1. OffsetOf(f) = rxSize
      BY <1>1 DEF OffsetOf
    <2>2. rxSize \in Nat /\ rxSize <= FileLen /\ FileLen \in Nat
      BY <1>3, DidaditAssumption
    <2> HIDE DEF f
    <2>3. gap = IF rxSize > rxPos THEN rxSize - rxPos ELSE 0
      BY <2>1 DEF GapBefore
    <2> HIDE DEF gap
    <2> QED
      BY <1>3, <2>2, <2>3
  <1>5. /\ rxReq' = req /\ rFile' = (IF gap > 0 THEN rxReq' ELSE rFile)
        /\ disk' = new /\ rxPos' = rxPos + gap /\ toRx' = <<>>
        /\ UNCHANGED <<exists, rxSize, txState>>
        /\ rxState' = (IF rxReq' = <<>> THEN "done" ELSE "req")
        /\ Transmit(toTx, IF rxReq' = <<>> THEN [type |-> "FINACK"] ELSE [type |-> "REQ", parts |-> rxReq'])
    BY <1>2 DEF FirstFin, Reply
  <1> HIDE DEF f, gap
  <1>6. /\ req \in Seq(Parts) /\ (gap = 0 => req = rxReq)
        /\ \A i \in Nat : Listed(i, rxReq) \/ (rxPos < i /\ i <= rxPos + gap) => Listed(i, req)
    BY <1>3, <1>4, NotedLists
  <1>7. /\ new \in Seq(Int) /\ Len(new) = rxPos + gap
        /\ \A i \in 1 .. rxPos + gap : new[i] = IF i <= rxPos THEN disk[i] ELSE Star
    <2>1. 0 \in Nat
      OBVIOUS
    <2> QED
      BY <1>3, <1>4, <2>1, Grown
  <1> HIDE DEF new, req
  <1>8. rFile' = req
    BY <1>3, <1>4, <1>5, <1>6
  <1>9. Phase' /\ (rxState' = IF req = <<>> THEN "done" ELSE "req")
    <2>1. toTx = <<>> /\ txState' = "wait"
      BY <1>2, <1>5 DEF Streamed
    <2> QED
      BY <1>5, <2>1, ReplyStep
  <1>10. FileInv'
    <2>1. \A i \in 1 .. Len(new) : new[i] # i - 1 => Listed(i, req)
      <3> SUFFICES ASSUME NEW i \in 1 .. Len(new), new[i] # i - 1
                   PROVE  Listed(i, req)
        OBVIOUS
      <3>1. i \in Nat /\ i >= 1 /\ i <= rxPos + gap /\ i \in 1 .. rxPos + gap
        BY <1>3, <1>4, <1>7
      <3>2. CASE i <= rxPos
        <4>1. i \in 1 .. Len(disk) /\ disk[i] # i - 1
          BY <1>3, <1>7, <3>1, <3>2
        <4> QED
          BY <1>3, <1>6, <3>1, <4>1
      <3>3. CASE ~ i <= rxPos
        <4>1. rxPos < i
          BY <1>3, <3>1, <3>3
        <4> QED
          BY <1>6, <3>1, <4>1
      <3> QED
        BY <3>2, <3>3
    <2>2. (\A i \in 1 .. Len(disk) : disk[i] # i - 1 => Listed(i, rFile))'
      BY <1>5, <1>8, <2>1 DEF Listed
    <2>3. rxPos' = Len(disk') /\ rxPos' <= FileLen /\ rxSize' <= rxPos'
      BY <1>4, <1>5, <1>7
    <2> QED
      BY <1>3, <1>5, <1>6, <1>7, <1>8, <1>9, <2>2, <2>3 DEF FileInv
  <1> QED
    BY <1>9, <1>10 DEF TransferInv

LEMMA NextFinStep ==
    ASSUME TransferInv, NextFin
    PROVE  TransferInv'
  <1>1. Tail(toRx) = <<>> /\ Resent /\ toRx' = <<>>
    BY AtHead DEF NextFin
  <1>2. Phase' /\ (rxState' = IF rxReq = <<>> THEN "done" ELSE "req")
    <2>1. /\ toTx = <<>> /\ txState' = "wait" /\ rxReq' = rxReq
          /\ rxState' = (IF rxReq = <<>> THEN "done" ELSE "req")
          /\ Transmit(toTx, IF rxReq = <<>> THEN [type |-> "FINACK"] ELSE [type |-> "REQ", parts |-> rxReq])
      BY <1>1 DEF Resent, NextFin, Reply
    <2>2. Transmit(toTx, IF rxReq' = <<>> THEN [type |-> "FINACK"] ELSE [type |-> "REQ", parts |-> rxReq'])
      BY <2>1
    <2> QED
      BY <1>1, <2>1, <2>2, ReplyStep
  <1>3. UNCHANGED <<exists, disk, rFile, rxPos, rxSize, rxReq>> /\ rxState = "req"
    BY DEF NextFin
  <1>4. FileInv'
    BY <1>2, <1>3 DEF TransferInv, FileInv, Listed
  <1> QED
    BY <1>2, <1>4 DEF TransferInv

LEMMA RepairStep ==
    ASSUME TransferInv, Repair, DebugBuild
    PROVE  TransferInv'
  <1> DEFINE f == Head(toRx)
             o == f.offset
             l == Len(f.data)
  <1>1. rxState = "req" /\ toRx # <<>> /\ f.type = "DATA"
    BY DEF Repair
  <1>2. f \in Blocks /\ (Resending \/ Resent)
    BY <1>1, AtHead DEF Streaming, Streamed
  <1>3. /\ o \in Nat /\ l \in Nat /\ l >= 1 /\ o + l <= FileLen /\ f.data = Data(o, l)
        /\ \A i \in 1 .. l : f.data[i] = o + i - 1
    <2>1. o \in Nat /\ l \in Nat /\ l >= 1 /\ o + l <= FileLen /\ f.data = Data(o, l)
      BY <1>2, BlockIs
    <2>2. \A i \in 1 .. l : Data(o, l)[i] = o + i - 1
      BY <2>1, DataIs
    <2> QED
      BY <2>1, <2>2
  <1>4. /\ disk \in Seq(Int) /\ rxPos = Len(disk) /\ rxPos <= FileLen /\ rxSize \in 0 .. FileLen
        /\ rFile \in Seq(Parts) /\ rxReq = rFile /\ exists \in BOOLEAN /\ rxSize <= rxPos
        /\ \A i \in 1 .. Len(disk) : disk[i] # i - 1 => Listed(i, rFile)
    BY <1>1 DEF TransferInv, FileInv
  <1>5. /\ toRx' = Tail(toRx)
        /\ UNCHANGED <<exists, rxState, rxPos, rxSize, txState, todo, toTx>>
        /\ RepairOffset(f) = o
    BY DEF Repair, RepairOffset
  <1>6. Phase'
    <2>1. CASE Resending
      <3>1. Resending'
        BY <1>1, <1>5, <2>1, AtHead DEF Resending
      <3> QED
        BY <3>1 DEF Phase
    <2>2. CASE Resent
      <3>1. Resent'
        BY <1>1, <1>5, <2>2, AtHead DEF Resent
      <3> QED
        BY <3>1 DEF Phase
    <2> QED
      BY <1>2, <2>1, <2>2
  <1>7. CASE Places(rxReq, o, l) = {}
    <2>1. UNCHANGED <<disk, rxReq, rFile>>
      BY <1>5, <1>7 DEF Repair
    <2>2. FileInv'
      BY <1>1, <1>4, <1>5, <2>1 DEF FileInv, Listed
    <2> QED
      BY <1>6, <2>2 DEF TransferInv
  <1>8. CASE Places(rxReq, o, l) # {}
    <2> DEFINE c == CHOOSE c \in Places(rxReq, o, l) : \A d \in Places(rxReq, o, l) : c <= d
               new == [i \in DOMAIN disk |-> IF i > o /\ i <= o + l THEN f.data[i - o] ELSE disk[i]]
               req == Shortened(rxReq, c, o, l)
    <2>1. c \in Places(rxReq, o, l)
      <3>1. Places(rxReq, o, l) \subseteq Nat
        BY <1>4 DEF Places
      <3> QED
        BY <1>8, <3>1, LeastOf
    <2>2. disk' = new /\ rxReq' = req /\ rFile' = req
      BY <1>5, <1>8 DEF Repair
    <2> HIDE DEF c, f
    <2>3. /\ req \in Seq(Parts)
          /\ \A i \in Nat : Listed(i, rxReq) /\ ~ (o < i /\ i <= o + l) => Listed(i, req)
      BY <1>3, <1>4, <2>1, ShortenedLists
    <2>4. /\ new \in Seq(Int) /\ Len(new) = Len(disk)
          /\ \A i \in 1 .. Len(disk) : new[i] = IF i > o /\ i <= o + l THEN i - 1 ELSE disk[i]
      <3> DEFINE v(i) == IF i > o /\ i <= o + l THEN f.data[i - o] ELSE disk[i]
      <3>1. DOMAIN disk = 1 .. Len(disk) /\ Len(disk) \in Nat /\ \A i \in 1 .. Len(disk) : disk[i] \in Int
        BY <1>4
      <3>2. \A i \in 1 .. Len(disk) : v(i) = IF i > o /\ i <= o + l THEN i - 1 ELSE disk[i]
        <4> SUFFICES ASSUME NEW i \in 1 .. Len(disk)
                     PROVE  v(i) = IF i > o /\ i <= o + l THEN i - 1 ELSE disk[i]
          OBVIOUS
        <4>1. CASE i > o /\ i <= o + l
          <5>1. i - o \in 1 .. l /\ o + (i - o) - 1 = i - 1
            BY <1>3, <4>1
          <5> QED
            BY <1>3, <4>1, <5>1
        <4>2. CASE ~ (i > o /\ i <= o + l)
          BY <4>2
        <4> QED
          BY <4>1, <4>2
      <3>3. \A i \in 1 .. Len(disk) : v(i) \in Int
        BY <3>1, <3>2
      <3>4. new = [i \in 1 .. Len(disk) |-> v(i)]
        BY <3>1
      <3> HIDE DEF v, new
      <3>5. new \in Seq(Int) /\ Len(new) = Len(disk) /\ \A i \in 1 .. Len(disk) : new[i] = v(i)
        BY <3>1, <3>3, <3>4
      <3> QED
        BY <3>2, <3>5
    <2> HIDE DEF new, req
    <2>5. \A i \in 1 .. Len(new) : new[i] # i - 1 => Listed(i, req)
      <3> SUFFICES ASSUME NEW i \in 1 .. Len(new), new[i] # i - 1
                   PROVE  Listed(i, req)
        OBVIOUS
      <3>1. i \in 1 .. Len(disk) /\ i \in Nat
        BY <2>4
      <3>2. ~ (o < i /\ i <= o + l) /\ disk[i] # i - 1
        BY <1>3, <2>4, <3>1
      <3> QED
        BY <1>4, <2>3, <3>1, <3>2
    <2>6. (\A i \in 1 .. Len(disk) : disk[i] # i - 1 => Listed(i, rFile))'
      BY <2>2, <2>5 DEF Listed
    <2>7. FileInv'
      BY <1>1, <1>4, <1>5, <2>2, <2>3, <2>4, <2>6 DEF FileInv
    <2> QED
      BY <1>6, <2>7 DEF TransferInv
  <1> QED
    BY <1>7, <1>8

(* In a debug build every byte on disk that is wrong is in the list that   *)
(* the next transfer reads, wherever this one stops, and FINACK is sent    *)
(* for a file without a wrong byte, and a whole one if none was resumed.   *)
(* (_rx, update_r_file)                                                    *)
THEOREM DamageListedHolds == DebugBuild => (DidaditSpec => []DamageListed)
  <1> SUFFICES ASSUME DebugBuild
               PROVE  DidaditSpec => []DamageListed
    OBVIOUS
  <1>1. DidaditInit => TransferInv
    <2>1. DidaditInit => Phase
      BY DEF DidaditInit, Phase, Idle
    <2>2. DidaditInit => FileInv
      <3>1. /\ <<>> \in Seq(Int) /\ <<>> \in Seq(Parts) /\ Len(<<>>) = 0 /\ 0 \in 0 .. FileLen
            /\ \A i \in 1 .. Len(<<>>) : FALSE
        BY DidaditAssumption
      <3> SUFFICES ASSUME DidaditInit
                   PROVE  FileInv
        OBVIOUS
      <3>2. /\ disk = <<>> /\ rFile = <<>> /\ rxPos = 0 /\ rxSize = 0 /\ rxState = "off"
            /\ exists \in BOOLEAN
        BY DEF DidaditInit
      <3>3. rxState \notin {"data", "req", "done"} /\ rxPos <= FileLen
        BY <3>2, DidaditAssumption
      <3>4. \A i \in 1 .. Len(disk) : disk[i] # i - 1 => Listed(i, rFile)
        BY <3>1, <3>2
      <3>5. disk \in Seq(Int) /\ rFile \in Seq(Parts) /\ rxPos = Len(disk) /\ rxSize \in 0 .. FileLen
        BY <3>1, <3>2
      <3> QED
        BY <3>2, <3>3, <3>4, <3>5 DEF FileInv
    <2> QED
      BY <2>1, <2>2 DEF TransferInv
  <1>2. TransferInv /\ [DidaditNext]_dvars => TransferInv'
    <2>1. CASE UNCHANGED dvars
      BY <2>1 DEF dvars, TransferInv, FileInv, Listed, Phase, Idle, Offering, Resuming, Streaming,
                  Streamed, Replying, Resending, Resent, Finished
    <2> QED
      BY <2>1, OfferStep, ResumeStep, StartStep, BlockStep, FinStep, AnsweredStep, GrowStep,
         FirstFinStep, RepairStep, NextFinStep, BreakStep DEF DidaditNext
  <1>3. TransferInv => DamageListed
    <2> SUFFICES ASSUME TransferInv
                 PROVE  DamageListed
      OBVIOUS
    <2>1. /\ disk \in Seq(Int) /\ rFile \in Seq(Parts)
          /\ \A i \in 1 .. Len(disk) : disk[i] # i - 1 => Listed(i, rFile)
      BY DEF TransferInv, FileInv
    <2>2. \A i \in DOMAIN disk : disk[i] # i - 1 =>
             \E c \in DOMAIN rFile : rFile[c].offset < i /\ i <= rFile[c].offset + rFile[c].len
      BY <2>1 DEF Listed
    <2>3. ASSUME rxState = "done", rxSize = FileLen
          PROVE  disk = Whole
      <3>1. rFile = <<>> /\ Len(disk) = FileLen
        BY <2>3, DidaditAssumption DEF TransferInv, FileInv
      <3>2. \A i \in 1 .. FileLen : disk[i] = i - 1
        BY <2>1, <3>1 DEF Listed
      <3>3. disk = [i \in 1 .. FileLen |-> disk[i]]
        BY <2>1, <3>1
      <3> QED
        BY <3>2, <3>3 DEF Whole
    <2> QED
      BY <2>2, <2>3 DEF DamageListed
  <1> QED
    BY <1>1, <1>2, <1>3, PTL DEF DidaditSpec
-----------------------------------------------------------------------------
(* The routes.  Learned routes form no loop, for any set of boxes, any     *)
(* neighbours and any measuring of the links.  Along a route each box has  *)
(* a newer time than the one before it, or the same time and a better      *)
(* quality; a box changes its route only to a newer or better one, so      *)
(* those that lead to it stay behind it.                                   *)

RouteEntry == [from : Boxes \cup {Dest}, time : Nat, qual : Nat]
RouteLine == [time : Nat, hops : Nat \ {0}, qual : Nat]

(* Types of the variables.                                                 *)
WpTypeOK ==
    /\ clock \in Nat
    /\ route \in [Boxes -> RouteEntry]
    /\ line \in [Links -> Seq(RouteLine)]

(* No time is ahead of the clock.                                          *)
TimesPast ==
    /\ \A n \in Boxes : route[n].time <= clock
    /\ \A l \in Links : \A i \in 1 .. Len(line[l]) : line[l][i].time <= clock

(* RouteEntry e is at least as good as a line with this time and quality.       *)
AsNew(e, time, qual) == e.time > time \/ (e.time = time /\ e.qual <= qual)

(* A box has what it tells the others, or something newer.                 *)
TellerKnows ==
    \A l \in Links : l[1] \in Boxes =>
        \A i \in 1 .. Len(line[l]) :
            /\ line[l][i].hops > 1
            /\ AsNew(route[l[1]], line[l][i].time, line[l][i].qual)

(* The next box of a route has it newer, or better.                        *)
Ahead(e, f) == e.time > f.time \/ (e.time = f.time /\ e.qual < f.qual)
RoutesDescend ==
    \A n \in Boxes : route[n].from \in Boxes => Ahead(route[route[n].from], route[n])

WpInv == WpTypeOK /\ TimesPast /\ TellerKnows /\ RoutesDescend

-----------------------------------------------------------------------------
(* A sequence after Append or Tail has its old elements, or the new one.   *)
LEMMA AppendElements ==
    ASSUME NEW S, NEW s \in Seq(S), NEW e \in S
    PROVE  /\ Append(s, e) \in Seq(S)
           /\ \A i \in 1 .. Len(Append(s, e)) :
                  \/ \E j \in 1 .. Len(s) : Append(s, e)[i] = s[j]
                  \/ Append(s, e)[i] = e
  BY AppendProperties, LenProperties

LEMMA TailElements ==
    ASSUME NEW S, NEW s \in Seq(S), s # << >>
    PROVE  /\ Tail(s) \in Seq(S) /\ Head(s) \in S /\ Head(s) = s[1]
           /\ 1 \in 1 .. Len(s)
           /\ \A i \in 1 .. Len(Tail(s)) :
                  \E j \in 1 .. Len(s) : Tail(s)[i] = s[j]
  <1>1. Len(s) \in Nat \ {0}
    BY EmptySeq
  <1>2. ASSUME NEW i \in 1 .. Len(Tail(s))
        PROVE  \E j \in 1 .. Len(s) : Tail(s)[i] = s[j]
    <2>1. i + 1 \in 1 .. Len(s) /\ Tail(s)[i] = s[i + 1]
      BY <1>1, HeadTailProperties
    <2> QED  BY <2>1
  <1> QED  BY <1>1, <1>2, HeadTailProperties

(* The lines under way are those of before, and r on the links of box n.   *)
Told(n, r, before, after) ==
    /\ after \in [Links -> Seq(RouteLine)]
    /\ \A l \in Links : \A i \in 1 .. Len(after[l]) :
          \/ \E j \in 1 .. Len(before[l]) : after[l][i] = before[l][j]
          \/ l[1] = n /\ after[l][i] = r

(* A box tells its neighbours one line, and keeps those under way.         *)
LEMMA TellLines ==
    ASSUME NEW n, NEW from, NEW r \in RouteLine, NEW lines \in [Links -> Seq(RouteLine)]
    PROVE  Told(n, r, lines, Tell(n, from, r, lines))
  <1>1. ASSUME NEW l \in Links
        PROVE  /\ Append(lines[l], r) \in Seq(RouteLine)
               /\ \A i \in 1 .. Len(Append(lines[l], r)) :
                      \/ \E j \in 1 .. Len(lines[l]) :
                            Append(lines[l], r)[i] = lines[l][j]
                      \/ Append(lines[l], r)[i] = r
    <2>1. lines[l] \in Seq(RouteLine)
      OBVIOUS
    <2> QED  BY <2>1, AppendElements
  <1> QED  BY <1>1 DEF Tell, Told

(* A line is known where it comes from, and not from the future, after the *)
(* step.                                                                   *)
Known(l, r) ==
    /\ r.time <= clock'
    /\ l[1] \in Boxes => r.hops > 1 /\ AsNew(route'[l[1]], r.time, r.qual)

(* What a step must do to keep the invariant: boxes change their routes    *)
(* only for newer or better ones, of which the next box knows a better one *)
(* yet, and tell what they have.                                           *)
LEMMA GoodStep ==
    ASSUME WpInv,
           clock' \in Nat, clock <= clock',
           route' \in [Boxes -> RouteEntry], line' \in [Links -> Seq(RouteLine)],
           \A n \in Boxes : /\ AsNew(route'[n], route[n].time, route[n].qual)
                            /\ route'[n].time <= clock',
           \A n \in Boxes : route'[n] # route[n] /\ route'[n].from \in Boxes
                              => Ahead(route[route'[n].from], route'[n]),
           \A l \in Links : \A i \in 1 .. Len(line'[l]) :
               \/ \E j \in 1 .. Len(line[l]) : line'[l][i] = line[l][j]
               \/ Known(l, line'[l][i])
    PROVE  WpInv'
  <1> USE DEF RouteEntry, RouteLine
  <1>1. \A n \in Boxes : /\ route[n].time \in Nat /\ route[n].qual \in Nat
                         /\ route'[n].time \in Nat /\ route'[n].qual \in Nat
    BY DEF WpInv, WpTypeOK
  <1>2. WpTypeOK'
    BY DEF WpTypeOK
  <1>3. ASSUME NEW l \in Links, NEW j \in 1 .. Len(line[l])
        PROVE  Known(l, line[l][j])
    <2>1. line[l][j] \in RouteLine
      BY ElementOfSeq DEF WpInv, WpTypeOK
    <2>2. line[l][j].time <= clock'
      BY <2>1 DEF WpInv, WpTypeOK, TimesPast
    <2>3. CASE l[1] \in Boxes
      <3>1. /\ line[l][j].hops > 1
            /\ AsNew(route[l[1]], line[l][j].time, line[l][j].qual)
        BY <2>3 DEF WpInv, TellerKnows
      <3>2. AsNew(route'[l[1]], route[l[1]].time, route[l[1]].qual)
        BY <2>3
      <3>3. line[l][j].time \in Nat /\ line[l][j].qual \in Nat
        BY <2>1
      <3>4. AsNew(route'[l[1]], line[l][j].time, line[l][j].qual)
        BY ONLY <1>1, <2>3, <3>1, <3>2, <3>3 DEF AsNew
      <3> QED  BY ONLY <2>2, <3>1, <3>4 DEF Known
    <2> QED  BY <2>2, <2>3 DEF Known
  <1>4. \A l \in Links : \A i \in 1 .. Len(line'[l]) : Known(l, line'[l][i])
    BY <1>3
  <1>5. TimesPast' /\ TellerKnows'
    BY <1>4 DEF Known, TimesPast, TellerKnows, AsNew
  <1>6. ASSUME NEW n \in Boxes, route'[n].from \in Boxes
        PROVE  Ahead(route'[route'[n].from], route'[n])
    <2> DEFINE m == route'[n].from
    <2>1. AsNew(route'[m], route[m].time, route[m].qual)
      BY <1>6
    <2>2. Ahead(route[m], route'[n])
      BY <1>6 DEF WpInv, RoutesDescend
    <2> QED  BY <1>1, <1>6, <2>1, <2>2 DEF AsNew, Ahead
  <1>7. RoutesDescend'
    BY <1>6 DEF RoutesDescend, Ahead
  <1> QED  BY <1>2, <1>5, <1>7 DEF WpInv

LEMMA RoutesInit == WpInit => WpInv
  <1> SUFFICES ASSUME WpInit PROVE WpInv
    OBVIOUS
  <1>1. WpTypeOK
    BY EmptySeq DEF WpInit, WpTypeOK, NoRoute, RouteEntry
  <1>2. \A l \in Links : Len(line[l]) = 0
    BY EmptySeq DEF WpInit
  <1> QED
    BY <1>1, <1>2, WpAssumption
    DEF WpInit, WpInv, TimesPast, TellerKnows, RoutesDescend, NoRoute

(* A step in which box n puts entry e in its route and tells it, while the *)
(* lines under way are some of the old ones.                               *)
Learns(n, e, from, hops, lines) ==
    /\ clock' \in Nat /\ clock <= clock'
    /\ n \in Boxes /\ e \in RouteEntry /\ hops \in Nat
    /\ lines \in [Links -> Seq(RouteLine)]
    /\ \A l \in Links : \A i \in 1 .. Len(lines[l]) :
          \E j \in 1 .. Len(line[l]) : lines[l][i] = line[l][j]
    /\ hops > 1 /\ e.time <= clock'
    /\ AsNew(e, route[n].time, route[n].qual)
    /\ e.from \in Boxes => Ahead(route[e.from], e)
    /\ route' = [route EXCEPT ![n] = e]
    /\ line' = Tell(n, from, [time |-> e.time, hops |-> hops, qual |-> e.qual],
                    lines)

(* The three actions that change a route keep the invariant.               *)
LEMMA NewEntry ==
    ASSUME NEW n, NEW e, NEW from, NEW hops, NEW lines,
           WpInv, Learns(n, e, from, hops, lines)
    PROVE  WpInv'
  <1> USE DEF Learns
  <1> DEFINE r == [time |-> e.time, hops |-> hops, qual |-> e.qual]
  <1>1. /\ r \in RouteLine /\ r.hops > 1 /\ r.time = e.time /\ r.qual = e.qual
        /\ line' = Tell(n, from, r, lines)
    BY DEF RouteEntry, RouteLine
  <1> HIDE DEF r
  <1>2. /\ line' \in [Links -> Seq(RouteLine)]
        /\ \A l \in Links : \A i \in 1 .. Len(line'[l]) :
              \/ \E j \in 1 .. Len(lines[l]) : line'[l][i] = lines[l][j]
              \/ l[1] = n /\ line'[l][i] = r
    <2>1. Told(n, r, lines, Tell(n, from, r, lines))
      BY <1>1, TellLines
    <2> QED  BY ONLY <1>1, <2>1 DEF Told
  <1>3. /\ route' \in [Boxes -> RouteEntry]
        /\ route'[n] = e
        /\ \A m \in Boxes \ {n} : route'[m] = route[m]
    BY DEF WpInv, WpTypeOK
  <1>4. \A m \in Boxes : /\ AsNew(route'[m], route[m].time, route[m].qual)
                         /\ route'[m].time <= clock'
    <2>1. \A m \in Boxes : route[m].time \in Nat /\ route[m].qual \in Nat
                           /\ route[m].time <= clock
      BY DEF WpInv, WpTypeOK, TimesPast, RouteEntry
    <2> QED  BY <1>3, <2>1 DEF AsNew, WpInv, WpTypeOK
  <1>5. \A m \in Boxes : route'[m] # route[m] /\ route'[m].from \in Boxes
                         => Ahead(route[route'[m].from], route'[m])
    BY <1>3
  <1>6. \A l \in Links : l[1] = n => Known(l, r)
    BY <1>1, <1>3 DEF Known, AsNew, RouteEntry
  <1>7. \A l \in Links : \A i \in 1 .. Len(line'[l]) :
            \/ \E j \in 1 .. Len(line[l]) : line'[l][i] = line[l][j]
            \/ Known(l, line'[l][i])
    BY <1>2, <1>6
  <1> QED  BY <1>2, <1>3, <1>4, <1>5, <1>7, GoodStep

(* A step that changes neither clock nor routes, and tells nothing.        *)
LEMMA NothingTold ==
    ASSUME WpInv, UNCHANGED route, clock' \in Nat, clock <= clock',
           line' \in [Links -> Seq(RouteLine)],
           \A l \in Links : \A i \in 1 .. Len(line'[l]) :
               \/ \E j \in 1 .. Len(line[l]) : line'[l][i] = line[l][j]
               \/ Known(l, line'[l][i])
    PROVE  WpInv'
  <1>1. \A n \in Boxes : /\ route[n].time \in Nat /\ route[n].qual \in Nat
                         /\ route[n].time <= clock
    BY DEF WpInv, WpTypeOK, TimesPast, RouteEntry
  <1>2. \A n \in Boxes : /\ AsNew(route'[n], route[n].time, route[n].qual)
                         /\ route'[n].time <= clock'
    BY <1>1 DEF AsNew, WpInv, WpTypeOK
  <1>3. route' \in [Boxes -> RouteEntry]
    BY DEF WpInv, WpTypeOK
  <1> QED  BY <1>2, <1>3, GoodStep

-----------------------------------------------------------------------------
(* What the clock and the lines allow in every action.                     *)
LEMMA TickKeeps ==
    ASSUME WpInv, NextSecond
    PROVE  /\ clock' \in Nat /\ clock' = clock + 1 /\ clock <= clock'
           /\ \A n \in Boxes : route[n].time < clock'
  BY DEF WpInv, WpTypeOK, TimesPast, NextSecond, RouteEntry

LEMMA GenWpRKeeps == WpInv /\ GenWpR => WpInv'
  <1> SUFFICES ASSUME WpInv, GenWpR PROVE WpInv'
    OBVIOUS
  <1> DEFINE r == [time |-> clock + 1, hops |-> 1, qual |-> HopCost]
  <1>1. /\ clock' \in Nat /\ clock' = clock + 1 /\ clock <= clock'
    BY TickKeeps DEF GenWpR
  <1>2. r \in RouteLine /\ r.time = clock'
    BY <1>1, WpAssumption DEF RouteLine
  <1>3. \A l \in Links : line'[l] = IF l[1] = Dest THEN Append(line[l], r)
                                    ELSE line[l]
    BY DEF GenWpR
  <1> HIDE DEF r
  <1>4. ASSUME NEW l \in Links
        PROVE  /\ line'[l] \in Seq(RouteLine)
               /\ \A i \in 1 .. Len(line'[l]) :
                      \/ \E j \in 1 .. Len(line[l]) : line'[l][i] = line[l][j]
                      \/ Known(l, line'[l][i])
    <2>1. line[l] \in Seq(RouteLine)
      BY DEF WpInv, WpTypeOK
    <2>2. CASE l[1] = Dest
      <3>1. /\ line'[l] \in Seq(RouteLine)
            /\ \A i \in 1 .. Len(line'[l]) :
                  \/ \E j \in 1 .. Len(line[l]) : line'[l][i] = line[l][j]
                  \/ line'[l][i] = r
        <4>1. /\ Append(line[l], r) \in Seq(RouteLine)
              /\ \A i \in 1 .. Len(Append(line[l], r)) :
                    \/ \E j \in 1 .. Len(line[l]) :
                          Append(line[l], r)[i] = line[l][j]
                    \/ Append(line[l], r)[i] = r
          BY ONLY <1>2, <2>1, AppendElements
        <4>2. line'[l] = Append(line[l], r)
          BY <1>3, <2>2
        <4> QED  BY ONLY <4>1, <4>2
      <3>2. Known(l, r)
        BY <1>1, <1>2, <2>2, WpAssumption DEF Known
      <3> QED  BY <3>1, <3>2
    <2>3. CASE l[1] # Dest
      BY <1>3, <2>1, <2>3
    <2> QED  BY <2>2, <2>3
  <1>5. line' \in [Links -> Seq(RouteLine)]
    BY <1>4 DEF GenWpR
  <1> QED  BY <1>1, <1>4, <1>5, NothingTold DEF GenWpR

LEMMA MeasureKeeps ==
    ASSUME WpInv, NEW n \in Partners, NEW q \in Measured, Measure(n, q)
    PROVE  WpInv'
  <1> DEFINE e == [from |-> Dest, time |-> clock + 1, qual |-> q]
  <1>1. /\ clock' \in Nat /\ clock' = clock + 1 /\ clock <= clock'
        /\ route[n].time < clock'
        /\ n \in Boxes /\ q \in Nat
    BY TickKeeps, WpAssumption DEF Measure
  <1>2. line \in [Links -> Seq(RouteLine)]
    BY DEF WpInv, WpTypeOK
  <1>3. CASE Takes(route[n], q, clock + 1, Dest)
    <2>1. /\ e \in RouteEntry /\ e.time = clock' /\ e.qual = q /\ e.from = Dest
      BY <1>1 DEF RouteEntry
    <2>2. /\ route' = [route EXCEPT ![n] = e]
          /\ line' = Tell(n, Dest, [time |-> e.time, hops |-> 2, qual |-> e.qual],
                          line)
      BY <1>3 DEF Measure
    <2> HIDE DEF e
    <2>3. /\ AsNew(e, route[n].time, route[n].qual) /\ e.time <= clock'
          /\ e.from \notin Boxes
      BY <1>1, <2>1, WpAssumption DEF AsNew
    <2>4. Learns(n, e, Dest, 2, line)
      BY <1>1, <1>2, <2>1, <2>2, <2>3 DEF Learns
    <2> QED  BY <2>4, NewEntry
  <1>4. CASE ~Takes(route[n], q, clock + 1, Dest)
    BY <1>1, <1>2, <1>4, NothingTold DEF Measure
  <1> QED  BY <1>3, <1>4

(* NoLink's line is newer than anything the box has: it is always taken.   *)
LEMMA NoLinkKeeps ==
    ASSUME WpInv, NEW n \in Partners, NoLink(n)
    PROVE  WpInv'
  <1> DEFINE e == [from |-> Dest, time |-> clock + 1, qual |-> MinRouting]
             old == [route[n] EXCEPT !.qual = MinRouting]
  <1>1. /\ clock' \in Nat /\ clock' = clock + 1 /\ clock <= clock'
        /\ route[n].time < clock'
        /\ n \in Boxes
    BY TickKeeps, WpAssumption DEF NoLink
  <1>2. line \in [Links -> Seq(RouteLine)] /\ route[n] \in RouteEntry
    BY <1>1 DEF WpInv, WpTypeOK
  <1>3. Takes(old, MinRouting, clock + 1, Dest)
    <2>1. old.qual = MinRouting /\ old.time = route[n].time
      BY <1>2 DEF RouteEntry
    <2> QED  BY <1>1, <2>1, WpAssumption DEF Takes
  <1>4. /\ e \in RouteEntry /\ e.time = clock' /\ e.from = Dest
    BY <1>1, WpAssumption DEF RouteEntry
  <1>5. /\ route' = [route EXCEPT ![n] = e]
        /\ line' = Tell(n, Dest, [time |-> e.time, hops |-> 2, qual |-> e.qual],
                        line)
    BY <1>3 DEF NoLink
  <1> HIDE DEF e, old
  <1>6. /\ AsNew(e, route[n].time, route[n].qual) /\ e.time <= clock'
        /\ e.from \notin Boxes
    BY <1>1, <1>4, WpAssumption DEF AsNew
  <1>7. Learns(n, e, Dest, 2, line)
    BY <1>1, <1>2, <1>4, <1>5, <1>6 DEF Learns
  <1> QED  BY <1>7, NewEntry

(* A line that is taken: its quality becomes worse on the way, so the box  *)
(* it comes from is ahead.                                                 *)
LEMMA ScanRKeeps ==
    ASSUME WpInv, NEW l \in Links, NEW may \in BOOLEAN, ScanR(l, may)
    PROVE  WpInv'
  <1> DEFINE r == Head(line[l])
             n == l[2]
             q == Worsened(r)
             rest == [line EXCEPT ![l] = Tail(@)]
             e == [from |-> l[1], time |-> r.time, qual |-> q]
  <1>1. /\ clock \in Nat /\ clock' = clock
        /\ line \in [Links -> Seq(RouteLine)] /\ line[l] \in Seq(RouteLine)
        /\ line[l] # << >>
    BY DEF WpInv, WpTypeOK, ScanR
  <1>2. /\ Tail(line[l]) \in Seq(RouteLine)
        /\ r \in RouteLine /\ r = line[l][1] /\ 1 \in 1 .. Len(line[l])
        /\ \A i \in 1 .. Len(Tail(line[l])) :
              \E j \in 1 .. Len(line[l]) : Tail(line[l])[i] = line[l][j]
    BY <1>1, TailElements
  <1>3. /\ rest \in [Links -> Seq(RouteLine)]
        /\ rest[l] = Tail(line[l])
        /\ \A k \in Links \ {l} : rest[k] = line[k]
    BY <1>1, <1>2
  <1>4. \A k \in Links : \A i \in 1 .. Len(rest[k]) :
            \E j \in 1 .. Len(line[k]) : rest[k][i] = line[k][j]
    <2>1. \A k \in Links \ {l} : \A i \in 1 .. Len(rest[k]) :
              \E j \in 1 .. Len(line[k]) : rest[k][i] = line[k][j]
      BY <1>3
    <2>2. \A i \in 1 .. Len(rest[l]) :
              \E j \in 1 .. Len(line[l]) : rest[l][i] = line[l][j]
      BY <1>2, <1>3
    <2> QED  BY <2>1, <2>2
  <1>5. n \in Boxes /\ l[1] \in Boxes \cup {Dest} /\ route[n] \in RouteEntry
    BY WpAssumption DEF Links, WpInv, WpTypeOK
  <1>6. CASE Takes(route[n], q, r.time, l[1]) /\ PartnerTakes(n, may)
    <2>1. /\ r.time \in Nat /\ r.hops \in Nat \ {0} /\ r.qual \in Nat
          /\ r.time <= clock
      BY <1>1, <1>2 DEF RouteLine, WpInv, TimesPast
    <2>2. q \in Nat /\ (r.hops > 1 => q > r.qual)
      <3>1. r.qual \div 10 \in Nat
        BY <2>1
      <3> QED  BY <2>1, <3>1, WpAssumption DEF Worsened
    <2>3. e \in RouteEntry /\ e.time = r.time /\ e.qual = q /\ e.from = l[1]
      BY <1>5, <2>1, <2>2 DEF RouteEntry
    <2>4. r.hops + 1 \in Nat
      BY <2>1
    <2>5. AsNew(e, route[n].time, route[n].qual)
      BY <1>5, <1>6, <2>1, <2>3 DEF Takes, AsNew, RouteEntry
    <2>6. ASSUME l[1] \in Boxes
          PROVE  r.hops > 1 /\ Ahead(route[l[1]], e)
      <3>1. r.hops > 1 /\ AsNew(route[l[1]], r.time, r.qual)
        BY <1>2, <2>6 DEF WpInv, TellerKnows
      <3>2. route[l[1]] \in RouteEntry
        BY <2>6 DEF WpInv, WpTypeOK
      <3> QED  BY <2>1, <2>2, <2>3, <3>1, <3>2 DEF AsNew, Ahead, RouteEntry
    <2>7. /\ route' = [route EXCEPT ![n] = e]
          /\ line' = Tell(n, l[1], [time |-> e.time, hops |-> r.hops + 1,
                                    qual |-> e.qual], rest)
      BY <1>6, <2>3 DEF ScanR
    <2>8. r.hops + 1 > 1
      BY <2>1
    <2> HIDE DEF e, q, rest, r
    <2>9. Learns(n, e, l[1], r.hops + 1, rest)
      BY <1>1, <1>3, <1>4, <1>5, <2>1, <2>3, <2>4, <2>5, <2>6, <2>7, <2>8
      DEF Learns
    <2> QED  BY <2>9, NewEntry
  <1>7. CASE ~(Takes(route[n], q, r.time, l[1]) /\ PartnerTakes(n, may))
    <2>1. line' = rest /\ UNCHANGED route
      BY <1>7 DEF ScanR
    <2> QED  BY <1>1, <1>3, <1>4, <2>1, NothingTold
  <1> QED  BY <1>6, <1>7

LEMMA RoutesNext == WpInv /\ [WpNext]_wvars => WpInv'
  <1> SUFFICES ASSUME WpInv, [WpNext]_wvars PROVE WpInv'
    OBVIOUS
  <1>1. CASE GenWpR
    BY <1>1, GenWpRKeeps
  <1>2. ASSUME NEW n \in Partners, NoLink(n) PROVE WpInv'
    BY <1>2, NoLinkKeeps
  <1>3. ASSUME NEW n \in Partners, NEW q \in Measured, Measure(n, q)
        PROVE  WpInv'
    BY <1>3, MeasureKeeps
  <1>4. ASSUME NEW l \in Links, NEW may \in BOOLEAN, ScanR(l, may)
        PROVE  WpInv'
    BY <1>4, ScanRKeeps
  <1>5. CASE UNCHANGED wvars
    <2>1. /\ UNCHANGED <<clock, route, line>>
      BY <1>5 DEF wvars
    <2> QED
      BY <2>1 DEF WpInv, WpTypeOK, TimesPast, TellerKnows, RoutesDescend
  <1> QED  BY <1>1, <1>2, <1>3, <1>4, <1>5 DEF WpNext

(* Boxes, lines and times: a box has what it tells, and the next box of    *)
(* its route has it newer or better (rupdate_hadr, addwp_r).               *)
THEOREM RoutingInvariant == WpSpec => []WpInv
  BY RoutesInit, RoutesNext, PTL DEF WpSpec

(* A set of numbers has a smallest one.                                    *)
LEMMA Smallest ==
    ASSUME NEW T \in SUBSET Nat, T # {}
    PROVE  \E a \in T : \A b \in T : a <= b
  <1> DEFINE Lt == {ss \in Nat \X Nat : ss[1] < ss[2]}
  <1>1. OpToRel(<, Nat) = Lt
    BY Zenon DEF OpToRel
  <1>2. IsWellFoundedOn(Lt, Nat)
    BY ONLY <1>1, NatLessThanWellFounded
  <1>3. PICK a \in T : \A b \in T : ~ (<<b, a>> \in Lt)
    <2> HIDE DEF Lt
    <2> QED  BY <1>2, WFMin
  <1>4. ASSUME NEW b \in T PROVE a <= b
    <2>1. a \in Nat /\ b \in Nat
      OBVIOUS
    <2>2. <<b, a>> \in Nat \X Nat /\ ~ (<<b, a>> \in Lt)
      BY <1>3, <2>1
    <2>3. ~ (b < a)
      BY <2>2
    <2> QED  BY <2>1, <2>3
  <1> QED  BY <1>4

(* In a set of boxes whose routes lead to each other only, one has the     *)
(* newest time and of those the best quality; but the next box of its      *)
(* route would be ahead of it.                                             *)
LEMMA NoLoop == WpInv => NoRoutingLoop
  <1> SUFFICES ASSUME WpInv, NEW S \in SUBSET Boxes, S # {},
                      \A n \in S : route[n].from \in S
               PROVE  FALSE
    BY DEF NoRoutingLoop
  <1> DEFINE Age(n) == clock - route[n].time
             Ages == {Age(n) : n \in S}
  <1>1. \A n \in S : /\ route[n].time \in Nat /\ route[n].qual \in Nat
                     /\ clock \in Nat /\ Age(n) \in Nat
    BY DEF WpInv, WpTypeOK, TimesPast, RouteEntry
  <1>2. PICK n \in S : \A m \in S : Age(n) <= Age(m)
    <2>1. Ages \subseteq Nat /\ Ages # {}
      BY <1>1
    <2>2. PICK a \in Ages : \A b \in Ages : a <= b
      <3> HIDE DEF Ages
      <3> QED  BY <2>1, Smallest
    <2> QED  BY <2>2
  <1> DEFINE Newest == {m \in S : Age(m) = Age(n)}
             Quals == {route[m].qual : m \in Newest}
  <1>3. PICK m \in Newest : \A k \in Newest : route[m].qual <= route[k].qual
    <2>1. Quals \subseteq Nat /\ Quals # {}
      BY <1>1
    <2>2. PICK a \in Quals : \A b \in Quals : a <= b
      <3> HIDE DEF Quals
      <3> QED  BY <2>1, Smallest
    <2> QED  BY <2>2
  <1>4. route[m].from \in S /\ Ahead(route[route[m].from], route[m])
    BY DEF WpInv, RoutesDescend
  <1>5. Age(n) <= Age(route[m].from) /\ Age(m) = Age(n)
    BY <1>2, <1>4
  <1>6. CASE route[route[m].from].time > route[m].time
    BY <1>1, <1>4, <1>5, <1>6
  <1>7. CASE /\ route[route[m].from].time = route[m].time
             /\ route[route[m].from].qual < route[m].qual
    <2>1. route[m].from \in Newest
      BY <1>4, <1>5, <1>7
    <2>2. route[m].qual <= route[route[m].from].qual
      BY <1>3, <2>1
    <2> QED  BY <1>1, <1>4, <1>7, <2>2
  <1> QED  BY <1>4, <1>6, <1>7 DEF Ahead

(* Mails that follow the learned routes leave every set of boxes, for any  *)
(* network, whatever the delays of the lines (rupdate_hadr, addwp_r).      *)
THEOREM RoutesLoopFree == WpSpec => []NoRoutingLoop
  BY RoutingInvariant, NoLoop, PTL
=============================================================================
