------------------------------ MODULE MailServ ------------------------------
(***************************************************************************)
(* The mailing list server (mailserv.cpp).  All lists are in one file: a   *)
(* header line per group with the number of its next mail and its options, *)
(* then a line per member, one blank before a user, two before a           *)
(* maintainer.  A command copies the file with its change to a temporary   *)
(* file that takes its place; a mail with the title MAILTO is sent to all  *)
(* members of a group.  Both hold the lock "msmod" meanwhile.              *)
(*                                                                         *)
(* The file is the sequence of its groups.  Descriptions, answers and the  *)
(* check of a new member's home box are left out.  The file is read line   *)
(* by line with waits between; here that is one step, under the lock.      *)
(*                                                                         *)
(* Definitions marked "faulty" are never used here: each is a plausible    *)
(* mistake, put in place of the definition after it to show what the       *)
(* properties detect.                                                      *)
(***************************************************************************)
EXTENDS Naturals, Sequences, FiniteSets, SequencesExt

CONSTANTS
    ListTasks,   \* sessions and server tasks that give commands
    Members,     \* calls
    Sysops,      \* those of them that are sysops
    ListNames,   \* groups the commands are about
    FirstLists,  \* what the file may hold at first
    SysopCreates,\* maillistserv 2: only sysops make new groups
    MaxCommands  \* bound: commands

\* A group as it is written in the file.
GroupEntry ==
    [name : STRING, nr : Nat, opts : SUBSET {"c", "m", "u"},
     users : SUBSET Members, maints : SUBSET Members]

ASSUME MailServAssumption ==
    /\ Sysops \subseteq Members /\ SysopCreates \in BOOLEAN
    /\ MaxCommands \in Nat /\ "free" \notin ListTasks
    /\ ListNames \subseteq STRING /\ FirstLists \subseteq Seq(GroupEntry)

VARIABLES
    groups,   \* the file, a sequence of groups
    filed,    \* there is a file
    msmod,    \* the task that has the lock "msmod", or "free"
    command,  \* task -> the command it runs
    commands  \* commands so far

listVars == <<groups, filed, msmod, command, commands>>

NoCommand == [at |-> "idle", kind |-> "none", group |-> "none", who |-> "none",
         call |-> "none", nr |-> 0, opts |-> {}, todo |-> {}, got |-> {}, copy |-> <<>>]

Group(name, maintainers) ==
    [name |-> name, nr |-> 1, opts |-> {}, users |-> {}, maints |-> maintainers]

ListInit ==
    /\ groups \in FirstLists /\ filed \in {b \in BOOLEAN : groups # <<>> => b}
    /\ msmod = "free" /\ commands = 0
    /\ command = [t \in ListTasks |-> NoCommand]

-----------------------------------------------------------------------------
(* modify_group                                                            *)

\* seek_group, ma_seek_list: the first group of this name
PlacesOf(list, g) == {i \in DOMAIN list : list[i].name = g}
Place(list, g) == CHOOSE i \in PlacesOf(list, g) : \A j \in PlacesOf(list, g) : i <= j
Exists(list, g) == PlacesOf(list, g) # {}
InGroup(x) == x.users \cup x.maints

\* seek_group, ma_seek_user: 2 for a maintainer
Maintainer(x, c) == c.who \in Sysops \/ c.who \in x.maints

Allowed(x, c) ==
    \/ c.kind \in {"adduser", "deluser", "options", "addmaintainer"} /\ Maintainer(x, c)
    \/ c.kind \in {"setnumber"} /\ Maintainer(x, c)
    \/ c.kind \in {"nextnumber", "unsubscribe"}
    \/ c.kind = "subscribe" /\ ("c" \in x.opts => c.who \in Sysops)
    \/ c.kind = "delmaintainer" /\ c.who \in Sysops

\* a group after the change
Changed(x, c) ==
    CASE c.kind \in {"adduser", "subscribe"} ->
            [x EXCEPT !.users = @ \cup ({c.call} \ InGroup(x))]
      [] c.kind \in {"deluser", "unsubscribe"} ->
            [x EXCEPT !.users = @ \ {c.call}, !.maints = @ \ {c.call}]
      [] c.kind = "addmaintainer" ->
            [x EXCEPT !.users = @ \ {c.call}, !.maints = @ \cup {c.call}]
      [] c.kind = "delmaintainer" ->
            [x EXCEPT !.users = @ \cup ({c.call} \cap x.maints), !.maints = @ \ {c.call}]
      [] c.kind = "options" -> [x EXCEPT !.opts = c.opts]
      [] OTHER -> [x EXCEPT !.nr = c.nr]

\* To take a maintainer away from a group that there is not copies the file
\* twice: seek_group has copied it all before the rest is copied from the top.
Rewritten(list, c) ==
    LET i == Place(list, c.group) IN
    CASE c.kind = "newgroup" ->
            IF Exists(list, c.group) \/ (SysopCreates /\ c.who \notin Sysops) THEN list
            ELSE Append(list, Group(c.group, {c.who}))
      [] c.kind = "delgroup" ->
            IF Exists(list, c.group) /\ c.who \in Sysops
            THEN SubSeq(list, 1, i - 1) \o SubSeq(list, i + 1, Len(list))
            ELSE list
      [] c.kind = "delmaintainer" /\ c.who \in Sysops /\ ~Exists(list, c.group) ->
            list \o list
      [] OTHER ->
            IF Exists(list, c.group) /\ Allowed(list[i], c)
            THEN [list EXCEPT ![i] = Changed(@, c)]
            ELSE list

Goes(t, c) == command' = [command EXCEPT ![t] = c]
IsAt(t, place) == command[t].at = place

Kinds == {"newgroup", "delgroup", "adduser", "deluser", "addmaintainer", "delmaintainer",
          "options", "setnumber", "subscribe", "unsubscribe", "mailto"}

\* execute, and examine_mail for a mail to the server: subscribe and
\* unsubscribe are about the caller himself.
Give(t) ==
    /\ IsAt(t, "idle") /\ commands < MaxCommands /\ commands' = commands + 1
    /\ \E k \in Kinds, g \in ListNames, w \in Members, m \in Members, o \in SUBSET {"c", "m", "u"} :
        /\ k \notin {"adduser", "deluser", "addmaintainer", "delmaintainer"} => m = w
        /\ k # "options" => o = {}
        /\ Goes(t, [NoCommand EXCEPT !.at = "lock", !.kind = k, !.group = g, !.who = w,
                                !.call = m, !.nr = 1, !.opts = o])
    /\ UNCHANGED <<groups, filed, msmod>>

\* faulty: whoever has the lock, the command goes on.
LockIf(t) ==
    /\ IsAt(t, "lock") /\ msmod' = IF msmod = "free" THEN t ELSE msmod
    /\ Goes(t, [command[t] EXCEPT !.at = "read"])
    /\ UNCHANGED <<groups, filed, commands>>

\* while (! sema_lock(MSMODSEMA)) wdelay(...)
Lock(t) ==
    /\ IsAt(t, "lock") /\ msmod = "free" /\ msmod' = t
    /\ Goes(t, [command[t] EXCEPT !.at = "read"])
    /\ UNCHANGED <<groups, filed, commands>>

\* A missing file is made, empty.
Copy(t) ==
    /\ IsAt(t, "read") /\ command[t].kind # "mailto" /\ filed' = TRUE
    /\ Goes(t, [command[t] EXCEPT !.at = "replace", !.copy = Rewritten(groups, command[t])])
    /\ UNCHANGED <<groups, msmod, commands>>

\* xunlink, xrename, sema_unlock, without a wait
Replace(t) ==
    /\ IsAt(t, "replace") /\ groups' = command[t].copy /\ msmod' = "free"
    /\ Goes(t, NoCommand) /\ UNCHANGED <<filed, commands>>

-----------------------------------------------------------------------------
(* examine_mail, MAILTO: the title of a mail to the box                    *)

\* The sender may be refused by the options m and u of the group.
MayWrite(x, c) ==
    /\ "m" \in x.opts => c.who \in x.maints
    /\ "u" \in x.opts => c.who \in InGroup(x)

\* faulty: the lock is given back as soon as the group has been read.
ReadGroupUnlocks(t) ==
    LET c == command[t] IN
    LET x == groups[Place(groups, c.group)] IN
    /\ IsAt(t, "read") /\ c.kind = "mailto" /\ msmod' = "free"
    /\ IF Exists(groups, c.group) /\ MayWrite(x, c)
       THEN Goes(t, [c EXCEPT !.at = "send", !.todo = InGroup(x), !.nr = x.nr])
       ELSE Goes(t, [c EXCEPT !.at = "answer"])
    /\ UNCHANGED <<groups, filed, commands>>

\* All but a missing file give the lock back at once.
ReadGroup(t) ==
    LET c == command[t] IN
    LET x == groups[Place(groups, c.group)] IN
    /\ IsAt(t, "read") /\ c.kind = "mailto"
    /\ IF filed /\ Exists(groups, c.group) /\ MayWrite(x, c)
       THEN /\ Goes(t, [c EXCEPT !.at = "send", !.todo = InGroup(x), !.nr = x.nr])
            /\ UNCHANGED msmod
       ELSE /\ Goes(t, [c EXCEPT !.at = "answer"])
            /\ msmod' = IF filed THEN "free" ELSE t
    /\ UNCHANGED <<groups, filed, commands>>

\* mbsend to the next member
SendCopy(t) ==
    /\ IsAt(t, "send")
    /\ \E m \in command[t].todo :
        Goes(t, [command[t] EXCEPT !.todo = @ \ {m}, !.got = @ \cup {m}])
    /\ UNCHANGED <<groups, filed, msmod, commands>>

\* sema_unlock; then the number is set, as any command would do it.
EndSend(t) ==
    /\ IsAt(t, "send") /\ command[t].todo = {} /\ msmod' = "free"
    /\ Goes(t, [NoCommand EXCEPT !.at = "lock", !.kind = "nextnumber",
                                 !.group = command[t].group, !.nr = command[t].nr + 1])
    /\ UNCHANGED <<groups, filed, commands>>

\* The answer is imported and the task ends; a lock it has goes with it.
ListAnswer(t) ==
    /\ IsAt(t, "answer") /\ Goes(t, NoCommand)
    /\ msmod' = IF msmod = t THEN "free" ELSE msmod
    /\ UNCHANGED <<groups, filed, commands>>

\* close_task: the temporary file and the lock go.
ListKilled(t) ==
    /\ ~IsAt(t, "idle") /\ Goes(t, NoCommand)
    /\ msmod' = IF msmod = t THEN "free" ELSE msmod
    /\ UNCHANGED <<groups, filed, commands>>

ListNext ==
    \E t \in ListTasks :
        \/ Give(t) \/ Lock(t) \/ Copy(t) \/ Replace(t) \/ ReadGroup(t) \/ SendCopy(t)
        \/ EndSend(t) \/ ListAnswer(t) \/ ListKilled(t)

ListSpec == ListInit /\ [][ListNext]_listVars

-----------------------------------------------------------------------------
Doubled(list) == \E i, j \in DOMAIN list : i # j /\ list[i].name = list[j].name
Entry(list, g) == {list[i] : i \in PlacesOf(list, g)}

(* What modify_group changes is one thing at a time, and by someone who    *)
(* may: whatever commands run side by side, none takes back what another   *)
(* has changed.  The calls in a group change by one call, for a maintainer *)
(* or a sysop or the call itself; a group comes with its maker and goes    *)
(* for a sysop; all other groups stay as they are.  A file that has been   *)
(* copied twice is left out.                                               *)
ListChange(c) ==
    /\ \A g \in {x.name : x \in ToSet(groups \o groups')} \ {c.group} :
        Entry(groups', g) = Entry(groups, g)
    /\ \A x \in Entry(groups, c.group) :
        /\ Entry(groups', c.group) = {} => c.who \in Sysops
        /\ \A y \in Entry(groups', c.group) :
            LET moved == (InGroup(x) \ InGroup(y)) \cup (InGroup(y) \ InGroup(x)) IN
            /\ Cardinality(moved) <= 1
            /\ moved \subseteq {c.who} \/ c.who \in x.maints \cup Sysops
    /\ Entry(groups, c.group) = {} =>
        \A y \in Entry(groups', c.group) : InGroup(y) = {c.who}
OneChangeEach ==
    [][ Doubled(groups) \/ Doubled(groups')
        \/ \E t \in ListTasks : IsAt(t, "replace") /\ ListChange(command[t]) ]_groups

(* While a mail is sent to a group nobody joins or leaves it: those who    *)
(* have got it and those who are still to get it are the group as the file *)
(* has it, and the number in the mail is the one in the file.              *)
SentToGroup ==
    \A t \in ListTasks :
        IsAt(t, "send") =>
            LET c == command[t] IN
            LET x == groups[Place(groups, c.group)] IN
            Exists(groups, c.group) /\ c.todo \cup c.got = InGroup(x) /\ c.nr = x.nr
=============================================================================
