----------------------------- MODULE WpRouting -----------------------------
(***************************************************************************)
(* Active routing: the R lines of WPROT mails (wp.cpp) and the routes the  *)
(* boxes learn from them (hadr.cpp).  A box tells its neighbours how well  *)
(* it reaches another one; a neighbour that takes this for better or newer *)
(* than what it has keeps it, makes it worse by one hop, and tells its own *)
(* neighbours.  Mails for the box then go to where the line came from.     *)
(*                                                                         *)
(* Destinations do not influence each other, but for one condition (see    *)
(* PartnerTakes), so the module follows the lines about one of them, Dest. *)
(* Lines travel in mails, in order on each link, with any delay.  A time   *)
(* is the second in which a box has put up a line; no two boxes do so in   *)
(* the same one.  (If they did, the second at which a link is given up     *)
(* could be that of an older, better line, and loops are possible.)        *)
(* Left out: B and M lines, the version field, and the command P -ew,      *)
(* with which a sysop deletes a route by hand.                             *)
(* Definitions marked "faulty" are never used here: each is a plausible    *)
(* bug of the definition behind it.                                        *)
(***************************************************************************)
EXTENDS Integers, Sequences, FiniteSets

CONSTANTS
    Boxes,        \* boxes other than Dest
    Dest,         \* the box the lines are about
    Partners,     \* boxes that forward to Dest directly
    Neighbours,   \* the forward partners of each box in Boxes
    Measured,     \* link qualities; less is better
    HopCost,      \* 100
    MinRouting,   \* WPROT_MIN_ROUTING: the worst quality
    MaxAge,       \* 72 hours, as a number of lines put up meanwhile
    MaxClock      \* bound: lines put up in one history

ASSUME WpAssumption ==
    /\ Dest \notin Boxes /\ Partners \subseteq Boxes
    /\ Neighbours \in [Boxes -> SUBSET Boxes]
    /\ HopCost \in Nat \ {0} /\ MinRouting \in Nat \ {0}
    /\ Measured \subseteq 1 .. MinRouting
    /\ MaxAge \in Nat /\ MaxClock \in Nat

VARIABLES
    clock,     \* ad_time()
    route,     \* hadr entry of Dest: r_from, r_time_rx, r_qual_rx
    line       \* R lines under way: W_<box>.bcm, then the mail

wvars == <<clock, route, line>>

Links == {l \in Boxes \X Boxes : l[2] \in Neighbours[l[1]]} \cup
         {<<Dest, n>> : n \in Partners}
NoRoute == [from |-> Dest, time |-> 0, qual |-> 0]

WpInit ==
    /\ clock = 0
    /\ route = [n \in Boxes |-> NoRoute]
    /\ line = [l \in Links |-> << >>]

-----------------------------------------------------------------------------
(* addwp_r: what a line is worth at the box that has received it.          *)
Worsened(r) ==
    IF r.hops > 1 THEN r.qual + (r.qual \div 10) + HopCost ELSE r.qual

(* rupdate_hadr: a box takes a line with quality q.  (That it is not from  *)
(* the future goes without saying here: there is one clock.)               *)
\* faulty: a better quality is enough, however old it is
TakesBetter(old, q, time, from) ==
    /\ \/ old.from = from /\ old.time < time
       \/ q < old.qual
       \/ old.qual = 0
    /\ q > 0 /\ q <= MinRouting
Takes(old, q, time, from) ==
    /\ \/ old.from = from
       \/ q <= old.qual
       \/ old.qual = 0
       \/ clock - old.time > MaxAge
    /\ \/ old.time < time
       \/ old.time = time /\ q <= old.qual
    /\ q > 0 /\ q <= MinRouting

(* A forward partner of Dest takes it only if its own measuring is long    *)
(* ago.  The code looks at the measuring of the link the line came by,     *)
(* which belongs to another destination: either may be the case.           *)
PartnerTakes(n, may) == n \in Partners => may

(* add_emfile: to all neighbours, but neither to the box the line came     *)
(* from nor to the one it is about.                                        *)
Tell(n, from, r, lines) ==
    [l \in Links |-> IF l[1] = n /\ l[2] # from THEN Append(lines[l], r)
                     ELSE lines[l]]

(* The second in which a line is put up.                                   *)
NextSecond == clock < MaxClock /\ clock' = clock + 1

(* genwp_r: Dest tells its neighbours that it is there; wpparse_r makes    *)
(* quality 0 the quality 100 of one hop.                                   *)
GenWpR ==
    /\ NextSecond
    /\ line' = [l \in Links |->
                  IF l[1] = Dest
                  THEN Append(line[l], [time |-> clock + 1, hops |-> 1,
                                        qual |-> HopCost])
                  ELSE line[l]]
    /\ UNCHANGED route

(* sendmails, fbb: a partner of Dest has measured the link, and tells the  *)
(* others; the line is of hop 1, so nothing is added here.                 *)
Measure(n, q) ==
    /\ NextSecond
    /\ IF Takes(route[n], q, clock + 1, Dest)
       THEN /\ route' = [route EXCEPT ![n] =
                  [from |-> Dest, time |-> clock + 1, qual |-> q]]
            /\ line' = Tell(n, Dest, [time |-> clock + 1, hops |-> 2, qual |-> q],
                            line)
       ELSE UNCHANGED <<route, line>>

(* startfwd: the fourth attempt without a link.                            *)
NoLink(n) ==
    /\ NextSecond
    /\ LET old == [route[n] EXCEPT !.qual = MinRouting]
       IN IF Takes(old, MinRouting, clock + 1, Dest)
          THEN /\ route' = [route EXCEPT ![n] =
                     [from |-> Dest, time |-> clock + 1, qual |-> MinRouting]]
               /\ line' = Tell(n, Dest, [time |-> clock + 1, hops |-> 2,
                                         qual |-> MinRouting], line)
          ELSE route' = [route EXCEPT ![n] = old] /\ UNCHANGED line

(* scan_wp, an R line: addwp_r, rupdate_hadr, add_emfile.                  *)
ScanR(l, may) ==
    /\ line[l] # << >>
    /\ LET r == Head(line[l])
           n == l[2]
           q == Worsened(r)
           rest == [line EXCEPT ![l] = Tail(@)]
       IN IF Takes(route[n], q, r.time, l[1]) /\ PartnerTakes(n, may)
          THEN /\ route' = [route EXCEPT ![n] =
                     [from |-> l[1], time |-> r.time, qual |-> q]]
               /\ line' = Tell(n, l[1], [time |-> r.time, hops |-> r.hops + 1,
                                         qual |-> q], rest)
          ELSE line' = rest /\ UNCHANGED route
    /\ UNCHANGED clock

WpNext ==
    \/ GenWpR
    \/ \E n \in Partners : NoLink(n) \/ \E q \in Measured : Measure(n, q)
    \/ \E l \in Links, may \in BOOLEAN : ScanR(l, may)

WpSpec == WpInit /\ [][WpNext]_wvars

-----------------------------------------------------------------------------
(* Whatever the lines' order and delay, a mail that follows the learned    *)
(* routes comes to its destination: there are no boxes whose routes lead   *)
(* to each other only, also while they know of changes in part.            *)
(* (rupdate_hadr, addwp_r)                                                 *)
NoRoutingLoop ==
    \A S \in (SUBSET Boxes) \ {{}} : \E n \in S : route[n].from \notin S
=============================================================================
