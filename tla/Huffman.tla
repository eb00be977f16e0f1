------------------------------ MODULE Huffman ------------------------------
(***************************************************************************)
(* The compression of forwarded mail, huffman.cpp: matches in a ring of    *)
(* the last characters (LZ), and an adaptive Huffman tree for characters   *)
(* and match lengths.  Coder and decoder each keep a ring and a tree, and  *)
(* nothing but the code passes between them, so both trees have to change  *)
(* in the same way at the same places; the rings differ in size.           *)
(*                                                                         *)
(* One action codes or decodes one token.  The code is a sequence of bits  *)
(* in which a match position stands for itself: p_code and d_code are a    *)
(* fixed prefix code and its table.  The search tree for matches           *)
(* (InsertNode, DeleteNode) is the choice of the longest and nearest match *)
(* among the places that are in it.                                        *)
(* Definitions marked "faulty" are never used here: each is a plausible    *)
(* bug of the definition behind it.                                        *)
(***************************************************************************)
EXTENDS Integers, Sequences, FiniteSets

CONSTANTS
    NChars,     \* 256: the characters are 0 .. NChars-1
    F,          \* F_: the longest match
    Threshold,  \* THRESHOLD: a match must be longer
    N2,         \* N2K: the size of the coder's ring, a power of two
    N4,         \* N4K: the size of the decoder's ring
    MaxFreq,    \* MAX_FREQ: the root's frequency at which reconst is called
    MaxText     \* bound: the length of a text

NSym == NChars - Threshold + F   \* N_CHAR: characters and match lengths
T == NSym * 2 - 1                \* size of the tree
R == T - 1                       \* its root

ASSUME HuffmanAssumption ==
    /\ {NChars, F, Threshold, N2, N4, MaxFreq, MaxText} \subseteq Nat \ {0}
    /\ Threshold < F /\ 2 * F < N2 /\ N2 < N4
    /\ MaxFreq >= 2 * NSym

VARIABLES
    text,       \* the file to code
    phase,      \* "code", then "decode", then "decoded"
    cTree,      \* freq[], son[], prnt[] of the coder
    cRing,      \* text_buf of the coder
    cAt,        \* r: its place in the ring
    cAhead,     \* len: characters from there on that are still to code
    cRead,      \* characters read from the file
    code,       \* the coded file
    dTree,      \* the same of the decoder
    dRing,
    dAt,
    decoded     \* the characters it has written

hvars == <<text, phase, cTree, cRing, cAt, cAhead, cRead, code, dTree, dRing,
           dAt, decoded>>

Space == 0   \* the character the rings begin with

-----------------------------------------------------------------------------
(* The tree.  Node n < T has the sons son[n] and son[n] + 1, or it is the  *)
(* leaf of the symbol son[n] - T; prnt leads back from nodes and symbols.  *)

(* The frequencies of the inner nodes, in the order of StartHuff.          *)
FirstFreq[n \in 0 .. R] ==
    IF n < NSym THEN 1
    ELSE FirstFreq[2 * (n - NSym)] + FirstFreq[2 * (n - NSym) + 1]
StartHuff ==
    [freq |-> [n \in 0 .. R |-> FirstFreq[n]],
     son  |-> [n \in 0 .. R |-> IF n < NSym THEN n + T ELSE 2 * (n - NSym)],
     prnt |-> [n \in 0 .. T + NSym - 1 |->
                 CASE n < R -> NSym + n \div 2
                   [] n = R -> 0
                   [] OTHER -> n - T]]

(* prnt of the sons of node n.                                             *)
\* faulty: the second son keeps its parent
LinkFirst(h, n) == [h EXCEPT !.prnt[h.son[n]] = n]
Link(h, n) ==
    IF h.son[n] >= T THEN [h EXCEPT !.prnt[h.son[n]] = n]
    ELSE [h EXCEPT !.prnt[h.son[n]] = n, !.prnt[h.son[n] + 1] = n]

(* reconst: the leaves keep their order and half their frequency; each     *)
(* pair of nodes gets a parent, which is put in its place by frequency.    *)
Halved(h) ==
    LET leaf == {n \in 0 .. R : h.son[n] >= T}
        Nth(k) == CHOOSE n \in leaf : Cardinality({m \in leaf : m < n}) = k
    IN [k \in 1 .. NSym |-> [freq |-> (h.freq[Nth(k - 1)] + 1) \div 2,
                             son |-> h.son[Nth(k - 1)]]]
WithParents[s \in Seq([freq : Nat, son : Nat])] ==
    IF Len(s) = T THEN s
    ELSE LET i == 2 * (Len(s) - NSym)
             f == s[i + 1].freq + s[i + 2].freq
             k == CHOOSE k \in 0 .. Len(s) :
                     /\ k = 0 \/ s[k].freq <= f
                     /\ \A m \in k + 1 .. Len(s) : s[m].freq > f
         IN WithParents[SubSeq(s, 1, k) \o <<[freq |-> f, son |-> i]>>
                          \o SubSeq(s, k + 1, Len(s))]
Reconst(h) ==
    LET s == WithParents[Halved(h)]
        Up(n) == CHOOSE m \in 0 .. R :
                    \/ s[m + 1].son = n
                    \/ n < T /\ s[m + 1].son + 1 = n /\ s[m + 1].son < T
    IN [freq |-> [n \in 0 .. R |-> s[n + 1].freq],
        son  |-> [n \in 0 .. R |-> s[n + 1].son],
        prnt |-> [n \in DOMAIN h.prnt |-> IF n = R THEN h.prnt[R] ELSE Up(n)]]

(* One node counts one more; if that puts it out of order it changes       *)
(* places, with all below it, with the last node that counts less.         *)
LastLess(h, n, k) ==
    CHOOSE m \in n .. R : /\ \A j \in n + 1 .. m : h.freq[j] < k
                          /\ m = R \/ h.freq[m + 1] >= k
Raised(h, n) ==
    LET k == h.freq[n] + 1
        l == LastLess(h, n, k)
        swapped == [h EXCEPT !.freq[n] = h.freq[l], !.freq[l] = k,
                             !.son[n] = h.son[l], !.son[l] = h.son[n]]
    IN [tree |-> IF l = n THEN [h EXCEPT !.freq[n] = k]
                 ELSE Link(Link(swapped, l), n),
        at   |-> l]

(* update: from the leaf of a symbol up to the root.                       *)
RECURSIVE RaisedFrom(_, _)
RaisedFrom(h, n) ==
    LET up == Raised(h, n)
        next == up.tree.prnt[up.at]
    IN IF next = 0 THEN up.tree ELSE RaisedFrom(up.tree, next)
Update(h, c) ==
    LET tree == IF h.freq[R] = MaxFreq THEN Reconst(h) ELSE h
    IN RaisedFrom(tree, tree.prnt[c + T])

(* EncodeChar: the bits from the root to the leaf; an odd node is the      *)
(* larger son.                                                             *)
RECURSIVE BitsTo(_, _)
BitsTo(h, n) ==
    IF n = R THEN << >> ELSE Append(BitsTo(h, h.prnt[n]), n % 2)
EncodeChar(h, c) == BitsTo(h, h.prnt[c + T])

(* DecodeChar: how many bits lead to a leaf, and to which.                 *)
RECURSIVE Descend(_, _, _)
Descend(h, bits, n) ==
    IF n >= T THEN [symbol |-> n - T, rest |-> bits]
    ELSE IF bits = << >> \/ bits[1] \notin {0, 1}
    THEN Descend(h, bits, h.son[n])   \* behind the end, read_char1 gives 0
    ELSE Descend(h, Tail(bits), h.son[n + Head(bits)])
DecodeChar(h, bits) == Descend(h, bits, h.son[R])

-----------------------------------------------------------------------------
HuffmanInit ==
    /\ text \in UNION {[1 .. n -> 0 .. NChars - 1] : n \in 1 .. MaxText}
    /\ phase = "code"
    /\ cTree = StartHuff /\ dTree = StartHuff
    /\ cAt = N2 - F
    /\ cAhead = IF Len(text) < F THEN Len(text) ELSE F
    /\ cRead = cAhead
    /\ cRing = [i \in 0 .. N2 - 1 |->
                  IF i >= cAt /\ i < cAt + cAhead THEN text[i - cAt + 1]
                  ELSE Space]
    /\ code = << >> /\ decoded = << >>
    /\ dRing = [i \in 0 .. N4 - 1 |-> Space]
    /\ dAt = N4 - F

(* The matches InsertNode finds: d is match_position + 1.  The F places    *)
(* before the text are in the tree from the start, and those coded since,  *)
(* as long as they have not been overwritten.                              *)
Distances ==
    {d \in 1 .. N2 - F : d <= F + cRead - cAhead}
MatchOf(d) ==
    CHOOSE l \in 0 .. F :
        /\ \A i \in 0 .. l - 1 : cRing[(cAt - d + i) % N2] = cRing[(cAt + i) % N2]
        /\ l = F \/ cRing[(cAt - d + l) % N2] # cRing[(cAt + l) % N2]
BestMatch ==
    CHOOSE d \in Distances :
        \A e \in Distances : \/ MatchOf(e) < MatchOf(d)
                             \/ MatchOf(e) = MatchOf(d) /\ d <= e

(* The ring after the l characters behind the coded ones have been read.   *)
ReadOn(l) ==
    LET n == IF Len(text) - cRead < l THEN Len(text) - cRead ELSE l
    IN /\ cRing' = [i \in 0 .. N2 - 1 |->
                       LET k == (i - cAt - F) % N2
                       IN IF k < n THEN text[cRead + k + 1] ELSE cRing[i]]
       /\ cRead' = cRead + n
       /\ cAhead' = cAhead - (l - n)
       /\ cAt' = (cAt + l) % N2

(* One round of the loop of Encode.                                        *)
Encode ==
    /\ phase = "code" /\ cAhead > 0
    /\ LET m == MatchOf(BestMatch)
           l == IF m > cAhead THEN cAhead ELSE m
           symbol == IF l <= Threshold THEN cRing[cAt]
                     ELSE NChars - 1 - Threshold + l
       IN /\ code' = code \o EncodeChar(cTree, symbol) \o
                     IF l <= Threshold THEN << >> ELSE <<BestMatch - 1>>
          /\ cTree' = Update(cTree, symbol)
          /\ ReadOn(IF l <= Threshold THEN 1 ELSE l)
    /\ UNCHANGED <<text, phase, dTree, dRing, dAt, decoded>>

EncodeEnd ==
    /\ phase = "code" /\ cAhead = 0
    /\ phase' = "decode"
    /\ UNCHANGED <<text, cTree, cRing, cAt, cAhead, cRead, code, dTree,
                   dRing, dAt, decoded>>

(* What a match stands for, character by character: it may run into the    *)
(* characters it produces itself.                                          *)
RECURSIVE Copied(_, _, _, _)
Copied(ring, from, to, l) ==
    IF l = 0 THEN << >>
    ELSE <<ring[from]>> \o
         Copied([ring EXCEPT ![to] = ring[from]],
                (from + 1) % N4, (to + 1) % N4, l - 1)

Write(chars) ==
    /\ decoded' = decoded \o chars
    /\ dRing' = [i \in 0 .. N4 - 1 |->
                   LET k == (i - dAt) % N4
                   IN IF k < Len(chars) THEN chars[k + 1] ELSE dRing[i]]
    /\ dAt' = (dAt + Len(chars)) % N4

(* Where a match begins in the ring of Decode.                             *)
MatchFrom(position) == (dAt - position - 1) % N4

(* One round of the loop of Decode.                                        *)
Decode ==
    /\ phase = "decode" /\ Len(decoded) < Len(text)
    /\ LET token == DecodeChar(dTree, code)
       IN /\ dTree' = Update(dTree, token.symbol)
          /\ IF token.symbol < NChars
             THEN code' = token.rest /\ Write(<<token.symbol>>)
             ELSE LET position == IF token.rest = << >> THEN 0
                                  ELSE Head(token.rest)
                  IN /\ code' = SubSeq(token.rest, 2, Len(token.rest))
                     /\ Write(Copied(dRing, MatchFrom(position), dAt,
                                token.symbol - (NChars - 1) + Threshold))
    /\ UNCHANGED <<text, phase, cTree, cRing, cAt, cAhead, cRead>>

DecodeEnd ==
    /\ phase = "decode" /\ Len(decoded) >= Len(text)
    /\ phase' = "decoded"
    /\ UNCHANGED <<text, cTree, cRing, cAt, cAhead, cRead, code, dTree,
                   dRing, dAt, decoded>>

HuffmanNext == Encode \/ EncodeEnd \/ Decode \/ DecodeEnd

HuffmanSpec == HuffmanInit /\ [][HuffmanNext]_hvars

-----------------------------------------------------------------------------
(* What is decoded is the text that was coded, character by character and  *)
(* at the end as a whole, also when the rings have wrapped around, a match *)
(* overlaps its own copy, or reconst has rebuilt the trees.  (huffcod)     *)
RoundTrip ==
    /\ Len(decoded) <= Len(text) /\ decoded = SubSeq(text, 1, Len(decoded))
    /\ phase = "decoded" => decoded = text /\ dTree = cTree
=============================================================================
