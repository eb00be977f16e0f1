------------------------------ MODULE UserFile ------------------------------
(***************************************************************************)
(* The user file of users.cpp: records in "users4.bcm", chained by a hash  *)
(* of the callsign, a cache of the last records, and reorguser, which      *)
(* copies the file while sessions go on loading and saving.  A session     *)
(* keeps a copy of its record, with the place it has in the file and the   *)
(* second it was loaded in; reorguser gives the records new places.        *)
(*                                                                         *)
(* All callsigns of the model share one hash value, so there is one chain. *)
(* Record 0 ("DUMMY") is left out.  What a user record holds is a version  *)
(* number.                                                                 *)
(* Definitions marked "faulty" are never used here: each is a plausible    *)
(* bug of the definition behind it.                                        *)
(***************************************************************************)
EXTENDS Integers, Sequences, FiniteSets

CONSTANTS
    Calls,      \* callsigns
    Users,      \* sessions that hold a copy of a user record
    CacheSize,  \* US_CACHESZ
    MaxNow,     \* bound: seconds
    MaxVersion  \* bound: changes of a record

NoCall == "none"

ASSUME UserFileAssumption ==
    /\ {CacheSize, MaxNow, MaxVersion} \subseteq Nat \ {0}
    /\ NoCall \notin Calls

VARIABLES
    now,        \* ad_time()
    userFile,   \* users4.bcm: records [call, data, next]
    chain,      \* the entry of the hash file: the first place, or 0
    usCache,    \* us_cache[]
    putPos,     \* put_pos
    held,       \* the copy of each session
    reorgAt,    \* the record reorguser reads next, 0: it does not run
    newFile,    \* users4 and hash file it writes
    newChain,
    lastreorg

uvars == <<now, userFile, chain, usCache, putPos, held, reorgAt, newFile,
           newChain, lastreorg>>

None == [call |-> NoCall, data |-> 0, next |-> 0, pos |-> 0, load |-> 0]

UserInit ==
    /\ now = 1
    /\ userFile = << >> /\ chain = 0
    /\ usCache = [i \in 1 .. CacheSize |-> None] /\ putPos = 1
    /\ held = [s \in Users |-> None]
    /\ reorgAt = 0 /\ newFile = << >> /\ newChain = 0
    /\ lastreorg = 0

-----------------------------------------------------------------------------
(* The places a chain leads to, in order.                                  *)
Walk(f, first) ==
    LET W[k \in 0 .. Len(f) + 1] ==
            IF k = 0 THEN <<first>>
            ELSE LET w == W[k - 1] IN
                 IF w[Len(w)] = 0 THEN w ELSE Append(w, f[w[Len(w)]].next)
        w == W[Len(f) + 1]
    IN SubSeq(w, 1, Len(w) - 1)

(* udrin, and the search of loaduser: the place of a callsign, or 0.       *)
Found(f, first, c) ==
    LET w == Walk(f, first)
        hits == {k \in DOMAIN w : f[w[k]].call = c}
    IN IF hits = {} THEN 0 ELSE w[CHOOSE k \in hits : \A j \in hits : k <= j]

CachedAt(c) == {i \in 1 .. CacheSize : usCache[i].call = c}

(* us_putcache.                                                            *)
PutCache(u, cache) ==
    LET same == {i \in 1 .. CacheSize : cache[i].call = u.call}
    IN IF same # {}
       THEN /\ usCache' = [cache EXCEPT ![CHOOSE i \in same : TRUE] = u]
            /\ UNCHANGED putPos
       ELSE /\ usCache' = [cache EXCEPT ![putPos] = u]
            /\ putPos' = (putPos % CacheSize) + 1

(* us_deletecache                                                          *)
EmptyCache == [i \in 1 .. CacheSize |-> None]

(* loaduser with a record in the cache: it comes with its old lastload.    *)
LoadCached(s, c) ==
    /\ CachedAt(c) # {}
    /\ held' = [held EXCEPT ![s] = usCache[CHOOSE i \in CachedAt(c) : TRUE]]
    /\ UNCHANGED <<now, userFile, chain, usCache, putPos, reorgAt, newFile,
                   newChain, lastreorg>>

(* loaduser with a record in the file.                                     *)
LoadFile(s, c) ==
    /\ CachedAt(c) = {}
    /\ Found(userFile, chain, c) # 0
    /\ LET p == Found(userFile, chain, c)
           u == [call |-> c, data |-> userFile[p].data, next |-> userFile[p].next,
                 pos |-> p, load |-> now]
       IN /\ held' = [held EXCEPT ![s] = u]
          /\ PutCache(u, usCache)
    /\ UNCHANGED <<now, userFile, chain, reorgAt, newFile, newChain, lastreorg>>

(* loaduser for a callsign without a record: newuser puts one in front of  *)
(* the chain; defaultuser empties the cache.                               *)
LoadNew(s, c) ==
    /\ CachedAt(c) = {}
    /\ Found(userFile, chain, c) = 0
    /\ LET u == [call |-> c, data |-> 0, next |-> chain,
                 pos |-> Len(userFile) + 1, load |-> now]
       IN /\ held' = [held EXCEPT ![s] = u]
          /\ userFile' = Append(userFile, [call |-> c, data |-> 0, next |-> chain])
          /\ chain' = Len(userFile) + 1
          /\ PutCache(u, EmptyCache)
    /\ UNCHANGED <<now, reorgAt, newFile, newChain, lastreorg>>

(* loaduser that must not create one: the copy is left without a place.    *)
LoadUnknown(s, c) ==
    /\ CachedAt(c) = {}
    /\ Found(userFile, chain, c) = 0
    /\ held[s].call # NoCall
    /\ held' = [held EXCEPT ![s] = [@ EXCEPT !.pos = 0]]
    /\ UNCHANGED <<now, userFile, chain, usCache, putPos, reorgAt, newFile,
                   newChain, lastreorg>>

(* saveuser: a copy from before the last reorganisation is not written.    *)
\* faulty: a copy loaded in the second of the reorganisation is taken for new
MaySaveToo(u) == u.pos # 0 /\ u.load >= lastreorg
MaySave(u) == u.pos # 0 /\ u.load > lastreorg

(* A session changes its copy and saves it.                                *)
Saveuser(s) ==
    /\ held[s].call # NoCall
    /\ held[s].data < MaxVersion
    /\ LET u == [held[s] EXCEPT !.data = @ + 1]
       IN /\ held' = [held EXCEPT ![s] = u]
          /\ IF MaySave(u)
             THEN /\ userFile' = [userFile EXCEPT ![u.pos] =
                        [call |-> u.call, data |-> u.data, next |-> u.next]]
                  /\ PutCache(u, usCache)
             ELSE UNCHANGED <<userFile, usCache, putPos>>
    /\ UNCHANGED <<now, chain, reorgAt, newFile, newChain, lastreorg>>

-----------------------------------------------------------------------------
(* reorguser up to its loop; defaultuser("DUMMY") empties the cache.       *)
ReorgStart ==
    /\ reorgAt = 0
    /\ reorgAt' = 1
    /\ newFile' = << >> /\ newChain' = 0
    /\ usCache' = EmptyCache
    /\ UNCHANGED <<now, userFile, chain, putPos, held, lastreorg>>

(* One round of the loop: a record is dropped (it has become too old, or   *)
(* it is wrong, or a double), or gets the next place in the new file.      *)
ReorgRecord ==
    /\ reorgAt # 0 /\ reorgAt <= Len(userFile)
    /\ LET c == userFile[reorgAt].call
       IN \/ UNCHANGED <<newFile, newChain>>
          \/ /\ Found(newFile, newChain, c) = 0
             /\ newFile' = Append(newFile, [call |-> c, next |-> newChain,
                                            data |-> userFile[reorgAt].data])
             /\ newChain' = Len(newFile) + 1
    /\ reorgAt' = reorgAt + 1
    /\ UNCHANGED <<now, userFile, chain, usCache, putPos, held, lastreorg>>

(* The end of the file: the new files take the place of the old ones.      *)
ReorgEnd ==
    /\ reorgAt # 0 /\ reorgAt > Len(userFile)
    /\ userFile' = newFile /\ chain' = newChain
    /\ usCache' = EmptyCache
    /\ lastreorg' = now
    /\ reorgAt' = 0
    /\ UNCHANGED <<now, putPos, held, newFile, newChain>>

(* The task of the reorganisation is killed.                               *)
ReorgKilled ==
    /\ reorgAt # 0
    /\ reorgAt' = 0
    /\ UNCHANGED <<now, userFile, chain, usCache, putPos, held, newFile, newChain,
                   lastreorg>>

Second ==
    /\ now < MaxNow
    /\ now' = now + 1
    /\ UNCHANGED <<userFile, chain, usCache, putPos, held, reorgAt, newFile,
                   newChain, lastreorg>>

UserNext ==
    \/ \E s \in Users, c \in Calls :
          LoadCached(s, c) \/ LoadFile(s, c) \/ LoadNew(s, c) \/ LoadUnknown(s, c)
    \/ \E s \in Users : Saveuser(s)
    \/ ReorgStart \/ ReorgRecord \/ ReorgEnd \/ ReorgKilled
    \/ Second

UserSpec == UserInit /\ [][UserNext]_uvars

-----------------------------------------------------------------------------
(* However saves, new users and a reorganisation interleave, every record  *)
(* is reached by its chain exactly once and no callsign has two: a save    *)
(* has never hit the place of another user.  And what the cache answers    *)
(* is the record of the file.  (loaduser, saveuser, reorguser)             *)
UsersFound ==
    /\ \A p \in DOMAIN userFile : Found(userFile, chain, userFile[p].call) = p
    /\ Len(Walk(userFile, chain)) = Len(userFile)
    /\ \A i \in 1 .. CacheSize :
          LET u == usCache[i]
          IN u.call # NoCall =>
                /\ u.pos \in DOMAIN userFile
                /\ userFile[u.pos] =
                     [call |-> u.call, data |-> u.data, next |-> u.next]
=============================================================================
