------------------------ MODULE IdentityCacheProofs ------------------------
(***************************************************************************)
(* Proofs about IdentityCache: StampsBacked is an invariant, and with it   *)
(* every identity that identify returns is fresh, for every number of      *)
(* addresses, peers and overlapping calls and every TTL and latency.       *)
(***************************************************************************)
EXTENDS IdentityCache, TLAPS

LEMMA WindowType == Window \in Nat /\ MaxLatency < Window /\ TTL =< Window
BY TimeAssumption DEF Window

(* An age that grows by a tick stays in range, and grows by one at most. *)
LEMMA OlderType ==
  ASSUME NEW limit \in Nat, NEW age \in 0 .. limit
  PROVE  /\ Older(age, limit) \in 0 .. limit
         /\ Older(age, limit) =< age + 1
         /\ Older(age, limit) = age + 1 \/ (age = limit /\ Older(age, limit) = limit)
BY DEF Older

LEMMA InitStamps == Init => StampsBacked
<1> SUFFICES ASSUME Init PROVE StampsBacked
  OBVIOUS
<1>1. TypeOK
  BY WindowType, TimeAssumption
  DEF Init, TypeOK, Ages, Entries, Miss, Stages, Final, Refused, Waiting
<1>2. NetmapIsNow
  BY <1>1 DEF Init, NetmapIsNow
<1>3. OnlyTailnetAsked /\ AnswersBacked
  BY DEF Init, OnlyTailnetAsked, AnswersBacked, Waiting
<1>4. CacheBacked
  BY DEF Init, CacheBacked, Miss
<1> QED
  BY <1>1, <1>2, <1>3, <1>4 DEF StampsBacked

-----------------------------------------------------------------------------
(* The first part of identify: it reads the cache and stores nothing.       *)
LEMMA BeginStamps ==
  ASSUME StampsBacked, NEW r \in Reqs, NEW a \in Addrs, Begin(r, a)
  PROVE  StampsBacked'
<1>1. /\ UNCHANGED <<Tailscaled, cache, held>>
      /\ ip' = [ip EXCEPT ![r] = a]
  BY DEF Begin, FromLoopback, FromElsewhere, Hit, Ask, Call
<1>2. PICK verdict \in Stages, id \in Peers \cup {NoPeer, DevPeer} :
        /\ Decide(r, verdict, id)
        /\ verdict # "answered"
        /\ verdict \in Waiting => a \in Tailnet
  <2>1. CASE FromLoopback(r, a) \/ FromElsewhere(r, a)
    BY <2>1 DEF FromLoopback, FromElsewhere, Stages, Final, Refused, Waiting
  <2>2. CASE Hit(r, a)
    BY <2>2 DEF Hit, StampsBacked, TypeOK, Entries, Stages, Final, Refused, Waiting
  <2>3. CASE Ask(r, a)
    BY <2>3 DEF Ask, FirstSource, Stages, Final, Refused, Waiting
  <2> QED
    BY <2>1, <2>2, <2>3 DEF Begin
<1>3. TypeOK'
  BY <1>1, <1>2 DEF StampsBacked, TypeOK, Decide, Tailscaled
<1>4. OnlyTailnetAsked'
  BY <1>1, <1>2 DEF StampsBacked, TypeOK, OnlyTailnetAsked, Decide, Waiting
<1>5. AnswersBacked'
  BY <1>1, <1>2 DEF StampsBacked, TypeOK, AnswersBacked, Decide, Tailscaled
<1> QED
  BY <1>1, <1>3, <1>4, <1>5
  DEF StampsBacked, NetmapIsNow, CacheBacked, Tailscaled

(* An answer is tailscaled's present truth. *)
LEMMA AnswerStamps ==
  ASSUME StampsBacked, NEW r \in Reqs, Answer(r)
  PROVE  StampsBacked'
<1>1. TypeOK /\ NetmapIsNow /\ OnlyTailnetAsked /\ AnswersBacked
  BY DEF StampsBacked
<1>2. netmap[ip[r]] \in Peers /\ ip[r] \in Tailnet
  BY <1>1 DEF Answer, TypeOK, OnlyTailnetAsked
<1>3. TypeOK'
  BY <1>1, <1>2, TimeAssumption
  DEF Answer, TypeOK, Decide, Tailscaled, Stages
<1>4. OnlyTailnetAsked'
  BY <1>1, <1>2 DEF Answer, TypeOK, OnlyTailnetAsked, Decide
<1>5. AnswersBacked'
  BY <1>1, <1>2 DEF Answer, TypeOK, NetmapIsNow, AnswersBacked, Decide, Tailscaled
<1> QED
  BY <1>3, <1>4, <1>5
  DEF StampsBacked, NetmapIsNow, CacheBacked, Answer, Tailscaled

(* A call that moves on without an answer holds no identity. *)
LEMMA GiveUpStamps ==
  ASSUME StampsBacked, NEW r \in Reqs, ApiFails(r) \/ CliFails(r) \/ Leave(r)
  PROVE  StampsBacked'
<1>1. PICK verdict \in Stages :
        /\ Decide(r, verdict, NoPeer)
        /\ verdict # "answered"
        /\ verdict \in Waiting => stage[r] \in Waiting
  BY DEF ApiFails, CliFails, Leave, AfterApi, Stages, Final, Refused, Waiting
<1>2. /\ UNCHANGED <<Tailscaled, cache, ip>>
      /\ held' \in [Reqs -> 0 .. MaxLatency]
      /\ \A q \in Reqs : q # r => held'[q] = held[q]
  BY TimeAssumption DEF ApiFails, CliFails, Leave, StampsBacked, TypeOK
<1>3. TypeOK'
  BY <1>1, <1>2 DEF StampsBacked, TypeOK, Decide, Tailscaled
<1>4. OnlyTailnetAsked'
  BY <1>1, <1>2 DEF StampsBacked, TypeOK, OnlyTailnetAsked, Decide, Waiting
<1>5. AnswersBacked'
  BY <1>1, <1>2 DEF StampsBacked, TypeOK, AnswersBacked, Decide, Tailscaled
<1> QED
  BY <1>2, <1>3, <1>4, <1>5
  DEF StampsBacked, NetmapIsNow, CacheBacked, Tailscaled

(* The insert: what it stamps with age 0 is at most MaxLatency old. *)
LEMMA StoreStamps ==
  ASSUME StampsBacked, NEW r \in Reqs, Store(r)
  PROVE  StampsBacked'
<1>1. TypeOK /\ OnlyTailnetAsked /\ AnswersBacked /\ CacheBacked
  BY DEF StampsBacked
<1>2. /\ who[r] \in Peers
      /\ ip[r] \in Tailnet
      /\ since[ip[r]][who[r]] =< held[r]
  BY <1>1 DEF Store, OnlyTailnetAsked, AnswersBacked
<1>3. TypeOK'
  BY <1>1, <1>2, TimeAssumption
  DEF Store, Inserted, TypeOK, Entries, Tailscaled, Stages, Final
<1>4. OnlyTailnetAsked' /\ AnswersBacked'
  BY <1>1 DEF Store, TypeOK, OnlyTailnetAsked, AnswersBacked, Waiting, Tailscaled
<1>5. CacheBacked'
  <2> SUFFICES ASSUME NEW a \in Addrs, cache'[a].id # NoPeer
               PROVE  a \in Tailnet /\ since'[a][cache'[a].id] =< cache'[a].age + MaxLatency
    BY DEF CacheBacked
  <2>1. CASE a = ip[r]
    <3>1. cache'[a] = [age |-> 0, id |-> who[r]]
      BY <2>1, <1>1 DEF Store, Inserted, TypeOK
    <3>2. held[r] \in 0 .. MaxLatency /\ since[a][who[r]] \in Ages
      BY <1>1, <1>2 DEF TypeOK
    <3> QED
      BY <2>1, <3>1, <3>2, <1>2, WindowType, TimeAssumption DEF Store, Tailscaled, Ages
  <2>2. CASE a # ip[r]
    BY <2>2, <1>1 DEF Store, CacheBacked, TypeOK, Tailscaled
  <2> QED
    BY <2>1, <2>2
<1> QED
  BY <1>3, <1>4, <1>5 DEF StampsBacked, NetmapIsNow, Store, Tailscaled

(* The tailnet changes: what is true now has age 0, and no age grows. *)
LEMMA ReassignStamps ==
  ASSUME StampsBacked, NEW a \in Tailnet, NEW p \in Peers \cup {NoPeer}, Reassign(a, p)
  PROVE  StampsBacked'
<1>1. TypeOK /\ NetmapIsNow /\ OnlyTailnetAsked /\ AnswersBacked /\ CacheBacked
  BY DEF StampsBacked
<1>2. a \in Addrs
  BY AddrsAssumption
<1>3. TypeOK'
  BY <1>1, <1>2, WindowType DEF Reassign, TypeOK, Ages
<1>4. \A b \in Addrs : \A q \in Peers : since'[b][q] =< since[b][q]
  BY <1>1, <1>2, WindowType DEF Reassign, TypeOK, Ages
<1>5. NetmapIsNow'
  BY <1>1, <1>2 DEF Reassign, TypeOK, NetmapIsNow
<1>6. OnlyTailnetAsked'
  BY <1>1 DEF Reassign, OnlyTailnetAsked
<1>7. AnswersBacked'
  <2> SUFFICES ASSUME NEW r \in Reqs, stage[r] = "answered"
               PROVE  who[r] \in Peers /\ since'[ip[r]][who[r]] =< held[r]
    BY DEF AnswersBacked, Reassign
  <2>1. /\ who[r] \in Peers /\ ip[r] \in Addrs
        /\ since[ip[r]][who[r]] =< held[r]
    BY <1>1 DEF AnswersBacked, TypeOK
  <2>2. /\ since'[ip[r]][who[r]] \in Ages /\ since[ip[r]][who[r]] \in Ages
        /\ held[r] \in 0 .. MaxLatency
    BY <1>1, <1>3, <2>1 DEF TypeOK
  <2>3. since'[ip[r]][who[r]] =< since[ip[r]][who[r]]
    BY <1>4, <2>1
  <2> QED
    BY <2>1, <2>2, <2>3, TimeAssumption, WindowType DEF Ages
<1>8. CacheBacked'
  <2> SUFFICES ASSUME NEW b \in Addrs, cache[b].id # NoPeer
               PROVE  b \in Tailnet /\ since'[b][cache[b].id] =< cache[b].age + MaxLatency
    BY DEF CacheBacked, Reassign
  <2>1. /\ cache[b].id \in Peers /\ b \in Tailnet /\ cache[b].age \in 0 .. TTL
        /\ since[b][cache[b].id] =< cache[b].age + MaxLatency
    BY <1>1 DEF CacheBacked, TypeOK, Entries
  <2>2. since'[b][cache[b].id] \in Ages /\ since[b][cache[b].id] \in Ages
    BY <1>1, <1>3, <2>1 DEF TypeOK
  <2>3. since'[b][cache[b].id] =< since[b][cache[b].id]
    BY <1>4, <2>1
  <2> QED
    BY <2>1, <2>2, <2>3, TimeAssumption, WindowType DEF Ages
<1> QED
  BY <1>3, <1>5, <1>6, <1>7, <1>8 DEF StampsBacked

(* A tick ages the history by one at most, and every answer and entry with *)
(* it; an entry that has stopped ageing has reached CACHE_TTL, where the   *)
(* history stops as well.                                                  *)
LEMMA TickStamps ==
  ASSUME StampsBacked, Tick
  PROVE  StampsBacked'
<1>1. TypeOK /\ NetmapIsNow /\ OnlyTailnetAsked /\ AnswersBacked /\ CacheBacked
  BY DEF StampsBacked
<1>2. \A a \in Addrs : \A p \in Peers :
        /\ since[a][p] \in 0 .. Window
        /\ since'[a][p] = IF netmap[a] = p THEN 0 ELSE Older(since[a][p], Window)
  BY <1>1 DEF Tick, TypeOK, Ages
<1>3. \A a \in Addrs : \A p \in Peers :
        since'[a][p] \in 0 .. Window /\ since'[a][p] =< since[a][p] + 1
  <2> SUFFICES ASSUME NEW a \in Addrs, NEW p \in Peers
               PROVE  since'[a][p] \in 0 .. Window /\ since'[a][p] =< since[a][p] + 1
    OBVIOUS
  <2>1. since[a][p] \in 0 .. Window
    BY <1>2
  <2>2. /\ Older(since[a][p], Window) \in 0 .. Window
        /\ Older(since[a][p], Window) =< since[a][p] + 1
    BY <2>1, OlderType, WindowType
  <2>3. since'[a][p] = 0 \/ since'[a][p] = Older(since[a][p], Window)
    BY <1>2
  <2> QED
    BY <2>1, <2>2, <2>3, WindowType
<1>4. \A a \in Addrs :
        /\ cache'[a].id = cache[a].id
        /\ cache[a].age \in 0 .. TTL /\ cache'[a].age \in 0 .. TTL
        /\ cache'[a].age = cache[a].age + 1 \/ cache'[a].age = TTL
        /\ cache'[a] \in Entries
  <2> SUFFICES ASSUME NEW a \in Addrs
               PROVE  /\ cache'[a].id = cache[a].id
                      /\ cache[a].age \in 0 .. TTL /\ cache'[a].age \in 0 .. TTL
                      /\ cache'[a].age = cache[a].age + 1 \/ cache'[a].age = TTL
                      /\ cache'[a] \in Entries
    OBVIOUS
  <2>1. cache[a] \in Entries /\ cache'[a] = [cache[a] EXCEPT !.age = Older(cache[a].age, TTL)]
    BY <1>1 DEF TypeOK, Tick
  <2>2. cache[a].age \in 0 .. TTL
    BY <2>1 DEF Entries
  <2>3. /\ Older(cache[a].age, TTL) \in 0 .. TTL
        /\ Older(cache[a].age, TTL) = cache[a].age + 1 \/ Older(cache[a].age, TTL) = TTL
    BY <2>2, OlderType, TimeAssumption
  <2> QED
    BY <2>1, <2>2, <2>3 DEF Entries
<1>5. \A r \in Reqs :
        /\ held[r] \in 0 .. MaxLatency /\ held'[r] \in 0 .. MaxLatency
        /\ stage[r] = "answered" => held'[r] = held[r] + 1
  BY <1>1, TimeAssumption DEF TypeOK, Tick, Delivered
<1>6. TypeOK'
  <2>1. since' \in [Addrs -> [Peers -> Ages]]
    BY <1>3 DEF Tick, Ages
  <2>2. cache' \in [Addrs -> Entries]
    BY <1>4 DEF Tick
  <2>3. held' \in [Reqs -> 0 .. MaxLatency]
    BY <1>5 DEF Tick
  <2> QED
    BY <1>1, <2>1, <2>2, <2>3 DEF TypeOK, Tick
<1>7. NetmapIsNow'
  BY <1>1, <1>2 DEF NetmapIsNow, Tick
<1>8. OnlyTailnetAsked'
  BY <1>1 DEF OnlyTailnetAsked, Tick
<1>9. AnswersBacked'
  <2> SUFFICES ASSUME NEW r \in Reqs, stage[r] = "answered"
               PROVE  who[r] \in Peers /\ since'[ip[r]][who[r]] =< held'[r]
    BY DEF AnswersBacked, Tick
  <2>1. /\ who[r] \in Peers /\ ip[r] \in Addrs
        /\ since[ip[r]][who[r]] =< held[r]
    BY <1>1 DEF AnswersBacked, TypeOK
  <2>2. held'[r] = held[r] + 1 /\ held[r] \in Nat
    BY <1>5, TimeAssumption
  <2>3. /\ since'[ip[r]][who[r]] =< since[ip[r]][who[r]] + 1
        /\ since[ip[r]][who[r]] \in Nat /\ since'[ip[r]][who[r]] \in Nat
    BY <1>2, <1>3, <2>1, WindowType
  <2> QED
    BY <2>1, <2>2, <2>3
<1>10. CacheBacked'
  <2> SUFFICES ASSUME NEW a \in Addrs, cache'[a].id # NoPeer
               PROVE  a \in Tailnet /\ since'[a][cache'[a].id] =< cache'[a].age + MaxLatency
    BY DEF CacheBacked
  <2>1. /\ cache'[a].id = cache[a].id /\ cache[a].id \in Peers /\ a \in Tailnet
        /\ since[a][cache[a].id] =< cache[a].age + MaxLatency
    BY <1>1, <1>4 DEF CacheBacked, TypeOK, Entries
  <2>2. /\ since'[a][cache[a].id] \in 0 .. Window /\ since[a][cache[a].id] \in 0 .. Window
        /\ since'[a][cache[a].id] =< since[a][cache[a].id] + 1
    BY <1>2, <1>3, <2>1
  <2>3. /\ cache[a].age \in 0 .. TTL
        /\ cache'[a].age = cache[a].age + 1 \/ cache'[a].age = TTL
    BY <1>4
  <2> QED
    BY <2>1, <2>2, <2>3, TimeAssumption, WindowType DEF Window
<1> QED
  BY <1>6, <1>7, <1>8, <1>9, <1>10 DEF StampsBacked

LEMMA StutterStamps == StampsBacked /\ UNCHANGED vars => StampsBacked'
BY DEF StampsBacked, TypeOK, NetmapIsNow, OnlyTailnetAsked, AnswersBacked, CacheBacked, vars

-----------------------------------------------------------------------------
LEMMA NextStamps == StampsBacked /\ [Next]_vars => StampsBacked'
<1> SUFFICES ASSUME StampsBacked, [Next]_vars PROVE StampsBacked'
  OBVIOUS
<1>1. ASSUME NEW r \in Reqs, NEW a \in Addrs, Begin(r, a) PROVE StampsBacked'
  BY <1>1, BeginStamps
<1>2. ASSUME NEW r \in Reqs, Continue(r) PROVE StampsBacked'
  <2>1. CASE Answer(r)
    BY <2>1, AnswerStamps
  <2>2. CASE ApiFails(r) \/ CliFails(r) \/ Leave(r)
    BY <2>2, GiveUpStamps
  <2>3. CASE Store(r)
    BY <2>3, StoreStamps
  <2> QED
    BY <1>2, <2>1, <2>2, <2>3 DEF Continue
<1>3. ASSUME NEW a \in Tailnet, NEW p \in Peers \cup {NoPeer}, Reassign(a, p)
      PROVE StampsBacked'
  BY <1>3, ReassignStamps
<1>4. CASE Tick
  BY <1>4, TickStamps
<1>5. CASE UNCHANGED vars
  BY <1>5, StutterStamps
<1> QED
  BY <1>1, <1>2, <1>3, <1>4, <1>5 DEF Next

(* In every reachable state of the daemon's identity cache, every stored   *)
(* or travelling identity is backed by what its address was, no longer ago *)
(* than its stamp and one delivery allow (auth.rs, identify).              *)
THEOREM StampsAlwaysBacked == Spec => []StampsBacked
<1>1. Init => StampsBacked
  BY InitStamps
<1>2. StampsBacked /\ [Next]_vars => StampsBacked'
  BY NextStamps
<1> QED
  BY <1>1, <1>2, PTL DEF Spec

(* The step in which identify returns an identity: from the cache, from    *)
(* loopback, or with the insert of a fresh answer.                         *)
LEMMA IdentifiedIsKnown ==
  ASSUME StampsBacked, [Next]_vars,
         NEW r \in Reqs, stage[r] # "identified", stage'[r] = "identified"
  PROVE  Known(ip[r], who[r])'
<1>1. TypeOK /\ OnlyTailnetAsked /\ AnswersBacked /\ CacheBacked
  BY DEF StampsBacked
<1>2. ASSUME NEW q \in Reqs, NEW a \in Addrs, Begin(q, a) PROVE Known(ip[r], who[r])'
  <2>1. q = r /\ ip'[r] = a /\ UNCHANGED <<since, cache>>
    BY <1>1, <1>2
    DEF Begin, FromLoopback, FromElsewhere, Hit, Ask, Call, Decide, TypeOK, Tailscaled
  <2>2. CASE FromLoopback(r, a)
    BY <1>1, <2>1, <2>2 DEF FromLoopback, Decide, Known, TypeOK
  <2>3. CASE FromElsewhere(r, a) \/ Ask(r, a)
    BY <1>1, <2>1, <2>3 DEF FromElsewhere, Ask, Decide, FirstSource, TypeOK
  <2>4. CASE Hit(r, a)
    <3>1. /\ cache[a].id \in Peers /\ a \in Tailnet
          /\ cache[a].age \in Nat /\ cache[a].age < TTL
          /\ since[a][cache[a].id] =< cache[a].age + MaxLatency
      BY <1>1, <2>4, TimeAssumption DEF Hit, Fresh, CacheBacked, TypeOK, Entries
    <3>2. since[a][cache[a].id] \in 0 .. Window
      BY <1>1, <3>1 DEF TypeOK, Ages
    <3>3. since[a][cache[a].id] < Window
      BY <3>1, <3>2, TimeAssumption, WindowType DEF Window
    <3>4. who'[r] = cache[a].id
      BY <1>1, <2>4 DEF Hit, Decide, TypeOK
    <3> QED
      BY <2>1, <3>1, <3>3, <3>4 DEF Known
  <2> QED
    BY <1>2, <2>1, <2>2, <2>3, <2>4 DEF Begin
<1>3. ASSUME NEW q \in Reqs, Continue(q) PROVE Known(ip[r], who[r])'
  <2>1. CASE Answer(q) \/ ApiFails(q) \/ CliFails(q) \/ Leave(q)
    BY <1>1, <2>1 DEF Answer, ApiFails, CliFails, Leave, Decide, AfterApi, Refused, TypeOK
  <2>2. CASE Store(q)
    <3>1. q = r /\ UNCHANGED <<since, ip, who>>
      BY <1>1, <2>2 DEF Store, TypeOK, Tailscaled
    <3>2. /\ who[r] \in Peers /\ ip[r] \in Tailnet /\ ip[r] \in Addrs
          /\ since[ip[r]][who[r]] =< held[r] /\ held[r] \in 0 .. MaxLatency
      BY <1>1, <2>2, <3>1 DEF Store, OnlyTailnetAsked, AnswersBacked, TypeOK
    <3>3. since[ip[r]][who[r]] \in 0 .. Window
      BY <1>1, <3>2 DEF TypeOK, Ages
    <3>4. since[ip[r]][who[r]] < Window
      BY <3>2, <3>3, TimeAssumption, WindowType
    <3> QED
      BY <3>1, <3>2, <3>4 DEF Known
  <2> QED
    BY <1>3, <2>1, <2>2 DEF Continue
<1>4. CASE (\E a \in Tailnet : \E p \in Peers \cup {NoPeer} : Reassign(a, p)) \/ Tick
  BY <1>4 DEF Reassign, Tick
<1>5. CASE UNCHANGED vars
  BY <1>5 DEF vars
<1> QED
  BY <1>2, <1>3, <1>4, <1>5 DEF Next

(* For every number of peers, addresses and overlapping lookups: identify  *)
(* returns an identity only if the address had it less than CACHE_TTL plus *)
(* one delivery ago (auth.rs, identify).                                   *)
THEOREM IdentitiesAreFresh == Spec => FreshIdentity
<1>1. StampsBacked /\ [Next]_vars =>
        [\A r \in Reqs : (stage[r] # "identified" /\ stage'[r] = "identified")
                           => Known(ip[r], who[r])']_vars
  BY IdentifiedIsKnown
<1> QED
  BY <1>1, StampsAlwaysBacked, PTL DEF Spec, FreshIdentity
=============================================================================
