--------------------------- MODULE IdentityCache ---------------------------
(***************************************************************************)
(* Who is behind a connection: Auth::identify and its cache                *)
(* (src/src/server/auth.rs), the whois call below it                       *)
(* (src/src/tailscale.rs), and the tailnet they ask about.                 *)
(*                                                                         *)
(* identify holds the cache lock only to look and only to insert.  The     *)
(* whois call between the two is awaited without it and without a time     *)
(* limit, so any number of lookups of one address may be in flight, their  *)
(* answers may be delivered out of order, and the stamp of a cache entry   *)
(* is the moment of the insert and not the moment the answer was true.     *)
(*                                                                         *)
(* Time is kept as ages, which is what Instant::elapsed returns.  An age   *)
(* stops growing at the largest value any guard or property tells apart.   *)
(***************************************************************************)
EXTENDS Naturals

CONSTANTS
  Addrs,        \* addresses connections come from
  Tailnet,      \* those for which is_tailscale_ip holds
  Loopback,     \* 127.0.0.1 and ::1
  Peers,        \* the identities whois can answer
  NoPeer,       \* an address the tailnet has no node for
  DevPeer,      \* the identity of a --dev-loopback connection
  DevLoopback,  \* the --dev-loopback switch
  HasApi,       \* a LocalAPI endpoint was detected at start
  HasCli,       \* a tailscale CLI was found at start
  TTL,          \* CACHE_TTL in ticks
  MaxLatency,   \* ticks an answer may take from tailscaled to the cache
  Reqs          \* the calls of identify that may be in flight

ASSUME AddrsAssumption ==
  /\ Tailnet \subseteq Addrs
  /\ Loopback \subseteq Addrs
  /\ Tailnet \cap Loopback = {}

ASSUME PeersAssumption ==
  /\ NoPeer \notin Peers
  /\ DevPeer \notin Peers
  /\ DevPeer # NoPeer

ASSUME TimeAssumption ==
  /\ TTL \in Nat \ {0}
  /\ MaxLatency \in Nat

ASSUME SwitchAssumption == {DevLoopback, HasApi, HasCli} \subseteq BOOLEAN

VARIABLES
  netmap,  \* what tailscaled knows: the node at each address
  since,   \* history: age of the last moment the address had that peer
  cache,   \* Auth.cache: per address, the entry or the lack of one
  stage,   \* where each call of identify is
  ip,      \* its argument
  who,     \* the identity it holds or has returned
  held     \* age of an answer that has left tailscaled and is not yet stored

vars == <<netmap, since, cache, stage, ip, who, held>>

-----------------------------------------------------------------------------
(* The staleness an identity can reach: it waits for at most MaxLatency and *)
(* is then served from the cache while its age is below TTL.                *)
Window == TTL + MaxLatency

Older(age, limit) == IF age < limit THEN age + 1 ELSE limit

Ages    == 0 .. Window
Entries == [age : 0 .. TTL, id : Peers \cup {NoPeer}]
Miss    == [age |-> TTL, id |-> NoPeer]

Waiting == {"api", "cli"}
Refused == {"unauthorized", "backend"}
Final   == {"identified"} \cup Refused
Stages  == {"idle", "answered"} \cup Waiting \cup Final

TypeOK ==
  /\ netmap \in [Addrs -> Peers \cup {NoPeer}]
  /\ since \in [Addrs -> [Peers -> Ages]]
  /\ cache \in [Addrs -> Entries]
  /\ stage \in [Reqs -> Stages]
  /\ ip \in [Reqs -> Addrs]
  /\ who \in [Reqs -> Peers \cup {NoPeer, DevPeer}]
  /\ held \in [Reqs -> 0 .. MaxLatency]

Init ==
  /\ netmap \in [Addrs -> Peers \cup {NoPeer}]
  /\ \A a \in Addrs \ Tailnet : netmap[a] = NoPeer
  /\ since = [a \in Addrs |-> [p \in Peers |-> IF netmap[a] = p THEN 0 ELSE Window]]
  /\ cache = [a \in Addrs |-> Miss]
  /\ stage = [r \in Reqs |-> "idle"]
  /\ ip \in [Reqs -> Addrs]
  /\ who = [r \in Reqs |-> NoPeer]
  /\ held = [r \in Reqs |-> 0]

Tailscaled == <<netmap, since>>

-----------------------------------------------------------------------------
(* identify, up to its first await.                                         *)

(* at.elapsed() < CACHE_TTL for an entry that is there. *)
FreshUpToTtl(a) == cache[a].id # NoPeer /\ cache[a].age =< TTL  \* mutant: off by one
Fresh(a) == cache[a].id # NoPeer /\ cache[a].age < TTL

(* The source a whois call turns to first; with none it is refused. *)
FirstSource  == IF HasApi THEN "api" ELSE IF HasCli THEN "cli" ELSE "unauthorized"
AfterApi     == IF HasCli THEN "cli" ELSE "unauthorized"

Call(r, a) == stage[r] = "idle" /\ ip' = [ip EXCEPT ![r] = a]

Decide(r, verdict, id) ==
  /\ stage' = [stage EXCEPT ![r] = verdict]
  /\ who' = [who EXCEPT ![r] = id]

FromLoopback(r, a) ==
  /\ Call(r, a)
  /\ a \in Loopback
  /\ IF DevLoopback THEN Decide(r, "identified", DevPeer)
                    ELSE Decide(r, "unauthorized", NoPeer)
  /\ UNCHANGED <<Tailscaled, cache, held>>

FromElsewhere(r, a) ==
  /\ Call(r, a)
  /\ a \notin Loopback \cup Tailnet
  /\ Decide(r, "unauthorized", NoPeer)
  /\ UNCHANGED <<Tailscaled, cache, held>>

Hit(r, a) ==
  /\ Call(r, a)
  /\ a \in Tailnet
  /\ Fresh(a)
  /\ Decide(r, "identified", cache[a].id)
  /\ UNCHANGED <<Tailscaled, cache, held>>

Ask(r, a) ==
  /\ Call(r, a)
  /\ a \in Tailnet
  /\ ~Fresh(a)
  /\ Decide(r, FirstSource, NoPeer)
  /\ UNCHANGED <<Tailscaled, cache, held>>

-----------------------------------------------------------------------------
(* whois.  tailscaled answers from its network map as it is at that moment; *)
(* the answer then travels back and waits for the task to be scheduled.     *)

Answer(r) ==
  /\ stage[r] \in Waiting
  /\ netmap[ip[r]] # NoPeer
  /\ Decide(r, "answered", netmap[ip[r]])
  /\ held' = [held EXCEPT ![r] = 0]
  /\ UNCHANGED <<Tailscaled, cache, ip>>

(* Any LocalAPI error, an unknown peer included, falls back to the CLI. *)
ApiFails(r) ==
  /\ stage[r] = "api"
  /\ Decide(r, AfterApi, NoPeer)
  /\ UNCHANGED <<Tailscaled, cache, ip, held>>

(* A failure exit is a refusal; a CLI that cannot be run, or prints what is *)
(* not JSON, is a backend error.                                            *)
CliFails(r) ==
  /\ stage[r] = "cli"
  /\ \E verdict \in Refused : Decide(r, verdict, NoPeer)
  /\ UNCHANGED <<Tailscaled, cache, ip, held>>

(* The rest of identify: the insert stamps the entry now, whatever the     *)
(* entry there already is.                                                 *)
InsertedTouch(a, id) ==  \* mutant: an entry that is there is kept and renewed
  [age |-> 0, id |-> IF cache[a].id = NoPeer THEN id ELSE cache[a].id]
Inserted(a, id) == [age |-> 0, id |-> id]

Store(r) ==
  /\ stage[r] = "answered"
  /\ stage' = [stage EXCEPT ![r] = "identified"]
  /\ cache' = [cache EXCEPT ![ip[r]] = Inserted(ip[r], who[r])]
  /\ UNCHANGED <<Tailscaled, ip, who, held>>

(* The request is over, or its client left: the handler is dropped at an   *)
(* await, whatever it was waiting for.                                     *)
Leave(r) ==
  /\ stage[r] # "idle"
  /\ Decide(r, "idle", NoPeer)
  /\ held' = [held EXCEPT ![r] = 0]
  /\ UNCHANGED <<Tailscaled, cache, ip>>

-----------------------------------------------------------------------------
(* The tailnet: a node is added, removed, renamed, retagged, or its address *)
(* given to another.                                                        *)
Reassign(a, p) ==
  /\ netmap[a] # p
  /\ netmap' = [netmap EXCEPT ![a] = p]
  /\ since' = [since EXCEPT ![a] = [q \in Peers |-> IF q = p THEN 0 ELSE since[a][q]]]
  /\ UNCHANGED <<cache, stage, ip, who, held>>

(* Time passes.  An answer is delivered within MaxLatency: this is an      *)
(* assumption on the host, the code has no limit of its own.               *)
Delivered == \A r \in Reqs : stage[r] = "answered" => held[r] < MaxLatency

Tick ==
  /\ Delivered
  /\ since' = [a \in Addrs |-> [p \in Peers |->
                 IF netmap[a] = p THEN 0 ELSE Older(since[a][p], Window)]]
  /\ cache' = [a \in Addrs |-> [cache[a] EXCEPT !.age = Older(cache[a].age, TTL)]]
  /\ held' = [r \in Reqs |-> IF stage[r] = "answered" THEN held[r] + 1 ELSE held[r]]
  /\ UNCHANGED <<netmap, stage, ip, who>>

-----------------------------------------------------------------------------
Begin(r, a) == FromLoopback(r, a) \/ FromElsewhere(r, a) \/ Hit(r, a) \/ Ask(r, a)

Continue(r) == Answer(r) \/ ApiFails(r) \/ CliFails(r) \/ Store(r) \/ Leave(r)

Next ==
  \/ \E r \in Reqs : \E a \in Addrs : Begin(r, a)
  \/ \E r \in Reqs : Continue(r)
  \/ \E a \in Tailnet : \E p \in Peers \cup {NoPeer} : Reassign(a, p)
  \/ Tick

Spec == Init /\ [][Next]_vars

-----------------------------------------------------------------------------
(* The inductive invariant.  The peer tailscaled knows is true now; an     *)
(* answer on its way is no older than the time it has been held; a cache   *)
(* entry was at most MaxLatency old when it was stamped.                   *)
NetmapIsNow == \A a \in Addrs : \A p \in Peers : netmap[a] = p => since[a][p] = 0

OnlyTailnetAsked ==
  \A r \in Reqs : stage[r] \in Waiting \cup {"answered"} => ip[r] \in Tailnet

AnswersBacked ==
  \A r \in Reqs : stage[r] = "answered" =>
    who[r] \in Peers /\ since[ip[r]][who[r]] =< held[r]

CacheBacked ==
  \A a \in Addrs : cache[a].id # NoPeer =>
    a \in Tailnet /\ since[a][cache[a].id] =< cache[a].age + MaxLatency

(* Every identity that is stored or on its way belonged to its address no  *)
(* longer ago than its stamp and one delivery account for, in whatever     *)
(* order the answers of overlapping lookups were inserted (auth.rs,        *)
(* identify: the two critical sections and the await between them).        *)
StampsBacked ==
  TypeOK /\ NetmapIsNow /\ OnlyTailnetAsked /\ AnswersBacked /\ CacheBacked

-----------------------------------------------------------------------------
(* What an identified request may be taken for: the peer its own address   *)
(* belonged to less than Window ago, or the developer on loopback.         *)
Known(a, id) ==
  \/ a \in Tailnet /\ id \in Peers /\ since[a][id] < Window
  \/ a \in Loopback /\ DevLoopback /\ id = DevPeer

(* However lookups overlap, fail, fall back and overwrite each other's     *)
(* entries while the tailnet changes, identify returns an identity only if *)
(* that very address belonged to it less than CACHE_TTL plus one delivery  *)
(* ago: a node that was removed, retagged or whose address was handed on   *)
(* loses its old identity within that time (auth.rs, identify).            *)
FreshIdentity ==
  [][\A r \in Reqs : (stage[r] # "identified" /\ stage'[r] = "identified")
                       => Known(ip[r], who[r])']_vars
=============================================================================
