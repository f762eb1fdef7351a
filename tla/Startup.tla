------------------------------ MODULE Startup ------------------------------
(***************************************************************************)
(* `rdc serve` from its start to its listener: reading the config          *)
(* (src/src/main.rs, config.rs), choosing and gating the bind address,     *)
(* collecting the host names it answers to (src/src/server/mod.rs,         *)
(* tailscale.rs) and check_host (src/src/server/auth.rs).                  *)
(*                                                                         *)
(* Each step reads what is there at that moment: the config file may be    *)
(* edited and tailscaled may start, stop or get another address between    *)
(* two of them, and of two processes only one gets the port.               *)
(***************************************************************************)
EXTENDS Naturals, Sequences

CONSTANTS
  Procs,      \* the processes that may run `rdc serve`
  Bins,       \* the executables
  V4, V6,     \* IP addresses, by family
  Tailnet,    \* those in the ranges of is_tailscale_ip
  Loopbacks,  \* those of 127.0.0.0/8, and ::1
  Home,       \* 127.0.0.1
  Lan,        \* the machine's other addresses
  DnsNames,   \* names that are not addresses
  Ports,      \* TCP ports
  Labels,     \* what is between the marks of a text
  Written     \* the text of each name

NotGiven   == "not given"       \* an Option without a value
Unreadable == "unreadable"      \* a bind that is not an IP address
Addresses  == V4 \cup V6
Names      == Addresses \cup DnsNames
Loopback6  == "::1"
Localhost  == "localhost"

ASSUME AddressAssumption ==
  /\ Tailnet \cup Loopbacks \subseteq Addresses
  /\ Loopbacks \cap Tailnet = {}
  /\ Home \in Loopbacks \ V6 /\ Loopback6 \in V6 /\ Localhost \in DnsNames
  /\ {NotGiven, Unreadable} \cap (Names \cup Ports) = {}

(* A text is a sequence of marks and of what is between them.  That of a    *)
(* name ends in no dot; that of an IPv6 address has several colons, any    *)
(* other none; and two names are never written the same.                   *)
Pieces == Labels \cup {".", ":", "[", "]", "port"}

ASSUME TextAssumption ==
  /\ Labels \cap {".", ":", "[", "]"} = {}
  /\ Written \in [Names -> Seq(Labels \cup {".", ":"}) \ {<< >>}]
  /\ \A n \in Names :
       LET w == Written[n]
       IN  /\ w[Len(w)] # "."
           /\ IF n \in V6 THEN \E i, j \in DOMAIN w : i # j /\ w[i] = ":" /\ w[j] = ":"
              ELSE \A i \in DOMAIN w : w[i] # ":"
  /\ \A m, n \in Names : Written[m] = Written[n] => m = n

VARIABLES
  config,   \* the config file
  tailnet,  \* tailscaled: whether detect finds it, whether it answers, and what
  serve     \* the processes

Environment == <<config, tailnet>>

-----------------------------------------------------------------------------
Write(names) == {Written[n] : n \in names}

(* Host names.  normalize_host, after trim and to_lowercase: a text here   *)
(* stands for all that differ from it in case or in blanks around it.      *)
TrimDots(t) ==
  SubSeq(t, 1, CHOOSE n \in 0 .. Len(t) : /\ n > 0 => t[n] # "."
                                          /\ \A i \in n + 1 .. Len(t) : t[i] = ".")

Before(t, mark) ==
  SubSeq(t, 1, CHOOSE n \in 0 .. Len(t) : /\ n < Len(t) => t[n + 1] = mark
                                          /\ \A i \in 1 .. n : t[i] # mark)

OneColon(t) == \E i \in DOMAIN t : \A j \in DOMAIN t : t[j] = ":" <=> j = i

HostOf(t) ==
  IF t # << >> /\ Head(t) = "[" THEN Before(Tail(t), "]")
  ELSE IF OneColon(t) THEN Before(t, ":")
  ELSE t

(* What a client sends for a name, and the operator may write: a DNS name  *)
(* may end in a dot, and any may come with a port.  An IPv6 address has    *)
(* brackets, which a Host header without a port may leave out.             *)
Forms(n) ==
  {f \in [dot : BOOLEAN, brackets : BOOLEAN, port : BOOLEAN] :
     /\ f.dot => n \in DnsNames
     /\ f.brackets => n \in V6
     /\ f.port /\ n \in V6 => f.brackets}

Dotted(n, dot) == Written[n] \o (IF dot THEN <<".">> ELSE << >>)

Spelled(n, f) ==
  LET port == IF f.port THEN <<":", "port">> ELSE << >>
  IN  IF f.brackets THEN <<"[">> \o (Dotted(n, f.dot) \o (<<"]">> \o port))
      ELSE Dotted(n, f.dot) \o port

Spellings == [n \in Names |-> {Spelled(n, f) : f \in Forms(n)}]

Headers == UNION {Spellings[n] : n \in Names}
Texts   == Headers \cup {<< >>}

NormalizedAnyColon ==  \* mutant: the port is cut off wherever a colon is
  [h \in Texts |->
     LET t == TrimDots(h)
     IN  TrimDots(IF t # << >> /\ Head(t) = "[" THEN Before(Tail(t), "]") ELSE Before(t, ":"))]
Normalized == [h \in Texts |-> TrimDots(HostOf(TrimDots(h)))]

HostAllow(texts)  == {Normalized[h] : h \in texts} \ {<< >>}
Permits(hosts, h) == Normalized[h] \in hosts

-----------------------------------------------------------------------------
(* What the grants of the file come to, and those of the --allow flags.    *)
Grants == {"nobody", "somebody", "malformed"}

(* The flags of serve; a service has none. *)
Options   == [bind : Addresses \cup {NotGiven}, port : Ports \cup {NotGiven}, allow : Grants,
              dev : BOOLEAN]
NoOptions == [bind |-> NotGiven, port |-> NotGiven, allow |-> "nobody", dev |-> FALSE]

Configs == [valid : BOOLEAN, allows : Grants, bind : Addresses \cup {NotGiven, Unreadable},
            port : Ports, hosts : SUBSET Texts]

(* What tailscaled may be like. *)
Networks == [found : BOOLEAN, up : BOOLEAN, ips : Seq(Addresses), names : SUBSET DnsNames]

AddressesIn(t) == {t.ips[i] : i \in DOMAIN t.ips}

(* Of a process, since and missed are history, for the properties: what    *)
(* tailscaled was like while it ran, and whether a query of it failed.     *)
Gone == [at |-> "gone", bin |-> NotGiven, opts |-> NoOptions, hand |-> FALSE, found |-> FALSE,
         read |-> NotGiven, addr |-> NotGiven, hosts |-> {}, since |-> {}, missed |-> FALSE]

Alive(p)   == serve[p].at \notin {"gone", "failed", "ended"}
Serving(p) == serve[p].at = "serving"

-----------------------------------------------------------------------------
(* Neither the LocalAPI nor the CLI answers unless detect found one and    *)
(* tailscaled runs.  self_ips has the IPv4 addresses first.                *)
Answers(p) == serve[p].found /\ tailnet.up

FourFirst(ips) ==
  SelectSeq(ips, LAMBDA a : a \in V4) \o SelectSeq(ips, LAMBDA a : a \notin V4)
SelfIps(p) == IF Answers(p) THEN FourFirst(tailnet.ips) ELSE << >>

OwnAddresses == AddressesIn(tailnet)
Heard(p, got, names) == IF got /\ Answers(p) THEN names ELSE {}

-----------------------------------------------------------------------------
Enter(p, at) == serve' = [serve EXCEPT ![p].at = at]

Launched(bin, opts, hand) ==
  [Gone EXCEPT !.at = "load", !.bin = bin, !.opts = opts, !.hand = hand, !.since = {tailnet}]

Launch(p, bin, opts, hand) == serve' = [serve EXCEPT ![p] = Launched(bin, opts, hand)]

(* load, and detect.  A malformed grant, in the file or a flag, ends it. *)
Load(p) ==
  /\ serve[p].at = "load"
  /\ IF config.valid /\ "malformed" \notin {config.allows, serve[p].opts.allow}
     THEN serve' = [serve EXCEPT ![p].at = "bind", ![p].read = config, ![p].found = tailnet.found]
     ELSE Enter(p, "failed")
  /\ UNCHANGED Environment

(* The address: the flag's, the file's if it is one, and otherwise         *)
(* 127.0.0.1 for a test or the first of this node's own.                   *)
BindAddress(p) ==
  LET s == serve[p]
  IN  IF s.opts.bind # NotGiven THEN s.opts.bind
      ELSE IF s.read.bind \in Addresses THEN s.read.bind
      ELSE IF s.opts.dev THEN Home
      ELSE IF SelfIps(p) # << >> THEN Head(SelfIps(p))
      ELSE NotGiven

Port(s) == IF s.opts.port # NotGiven THEN s.opts.port ELSE s.read.port

Passes(s, a) ==
  IF s.opts.dev THEN a \in Loopbacks
  ELSE a \in Tailnet /\ "somebody" \in {s.read.allows, s.opts.allow}

Choose(p) ==
  /\ serve[p].at = "bind"
  /\ IF Passes(serve[p], BindAddress(p))
     THEN serve' = [serve EXCEPT ![p].at = "ips", ![p].addr = BindAddress(p)]
     ELSE Enter(p, "failed")
  /\ UNCHANGED Environment

(* The accepted Host names: tailscaled is asked again for the addresses,   *)
(* then for the names; a query that finds nothing is passed over.          *)
AskIps(p, got) ==
  /\ serve[p].at = "ips"
  /\ serve' = [serve EXCEPT ![p].at = "names", ![p].missed = ~got,
                  ![p].hosts = Write({serve[p].addr} \cup Heard(p, got, OwnAddresses))]
  /\ UNCHANGED Environment

DevNames == {Localhost, Home, Loopback6}

Collected(p, got) ==
  serve[p].hosts \cup Write(Heard(p, got, tailnet.names)) \cup serve[p].read.hosts
    \cup (IF serve[p].opts.dev THEN Write(DevNames) ELSE {})

AskNames(p, got) ==
  /\ serve[p].at = "names"
  /\ serve' = [serve EXCEPT ![p].at = "listen", ![p].missed = @ \/ ~got,
                  ![p].hosts = HostAllow(Collected(p, got))]
  /\ UNCHANGED Environment

(* TcpListener::bind: the address is this machine's, and nobody has the    *)
(* port there.                                                             *)
Local == Loopbacks \cup Lan \cup OwnAddresses
Free(a, port) == \A q \in Procs : Serving(q) => serve[q].addr # a \/ Port(serve[q]) # port

Listen(p) ==
  /\ serve[p].at = "listen"
  /\ Enter(p, IF serve[p].addr \in Local /\ Free(serve[p].addr, Port(serve[p]))
              THEN "serving" ELSE "failed")
  /\ UNCHANGED Environment

Steps(p) == Load(p) \/ Choose(p) \/ AskIps(p, TRUE) \/ AskNames(p, TRUE) \/ Listen(p)

(* A query fails although tailscaled runs. *)
Miss(p) == Answers(p) /\ (AskIps(p, FALSE) \/ AskNames(p, FALSE))

(* Ctrl-C, and anything else that ends a process, at any point: no         *)
(* display, an audit log that cannot be opened, a panic, a kill.           *)
Interrupt(p) == Alive(p) /\ Enter(p, "ended") /\ UNCHANGED Environment
Die(p)       == Alive(p) /\ Enter(p, "failed") /\ UNCHANGED Environment

(* tailscaled changes under the processes that run. *)
Renumber(net) ==
  /\ tailnet' = net
  /\ serve' = [p \in Procs |-> IF Alive(p) THEN [serve[p] EXCEPT !.since = @ \cup {net}]
                               ELSE serve[p]]
  /\ UNCHANGED config

-----------------------------------------------------------------------------
(* A node's own names, the configured ones, and those it had while the     *)
(* process ran.                                                            *)
Own(t)     == IF t.up THEN AddressesIn(t) \cup t.names ELSE {}
Once(s)    == UNION {Own(t) : t \in s.since}
Meant(s)   == {n \in Names : Spellings[n] \cap s.read.hosts # {}}
Steady(p)  == serve[p].since = {tailnet} /\ tailnet.found

(* However tailscaled changes between the queries of a start, a daemon     *)
(* never answers to a name that neither it listens on, nor the config      *)
(* gives it, nor was the node's own at some moment since it started; and   *)
(* it answers to all of those in every spelling, the node's own when       *)
(* tailscaled stayed as it was and no query failed (server/mod.rs, hosts;  *)
(* auth.rs, normalize_host and check_host).                                *)
AnswersToItsNames ==
  \A p \in Procs : Serving(p) /\ ~serve[p].opts.dev =>
    LET s == serve[p]
    IN  \A n \in Names : \A h \in Spellings[n] :
          /\ Permits(s.hosts, h) => n \in {s.addr} \cup Meant(s) \cup Once(s)
          /\ n \in {s.addr} \cup Meant(s) => Permits(s.hosts, h)
          /\ Steady(p) /\ ~s.missed /\ n \in Own(tailnet) => Permits(s.hosts, h)

(* docs/configuration.md: the node's own IPs, MagicDNS name and hostname   *)
(* are always accepted - asked only of a tailscaled that has stayed as it  *)
(* was since the process started.                                          *)
OwnNamesAccepted ==
  \A p \in Procs : Serving(p) /\ Steady(p) =>
    \A n \in Own(tailnet) : \A h \in Spellings[n] : Permits(serve[p].hosts, h)
=============================================================================
