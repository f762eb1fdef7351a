------------------------------- MODULE Access -------------------------------
(***************************************************************************)
(* From a tailnet peer and the operator's grants to a set of capabilities: *)
(* reading the grants (src/src/config.rs, src/src/main.rs), the identity   *)
(* built from a whois answer (src/src/tailscale.rs) and the allowlist that *)
(* matches one against the other (src/src/server/auth.rs).                 *)
(*                                                                         *)
(* Names are uninterpreted: logins, node names, tags and what an operator  *)
(* types are all members of Names, and Trim, Lower and FirstLabel are what *)
(* the string operations do to them.                                       *)
(***************************************************************************)
CONSTANTS
  Names,
  Blank,        \* the empty string
  Star,         \* "*", which matches every peer
  NoLogin,      \* a peer with no login
  Trim,         \* str::trim
  Lower,        \* str::to_lowercase
  FirstLabel,   \* a DNS name up to its first dot
  Words,        \* what may be written in `can`
  WordCaps      \* the capabilities a word stands for, or BadWord

Caps    == {"view", "input", "clipboard"}
BadWord == {"unknown"}     \* a word that is not a capability
NotSet  == {"not set"}     \* a grant without `can`
Invalid == {"invalid"}     \* a `can` that is refused
Nobody  == {"nobody"}      \* None: no grant matches

ASSUME NamesAssumption ==
  /\ {Blank, Star} \subseteq Names
  /\ Star # Blank
  /\ NoLogin \notin Names
  /\ Trim \in [Names -> Names]
  /\ Lower \in [Names -> Names]
  /\ FirstLabel \in [Names -> Names]

ASSUME SpellingAssumption ==
  /\ \A n \in Names : Lower[Lower[n]] = Lower[n] /\ Trim[Trim[n]] = Trim[n]
  /\ \A n \in Names : Lower[Trim[n]] = Trim[Lower[n]]
  /\ \A n \in {Blank, Star} : Trim[n] = n /\ Lower[n] = n
  /\ \A n \in Names : \A m \in {Blank, Star} : Lower[n] = m => n = m

ASSUME WordsAssumption == \A w \in Words : WordCaps[w] \in (SUBSET Caps) \cup {BadWord}

(* A grant as written: whom it names and what they may do. *)
WrittenGrants == [who : SUBSET Names, can : (SUBSET Words) \cup {NotSet}]
Grants        == [who : SUBSET Names, caps : SUBSET Caps]
WhoisAnswers  == [login : Names \cup {NoLogin}, name : Names, computed : Names,
                  tags : SUBSET Names]
Identities    == [login : Names \cup {NoLogin}, node : Names, tags : SUBSET Names]

-----------------------------------------------------------------------------
(* Reading the grants.                                                      *)

(* parse_caps, for a list of words; a word may stand for nothing. *)
ParseCapsLax(can) ==  \* mutant: an unknown word is skipped, an empty list allowed
  UNION {WordCaps[w] : w \in {v \in can : WordCaps[v] # BadWord}}
ParseCaps(can) ==
  LET caps == UNION {WordCaps[w] : w \in can}
  IN  IF \E w \in can : WordCaps[w] = BadWord THEN Invalid
      ELSE IF caps = {} THEN Invalid
      ELSE caps

GrantCaps(g) == IF g.can = NotSet THEN Caps ELSE ParseCaps(g.can)
GrantWho(g)  == {Trim[w] : w \in g.who} \ {Blank}

WellFormed(g) == GrantWho(g) # {} /\ GrantCaps(g) # Invalid

(* load and serve fail on the first malformed grant: nothing is half read. *)
Readable(tables, flags) == \A g \in tables \cup flags : WellFormed(g)

Resolve(g) == [who |-> GrantWho(g), caps |-> GrantCaps(g)]

(* ServeConfig::grants: a plain string is a grant of everything to one     *)
(* name, and a blank one is skipped.                                       *)
FileGrants(plain, tables) ==
     {[who |-> {Trim[n]}, caps |-> Caps] : n \in {m \in plain : Trim[m] # Blank}}
  \cup {Resolve(g) : g \in tables}

(* An --allow flag names one identity; a blank one is refused. *)
ParseAllowFlag(f) == Resolve(f)

ReadGrants(plain, tables, flags) ==
  FileGrants(plain, tables) \cup {ParseAllowFlag(f) : f \in flags}

-----------------------------------------------------------------------------
(* The identity of a peer.  A tagged node is known by its tags and its name *)
(* only: the login whois reports for it is that of whoever created it.      *)

PeerLoginKept(w) ==  \* mutant: the creator's login is kept on a tagged node
  IF w.login # Blank THEN w.login ELSE NoLogin
PeerLogin(w) ==
  IF w.tags = {} /\ w.login # Blank THEN w.login ELSE NoLogin

NodeShort(w) == IF w.computed # Blank THEN w.computed ELSE FirstLabel[w.name]

PeerIdentity(w) == [login |-> PeerLogin(w), node |-> NodeShort(w), tags |-> w.tags]

-----------------------------------------------------------------------------
(* The allowlist.                                                           *)

Canonical(n) == Lower[Trim[n]]

NormalizedWhoRaw(g) == {Trim[n] : n \in g.who}  \* mutant: entries keep their case
NormalizedWho(g) == {Canonical(n) : n \in g.who} \ {Blank}

NewAllowlist(grants) ==
  {g \in {[who |-> NormalizedWho(h), caps |-> h.caps] : h \in grants} : g.who # {}}

Matches(who, id) ==
  \/ Star \in who
  \/ id.login # NoLogin /\ Lower[id.login] \in who
  \/ Lower[id.node] \in who
  \/ \E t \in id.tags : Lower[t] \in who

Permits(allow, id) ==
  LET hits == {g \in allow : Matches(g.who, id)}
  IN  IF hits = {} THEN Nobody ELSE UNION {g.caps : g \in hits}

(* authorize for a peer that whois has answered for. *)
Decision(grants, w) == Permits(NewAllowlist(grants), PeerIdentity(w))

Require(caps, cap) == cap \in caps

-----------------------------------------------------------------------------
(* What the documentation promises, written without identities and         *)
(* allowlists: a written name names a device if, up to its own case and    *)
(* blanks, it is "*", the device's login if it is not tagged, its node     *)
(* name or one of its tags; and a grant gives what its words say.          *)
SpelledAs(n, m) == Lower[Trim[n]] = Lower[m]

Named(n, w) ==
  /\ Trim[n] # Blank
  /\ \/ Trim[n] = Star
     \/ w.tags = {} /\ w.login \notin {NoLogin, Blank} /\ SpelledAs(n, w.login)
     \/ w.computed # Blank /\ SpelledAs(n, w.computed)
     \/ w.computed = Blank /\ SpelledAs(n, FirstLabel[w.name])
     \/ \E t \in w.tags : SpelledAs(n, t)

Gives(g, c) == g.can = NotSet \/ \E word \in g.can : c \in WordCaps[word]

Granted(plain, tables, flags, w, c) ==
  \/ \E n \in plain : Named(n, w)
  \/ \E g \in tables \cup flags : Gives(g, c) /\ \E n \in g.who : Named(n, w)
=============================================================================
