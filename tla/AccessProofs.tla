---------------------------- MODULE AccessProofs ----------------------------
(***************************************************************************)
(* Proofs about Access and Admission, for every set of names, every way of *)
(* spelling them and every configuration: a device holds a capability      *)
(* exactly when an entry that names it was written and gives it; a tagged  *)
(* device gains nothing from its creator's login; an admitted device may   *)
(* do something.                                                           *)
(***************************************************************************)
EXTENDS Admission, TLAPS

(* A capability is held exactly if some grant that matches carries it. *)
LEMMA PermitsUnion ==
  ASSUME NEW allow, NEW id, NEW c \in Caps
  PROVE  c \in Permits(allow, id) <=> \E g \in allow : Matches(g.who, id) /\ c \in g.caps
<1>1. c \notin Nobody
  BY DEF Caps, Nobody
<1> QED
  BY <1>1 DEF Permits

(* Normalisation loses no name but the blank one. *)
LEMMA NormalizedMatch ==
  ASSUME NEW grants, NEW id, NEW c
  PROVE  (\E g \in NewAllowlist(grants) : Matches(g.who, id) /\ c \in g.caps)
           <=> \E h \in grants : Matches(NormalizedWho(h), id) /\ c \in h.caps
<1>1. ASSUME NEW h \in grants, Matches(NormalizedWho(h), id)
      PROVE  [who |-> NormalizedWho(h), caps |-> h.caps] \in NewAllowlist(grants)
  <2>1. NormalizedWho(h) # {}
    BY <1>1 DEF Matches
  <2> QED
    BY <2>1 DEF NewAllowlist
<1>2. ASSUME NEW g \in NewAllowlist(grants)
      PROVE  \E h \in grants : g = [who |-> NormalizedWho(h), caps |-> h.caps]
  BY <1>2 DEF NewAllowlist
<1>3. ASSUME NEW g \in NewAllowlist(grants), Matches(g.who, id), c \in g.caps
      PROVE  \E h \in grants : Matches(NormalizedWho(h), id) /\ c \in h.caps
  <2>1. PICK h \in grants : g = [who |-> NormalizedWho(h), caps |-> h.caps]
    BY <1>2
  <2>2. g.who = NormalizedWho(h) /\ g.caps = h.caps
    BY <2>1
  <2> QED
    BY <1>3, <2>2
<1>4. ASSUME NEW h \in grants, Matches(NormalizedWho(h), id), c \in h.caps
      PROVE  \E g \in NewAllowlist(grants) : Matches(g.who, id) /\ c \in g.caps
  <2> DEFINE g == [who |-> NormalizedWho(h), caps |-> h.caps]
  <2>1. g \in NewAllowlist(grants)
    BY <1>1, <1>4
  <2>2. g.who = NormalizedWho(h) /\ g.caps = h.caps
    OBVIOUS
  <2> QED
    BY <1>4, <2>1, <2>2
<1> QED
  BY <1>3, <1>4

(* The identity's names, lowered, are what a name is compared with. *)
LEMMA NamedIsMatched ==
  ASSUME NEW w \in WhoisAnswers, NEW n \in Names
  PROVE  Named(n, w) <=> Canonical(n) # Blank /\ Matches({Canonical(n)}, PeerIdentity(w))
<1>1. /\ Trim[n] \in Names /\ Canonical(n) \in Names
      /\ w.login \in Names \cup {NoLogin} /\ w.computed \in Names
      /\ w.name \in Names /\ w.tags \in SUBSET Names
  BY NamesAssumption DEF WhoisAnswers, Canonical
<1>2. (Canonical(n) = Blank <=> Trim[n] = Blank) /\ (Canonical(n) = Star <=> Trim[n] = Star)
  BY <1>1, SpellingAssumption DEF Canonical
<1>3. (PeerIdentity(w).login # NoLogin /\ Lower[PeerIdentity(w).login] = Canonical(n))
        <=> (w.tags = {} /\ w.login \notin {NoLogin, Blank} /\ SpelledAs(n, w.login))
  BY <1>1, NamesAssumption DEF PeerIdentity, PeerLogin, Canonical, SpelledAs
<1>4. Lower[PeerIdentity(w).node] = Canonical(n)
        <=> \/ w.computed # Blank /\ SpelledAs(n, w.computed)
            \/ w.computed = Blank /\ SpelledAs(n, FirstLabel[w.name])
  BY <1>1 DEF PeerIdentity, NodeShort, Canonical, SpelledAs
<1>5. (\E t \in PeerIdentity(w).tags : Lower[t] = Canonical(n))
        <=> \E t \in w.tags : SpelledAs(n, t)
  BY DEF PeerIdentity, Canonical, SpelledAs
<1> QED
  BY <1>2, <1>3, <1>4, <1>5 DEF Named, Matches

(* A whole `who` list matches if one of its names does. *)
LEMMA WhoIsMatched ==
  ASSUME NEW w \in WhoisAnswers, NEW g, g.who \subseteq Names
  PROVE  Matches(NormalizedWho(g), PeerIdentity(w)) <=> \E n \in g.who : Named(n, w)
<1>1. Matches(NormalizedWho(g), PeerIdentity(w))
        <=> \E n \in g.who : Canonical(n) # Blank /\ Matches({Canonical(n)}, PeerIdentity(w))
  BY DEF Matches, NormalizedWho
<1> QED
  BY <1>1, NamedIsMatched

(* Trimming a name first, as the reader of the configuration does, changes *)
(* nothing.                                                                *)
LEMMA TrimmedIsNamed ==
  ASSUME NEW w \in WhoisAnswers, NEW n \in Names
  PROVE  /\ Trim[n] \in Names
         /\ Named(Trim[n], w) <=> Named(n, w)
<1>1. Trim[n] \in Names /\ Trim[Trim[n]] = Trim[n]
  BY NamesAssumption, SpellingAssumption
<1>2. \A m : SpelledAs(Trim[n], m) <=> SpelledAs(n, m)
  BY <1>1 DEF SpelledAs
<1> QED
  BY <1>1, <1>2 DEF Named

(* What a well formed table or flag gives is what its words say. *)
LEMMA ResolvedCaps ==
  ASSUME NEW g \in WrittenGrants, WellFormed(g), NEW c \in Caps
  PROVE  c \in Resolve(g).caps <=> Gives(g, c)
<1>1. CASE g.can = NotSet
  BY <1>1 DEF Resolve, GrantCaps, Gives
<1>2. CASE g.can # NotSet
  <2>1. ParseCaps(g.can) # Invalid
    BY <1>2 DEF WellFormed, GrantCaps
  <2>2. ParseCaps(g.can) = UNION {WordCaps[v] : v \in g.can}
    BY <2>1 DEF ParseCaps
  <2> QED
    BY <1>2, <2>2 DEF Resolve, GrantCaps, Gives
<1> QED
  BY <1>1, <1>2

LEMMA ResolvedWho ==
  ASSUME NEW w \in WhoisAnswers, NEW g \in WrittenGrants
  PROVE  /\ Resolve(g).who \subseteq Names
         /\ (\E n \in Resolve(g).who : Named(n, w)) <=> \E n \in g.who : Named(n, w)
<1>1. g.who \subseteq Names
  BY DEF WrittenGrants
<1>2. Resolve(g).who = {Trim[n] : n \in g.who} \ {Blank}
  BY DEF Resolve, GrantWho
<1>3. \A n \in Names : Trim[n] = Blank => ~Named(n, w)
  BY DEF Named
<1> QED
  BY <1>1, <1>2, <1>3, TrimmedIsNamed

(* For every configuration that is read and every device: it holds a       *)
(* capability exactly when an entry that names it was written and gives    *)
(* it (config.rs, grants; auth.rs, permits).                               *)
THEOREM GrantedExactlyAsWritten ==
  ASSUME NEW entries \in SUBSET Names,
         NEW written \in SUBSET WrittenGrants, NEW allowed \in SUBSET WrittenGrants,
         Readable(written, allowed),
         NEW w \in WhoisAnswers, NEW c \in Caps
  PROVE  Require(Decision(ReadGrants(entries, written, allowed), w), c)
           <=> Granted(entries, written, allowed, w, c)
<1> DEFINE R == ReadGrants(entries, written, allowed)
           Carried(h) == Matches(NormalizedWho(h), PeerIdentity(w)) /\ c \in h.caps
           full == {[who |-> {Trim[n]}, caps |-> Caps] : n \in {m \in entries : Trim[m] # Blank}}
<1>1. Require(Decision(R, w), c) <=> \E h \in R : Carried(h)
  BY PermitsUnion, NormalizedMatch DEF Require, Decision
<1>2. (\E h \in full : Carried(h)) <=> \E n \in entries : Named(n, w)
  <2>1. ASSUME NEW n \in entries, Trim[n] # Blank
        PROVE  Carried([who |-> {Trim[n]}, caps |-> Caps]) <=> Named(n, w)
    <3>1. Matches(NormalizedWho([who |-> {Trim[n]}, caps |-> Caps]), PeerIdentity(w))
            <=> Named(Trim[n], w)
      BY TrimmedIsNamed, WhoIsMatched
    <3> QED
      BY <3>1, TrimmedIsNamed
  <2>2. \A n \in entries : Named(n, w) => Trim[n] # Blank
    BY DEF Named
  <2> QED
    BY <2>1, <2>2
<1>3. ASSUME NEW g \in written \cup allowed
      PROVE  Carried(Resolve(g)) <=> Gives(g, c) /\ \E n \in g.who : Named(n, w)
  <2>1. g \in WrittenGrants /\ WellFormed(g)
    BY DEF Readable
  <2> QED
    BY <2>1, ResolvedCaps, ResolvedWho, WhoIsMatched
<1>4. R = full \cup {Resolve(g) : g \in written \cup allowed}
  BY DEF ReadGrants, FileGrants, ParseAllowFlag
<1> QED
  BY <1>1, <1>2, <1>3, <1>4 DEF Granted

(* Whoever created a tagged device, the allowlist decides the same: the    *)
(* login whois reports for it is dropped (tailscale.rs, identity).         *)
THEOREM CreatorNeverCounts ==
  ASSUME NEW grants, NEW w \in WhoisAnswers, w.tags # {}, NEW l \in Names \cup {NoLogin}
  PROVE  Decision(grants, [w EXCEPT !.login = l]) = Decision(grants, w)
<1>1. PeerIdentity([w EXCEPT !.login = l]) = PeerIdentity(w)
  BY DEF PeerIdentity, PeerLogin, NodeShort, WhoisAnswers
<1> QED
  BY <1>1 DEF Decision

(* Every grant that was read carries a capability, so a device that is     *)
(* admitted is never forbidden everything (config.rs, parse_caps).         *)
THEOREM AdmittedHoldsACapability ==
  ASSUME NEW entries \in SUBSET Names,
         NEW written \in SUBSET WrittenGrants, NEW allowed \in SUBSET WrittenGrants,
         Readable(written, allowed), NEW w
  PROVE  LET verdict == Decision(ReadGrants(entries, written, allowed), w)
         IN  verdict = Nobody \/ verdict # {}
<1> DEFINE R == ReadGrants(entries, written, allowed)
<1>1. \A h \in R : h.caps # {}
  <2>1. ASSUME NEW g \in written \cup allowed PROVE Resolve(g).caps # {}
    <3>1. GrantCaps(g) # Invalid
      BY DEF Readable, WellFormed
    <3>2. ParseCaps(g.can) # Invalid => ParseCaps(g.can) # {}
      BY DEF ParseCaps, Invalid
    <3> QED
      BY <3>1, <3>2 DEF Resolve, GrantCaps, Caps
  <2> QED
    BY <2>1 DEF ReadGrants, FileGrants, ParseAllowFlag, Caps
<1>2. \A g \in NewAllowlist(R) : g.caps # {}
  BY <1>1 DEF NewAllowlist
<1> QED
  BY <1>2 DEF Decision, Permits

-----------------------------------------------------------------------------
(* The same of every state of Admission, whose inputs are what they are    *)
(* said to be.                                                             *)
TypedInputs ==
  /\ plain \in SUBSET Names
  /\ tables \in SUBSET WrittenGrants /\ flags \in SUBSET WrittenGrants
  /\ peer \in WhoisAnswers

LEMMA InputsTyped == Spec => []TypedInputs
<1>1. Init => TypedInputs
  BY AdmissionAssumption DEF Init, TypedInputs
<1>2. TypedInputs /\ [Next]_vars => TypedInputs'
  BY AdmissionAssumption DEF Next, vars, TypedInputs
<1> QED
  BY <1>1, <1>2, PTL DEF Spec

(* A device holds a capability exactly when an entry that names it was     *)
(* written and gives it, in every state (config.rs, grants; auth.rs,       *)
(* permits).                                                               *)
THEOREM AlwaysGrantedIffWritten == Spec => []GrantedIffWritten
<1>1. TypedInputs => GrantedIffWritten
  BY GrantedExactlyAsWritten DEF TypedInputs, GrantedIffWritten, Started, Read, Verdict
<1> QED
  BY <1>1, InputsTyped, PTL

(* No entry for the login of its creator reaches a tagged device, in every *)
(* state (tailscale.rs, identity).                                         *)
THEOREM CreatorNeverRelevant == Spec => []CreatorIrrelevantForTagged
<1>1. TypedInputs => CreatorIrrelevantForTagged
  BY CreatorNeverCounts DEF TypedInputs, CreatorIrrelevantForTagged, Read, Verdict
<1> QED
  BY <1>1, InputsTyped, PTL

(* No peer is let in that may then do nothing, in every state (config.rs,  *)
(* parse_caps).                                                            *)
THEOREM AdmittedAlwaysMayAct == Spec => []AdmittedMayAct
<1>1. TypedInputs => AdmittedMayAct
  BY AdmittedHoldsACapability DEF TypedInputs, AdmittedMayAct, Started, Read, Verdict
<1> QED
  BY <1>1, InputsTyped, PTL
=============================================================================
