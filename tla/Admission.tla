------------------------------ MODULE Admission ------------------------------
(***************************************************************************)
(* A daemon that has been given grants, and a peer that asks: every choice *)
(* of plain entries, table grants, --allow flags and a whois answer is a   *)
(* state, and the promises made to the operator are stated of each.        *)
(***************************************************************************)
EXTENDS Access

CONSTANTS
  PlainEntries,  \* the plain entries an operator may write
  Tables,        \* the table grants
  FlagGrants,    \* the --allow flags, as grants
  PeerAnswers    \* what whois may answer

ASSUME AdmissionAssumption ==
  /\ PlainEntries \subseteq SUBSET Names
  /\ Tables \subseteq SUBSET WrittenGrants /\ FlagGrants \subseteq SUBSET WrittenGrants
  /\ PeerAnswers \subseteq WhoisAnswers

VARIABLES plain, tables, flags, peer

vars == <<plain, tables, flags, peer>>

Init == plain \in PlainEntries /\ tables \in Tables /\ flags = {} /\ peer \in PeerAnswers

(* A --allow flag is added to what the file grants. *)
Next == flags = {} /\ flags' \in FlagGrants /\ UNCHANGED <<plain, tables, peer>>

Spec == Init /\ [][Next]_vars

-----------------------------------------------------------------------------
Started  == Readable(tables, flags)
Read     == ReadGrants(plain, tables, flags)
Verdict  == Decision(Read, peer)

(* A device holds a capability exactly when an entry that names it was     *)
(* written and gives it: case, blanks, synonyms, nameless devices and the  *)
(* union over several grants included (docs/configuration.md, Grants and   *)
(* capabilities; auth.rs, permits; config.rs, parse_caps).                 *)
GrantedIffWritten ==
  Started =>
    \A c \in Caps : Granted(plain, tables, flags, peer, c) <=> Require(Verdict, c)

(* Whoever created a tagged device, it gets the same capabilities: no      *)
(* entry for the creator's login reaches it (tailscale.rs, identity).      *)
CreatorIrrelevantForTagged ==
  (Started /\ peer.tags # {}) =>
    \A l \in Names \cup {NoLogin} : Decision(Read, [peer EXCEPT !.login = l]) = Verdict

(* A device that is let in may do something: the daemon never admits a     *)
(* peer it then forbids everything (config.rs, parse_caps and the          *)
(* allowlist's None).                                                      *)
AdmittedMayAct == Started => Verdict = Nobody \/ Verdict # {}
=============================================================================
