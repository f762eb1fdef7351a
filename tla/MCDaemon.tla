------------------------------ MODULE MCDaemon ------------------------------
(***************************************************************************)
(* Instances of Daemon for TLC.  What each caller may do is what module    *)
(* Access makes of these grants and whois answers:                         *)
(*   allow = ["Alice", { who = "tag:ops", can = "view" },                  *)
(*            { who = "srv", can = "clipboard" }]                          *)
(* and three devices: Alice's own, one tagged by her, and a stranger's.    *)
(***************************************************************************)
EXTENDS Client

CONSTANTS r1, r2

Names == {"", "*", "Alice", "alice", "laptop", "srv", "tag:ops", "bob", "pc"}

A == INSTANCE Access WITH
       Blank <- "", Star <- "*", NoLogin <- "no login",
       Trim <- [n \in Names |-> n],
       Lower <- [n \in Names |-> IF n = "Alice" THEN "alice" ELSE n],
       FirstLabel <- [n \in Names |-> n],
       Words <- Caps, WordCaps <- [w \in Caps |-> {w}]

Whois == [laptop   |-> [login |-> "alice", name |-> "laptop", computed |-> "", tags |-> {}],
          server   |-> [login |-> "alice", name |-> "srv", computed |-> "", tags |-> {"tag:ops"}],
          stranger |-> [login |-> "bob", name |-> "pc", computed |-> "", tags |-> {}]]

Grants == A!ReadGrants({"Alice"},
                       {[who |-> {"tag:ops"}, can |-> {"view"}],
                        [who |-> {"srv"}, can |-> {"clipboard"}]}, {})

MCCallers == DOMAIN Whois
MCAllow   == [c \in MCCallers |-> A!Decision(Grants, Whois[c])]

OwnDevice  == {"laptop"}
OwnAllow   == [c \in OwnDevice |-> MCAllow[c]]

TwoReqs    == {r1, r2}
Symmetry2  == {[r \in TwoReqs |-> r], [r \in TwoReqs |-> IF r = r1 THEN r2 ELSE r1]}

AllCalls   == Gated \cup Ungated
JobCalls   == {"input", "clipset"}
=============================================================================
