-------------------------- MODULE MCIdentityCache --------------------------
(* Instance of IdentityCache for TLC: a tailnet address, a loopback and a  *)
(* LAN one, two overlapping lookups, two identities for the address.       *)
EXTENDS IdentityCache, TLC

CONSTANTS ts1, lo, lan, alice, server, r1, r2

MCAddrs    == {ts1, lo, lan}
MCTailnet  == {ts1}
MCLoopback == {lo}
MCPeers    == {alice, server}
MCReqs     == {r1, r2}
Symmetry   == Permutations(MCPeers) \cup Permutations(MCReqs)
=============================================================================
