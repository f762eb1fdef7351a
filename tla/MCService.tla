----------------------------- MODULE MCService -----------------------------
(***************************************************************************)
(* Service with two executables, a tailscaled that is missing, signed out  *)
(* or up with one of two IPv4 addresses, and config files with and without *)
(* somebody to allow, a bind address and extra hosts, some of them written *)
(* in spellings that have to be normalised.                                *)
(***************************************************************************)
EXTENDS Service

MCProcs     == {"managed", "stray"}
MCBins      == {"old", "new"}
MCV4        == {"100.64.0.1", "100.64.0.2", "127.0.0.1", "192.168.0.2"}
MCV6        == {"fd7a:115c:a1e0::1", "::1"}
MCTailnet   == {"100.64.0.1", "100.64.0.2", "fd7a:115c:a1e0::1"}
MCLoopbacks == {"127.0.0.1", "::1"}
MCDnsNames  == {"desk", "alias", "elsewhere", "localhost"}
MCPorts     == {"7770", "7771"}

MCLabels    == MCV4 \cup MCDnsNames \cup {"fd7a", "115c", "a1e0", "1", "example", "ts"}

MCWritten ==
  [n \in MCV4 \cup MCV6 \cup MCDnsNames |->
     CASE n = "::1" -> <<":", ":", "1">>
       [] n = "fd7a:115c:a1e0::1" -> <<"fd7a", ":", "115c", ":", "a1e0", ":", ":", "1">>
       [] n = "desk" -> <<"desk", ".", "example", ".", "ts">>
       [] OTHER -> <<n>>]

Config(allows, bind, hosts) ==
  [valid |-> TRUE, allows |-> allows, bind |-> bind, port |-> "7770", hosts |-> hosts]
MCEdits == {Config("somebody", Unreadable, {<<"alias", ".">>, << >>}), Config("nobody", NotGiven, {}),
            Config("malformed", NotGiven, {}),
            Config("somebody", "100.64.0.1", {<<"[", ":", ":", "1", "]", ":", "port">>})}

Up(ips) == [found |-> TRUE, up |-> TRUE, ips |-> ips, names |-> {"desk"}]
Missing == [found |-> FALSE, up |-> FALSE, ips |-> << >>, names |-> {}]
MCNets  == {Up(<<"fd7a:115c:a1e0::1", "100.64.0.1">>), Up(<<"100.64.0.2">>), Up(<< >>), Missing}

Flags(bind, port, allow, dev) == [bind |-> bind, port |-> port, allow |-> allow, dev |-> dev]
MCHandOptions == {Flags("192.168.0.2", NotGiven, "somebody", FALSE),
                  Flags(NotGiven, NotGiven, "somebody", FALSE),
                  Flags(NotGiven, "7771", "nobody", TRUE)}
=============================================================================
