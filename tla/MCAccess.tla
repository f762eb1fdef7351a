------------------------------ MODULE MCAccess ------------------------------
(***************************************************************************)
(* Admission over small inputs: names that differ by case and blanks only, *)
(* a tag, a DNS name, words that stand for several capabilities, for one,  *)
(* for nothing, and one that is misspelt.                                  *)
(***************************************************************************)
EXTENDS Admission

MCNames == {"", " ", "*", "Alice", "alice", " alice", "srv", "SRV", "srv.net", "tag:ops"}
MCTrim  == [n \in MCNames |-> CASE n = " " -> "" [] n = " alice" -> "alice" [] OTHER -> n]
MCLower == [n \in MCNames |-> CASE n = "Alice" -> "alice" [] n = "SRV" -> "srv" [] OTHER -> n]
MCFirstLabel == [n \in MCNames |-> IF n = "srv.net" THEN "srv" ELSE n]
MCWords    == {"View", "control", "all", ",", "veiw"}
MCWordCaps == [w \in MCWords |->
                 CASE w = "View" -> {"view"} [] w = "control" -> {"input"}
                   [] w = "all" -> Caps [] w = "," -> {} [] w = "veiw" -> BadWord]

MCPlainEntries == {{}, {" "}, {"Alice"}, {"*"}, {"srv", "Alice"}}
TableWho       == {{}, {" "}, {" alice"}, {"SRV", "tag:ops"}, {"tag:ops"}}
TableCan       == {NotSet, {}, {"View"}, {"View", "control"}, {"all", ","}, {"View", "veiw"}, {","}}
MCTables       == {{}} \cup {{[who |-> w, can |-> c]} : w \in TableWho, c \in TableCan}
MCFlagGrants   == {{}, {[who |-> {"srv"}, can |-> {"control"}]},
                   {[who |-> {"Alice"}, can |-> NotSet]}, {[who |-> {""}, can |-> NotSet]}}
MCPeerAnswers  == [login : {NoLogin, "", "Alice", "alice"}, name : {"", "srv.net"},
                   computed : {"", "SRV"}, tags : {{}, {"tag:ops"}, {"srv"}}]
=============================================================================
