------------------------------ MODULE Service ------------------------------
(***************************************************************************)
(* `rdc service install | uninstall` (src/src/service/) under the three    *)
(* service managers, one external command at a time, and the daemon that   *)
(* the manager starts, restarts and stops.                                 *)
(*                                                                         *)
(* The managers are modelled by what the code asks of them: systemd reads  *)
(* unit files again on daemon-reload and starts linked ones at login,      *)
(* launchd loads every plist at login, Task Scheduler holds the task       *)
(* itself.  A command may fail at any call, or be interrupted, and be      *)
(* given again.                                                            *)
(***************************************************************************)
EXTENDS Startup

CONSTANTS
  Managers,     \* those considered, out of the three below
  Edits,        \* the config files the operator may write
  Nets,         \* the states tailscaled may be in
  OldBin,       \* the executable the task of an older release runs
  HandOptions,  \* the flags of a daemon started by hand
  MaxCommands,  \* bound: commands given
  MaxFaults,    \* bound: calls and queries that fail, and processes that die
  MaxChanges    \* bound: edits, changes of tailscaled, logins and starts by hand

ASSUME ServiceAssumption ==
  /\ Managers \subseteq {"systemd", "launchd", "schtasks"}
  /\ Procs = {"managed", "stray"}
  /\ Edits \subseteq Configs /\ Nets \subseteq Networks /\ OldBin \in Bins
  /\ HandOptions \subseteq Options
  /\ Bins \cap {"none", NotGiven} = {}
  /\ {MaxCommands, MaxFaults, MaxChanges} \subseteq Nat

VARIABLES
  os,       \* the service manager
  file,     \* the executable the unit file, plist or task names
  linked,   \* systemd: the unit is enabled
  known,    \* the executable of the definition the manager has loaded
  wanted,   \* the manager keeps the daemon running
  last,     \* how the manager's daemon ended last, since it was started by request
  tries,    \* restarts after a failure, where they are counted
  legacy,   \* Task Scheduler: the task of an older release is there
  cmd,      \* the command under way or last given
  commands, faults, changes

managerVars == <<file, linked, known, wanted, last, tries, legacy>>
budgets     == <<commands, faults, changes>>
vars == <<config, tailnet, serve, os, managerVars, cmd, budgets>>

None       == "none"
MaxRetries == 3    \* RestartOnFailure, Count

(* A command: its operation, the binary it runs from, the calls it has yet *)
(* to make, those of them that failed, and how it stands.                  *)
Idle == [op |-> "none", bin |-> None, todo |-> << >>, failed |-> {}, is |-> "idle"]

InstallReloadFirst ==  \* mutant: systemd reads its units before the new one is written
  [systemd  |-> <<"reload", "write", "enable">>,
   launchd  |-> <<"bootout", "write", "bootstrap">>,
   schtasks |-> <<"legacy", "create", "end", "kill", "run">>]
Install ==
  [systemd  |-> <<"write", "reload", "enable">>,
   launchd  |-> <<"bootout", "write", "bootstrap">>,
   schtasks |-> <<"legacy", "create", "end", "kill", "run">>]

UninstallNoKill ==  \* mutant: the task is ended and removed, and that is all
  [systemd  |-> <<"disable", "delete", "reload">>,
   launchd  |-> <<"bootout", "delete">>,
   schtasks |-> <<"query", "end", "unregister">>]
Uninstall ==
  [systemd  |-> <<"disable", "delete", "reload">>,
   launchd  |-> <<"bootout", "delete">>,
   schtasks |-> <<"query", "end", "kill", "unregister">>]

(* A failing call that the command passes over, and one that ends it; of   *)
(* those in both sets the first kind of failure is an exit status, the     *)
(* second a command that cannot be run.                                    *)
Ignored == {"reload", "disable", "bootout", "legacy", "end", "query"}
Fatal   == {"write", "reload", "enable", "delete", "bootstrap", "create", "kill", "run", "query",
            "unregister"}

Init ==
  /\ config \in Edits /\ tailnet \in Nets /\ os \in Managers
  /\ serve = [p \in Procs |-> Gone]
  /\ file = None /\ linked = FALSE /\ known = None /\ wanted = FALSE
  /\ last = "none" /\ tries = 0
  /\ legacy \in (IF os = "schtasks" THEN BOOLEAN ELSE {FALSE})
  /\ cmd = Idle
  /\ commands = 0 /\ faults = 0 /\ changes = 0

Fault  == faults < MaxFaults /\ faults' = faults + 1
Change == changes < MaxChanges /\ changes' = changes + 1

-----------------------------------------------------------------------------
(* Every command reads the config first, and install refuses one whose     *)
(* grants are malformed or allow nobody: --allow is a flag of serve.       *)
Running == cmd.is = "running"

Give(op, bin) ==
  /\ ~Running
  /\ commands < MaxCommands
  /\ config.valid /\ (op = "install" => config.allows = "somebody")
  /\ cmd' = [op |-> op, bin |-> bin, failed |-> {}, is |-> "running",
             todo |-> IF op = "install" THEN Install[os] ELSE Uninstall[os]]
  /\ commands' = commands + 1
  /\ UNCHANGED <<Environment, serve, os, managerVars, faults, changes>>

After(todo, failed) ==
  [cmd EXCEPT !.todo = todo, !.failed = failed, !.is = IF todo = << >> THEN "ok" ELSE @]
Done == After(Tail(cmd.todo), cmd.failed)

Calls(call) == Running /\ Head(cmd.todo) = call /\ cmd' = Done

(* The manager ends its daemon. *)
StopManaged == serve' = [serve EXCEPT !["managed"] = Gone]

StartManaged ==
  /\ last' = "none" /\ tries' = 0
  /\ IF Alive("managed") THEN UNCHANGED serve ELSE Launch("managed", known', NoOptions, FALSE)

WriteFile ==
  /\ Calls("write")
  /\ file' = cmd.bin
  /\ UNCHANGED <<linked, known, wanted, last, tries, legacy, serve>>

DeleteFile ==
  /\ Calls("delete") \/ Calls("unregister")
  /\ file' = None
  /\ known' = IF os = "schtasks" THEN None ELSE known
  /\ wanted' = IF os = "schtasks" THEN FALSE ELSE wanted
  /\ UNCHANGED <<linked, last, tries, legacy, serve>>

Reload ==
  /\ Calls("reload")
  /\ known' = file
  /\ UNCHANGED <<file, linked, wanted, last, tries, legacy, serve>>

(* `enable --now`: starts the unit unless it runs already. *)
Enable ==
  /\ Calls("enable")
  /\ linked' = TRUE
  /\ known' = IF known = None THEN file ELSE known
  /\ wanted' = TRUE
  /\ StartManaged
  /\ UNCHANGED <<file, legacy>>

Disable ==
  /\ Calls("disable")
  /\ linked' = FALSE /\ wanted' = FALSE
  /\ StopManaged
  /\ UNCHANGED <<file, known, last, tries, legacy>>

(* `bootout`, and `bootstrap`, which refuses a label that is loaded. *)
BootOut ==
  /\ Calls("bootout")
  /\ known' = None /\ wanted' = FALSE
  /\ StopManaged
  /\ UNCHANGED <<file, linked, last, tries, legacy>>

BootStrap ==
  /\ Calls("bootstrap")
  /\ known = None
  /\ known' = file /\ wanted' = TRUE
  /\ StartManaged
  /\ UNCHANGED <<file, linked, legacy>>

AlreadyLoaded ==
  /\ Running /\ Head(cmd.todo) = "bootstrap"
  /\ known # None
  /\ cmd' = [cmd EXCEPT !.is = "error"]
  /\ UNCHANGED <<managerVars, serve>>

CreateTask ==
  /\ Calls("create")
  /\ file' = cmd.bin /\ known' = cmd.bin
  /\ UNCHANGED <<linked, wanted, last, tries, legacy, serve>>

(* remove_legacy_task: the task of an older release, and its daemon if     *)
(* /End reaches it.                                                        *)
RemoveLegacy ==
  /\ Calls("legacy")
  /\ legacy' = FALSE
  /\ \/ UNCHANGED serve
     \/ legacy /\ ~serve["stray"].hand /\ serve' = [serve EXCEPT !["stray"] = Gone]
  /\ UNCHANGED <<file, linked, known, wanted, last, tries>>

(* /End ends conhost; the daemon below it may live on. *)
EndTask ==
  /\ Calls("end")
  /\ wanted' = FALSE
  /\ \/ StopManaged
     \/ /\ Alive("managed") /\ ~Alive("stray")
        /\ serve' = [serve EXCEPT !["managed"] = Gone, !["stray"] = serve["managed"]]
  /\ UNCHANGED <<file, linked, known, last, tries, legacy>>

(* stop_running_daemons: this binary's, whoever started them. *)
KillOwn ==
  /\ Calls("kill")
  /\ serve' = [p \in Procs |-> IF serve[p].bin = cmd.bin THEN Gone ELSE serve[p]]
  /\ UNCHANGED managerVars

RunTask ==
  /\ Calls("run")
  /\ wanted' = TRUE /\ known' = known
  /\ StartManaged
  /\ UNCHANGED <<file, linked, legacy>>

(* A task that is not there is not removed; a stray daemon is stopped. *)
QueryTask ==
  /\ Running /\ Head(cmd.todo) = "query"
  /\ cmd' = IF file # None THEN Done ELSE After(<<"kill">>, cmd.failed)
  /\ UNCHANGED <<managerVars, serve>>

Call ==
  /\ \/ WriteFile \/ DeleteFile \/ Reload \/ Enable \/ Disable \/ BootOut \/ BootStrap
     \/ AlreadyLoaded \/ RemoveLegacy \/ CreateTask \/ EndTask \/ KillOwn \/ RunTask \/ QueryTask
  /\ UNCHANGED <<Environment, os, budgets>>

(* The next call fails and changes nothing. *)
Failed == cmd.failed \cup {Head(cmd.todo)}

PassOver ==
  /\ Running /\ Head(cmd.todo) \in Ignored
  /\ Fault
  /\ cmd' = IF Head(cmd.todo) = "query" THEN After(<<"kill">>, Failed)
            ELSE After(Tail(cmd.todo), Failed)
  /\ UNCHANGED <<Environment, serve, os, managerVars, commands, changes>>

GiveUp ==
  /\ Running /\ Head(cmd.todo) \in Fatal
  /\ Fault
  /\ cmd' = [cmd EXCEPT !.failed = Failed, !.is = "error"]
  /\ UNCHANGED <<Environment, serve, os, managerVars, commands, changes>>

-----------------------------------------------------------------------------
(* The manager and the daemon.  systemd restarts what failed, launchd what *)
(* ended in any way, Task Scheduler what failed, three times.              *)
RestartsNothing == os = "launchd"  \* mutant: a unit without Restart=
Restarts ==
  \/ os = "launchd"
  \/ os = "systemd" /\ last # "ended"
  \/ os = "schtasks" /\ last # "ended" /\ tries =< MaxRetries

Counted == IF os = "schtasks" /\ tries =< MaxRetries THEN tries + 1 ELSE tries

Reap(p) ==
  /\ serve[p].at \in {"failed", "ended"}
  /\ serve' = [serve EXCEPT ![p] = Gone]
  /\ IF p = "managed"
     THEN /\ last' = serve[p].at
          /\ tries' = Counted
     ELSE UNCHANGED <<last, tries>>
  /\ UNCHANGED <<Environment, os, file, linked, known, wanted, legacy, cmd, budgets>>

Restart ==
  /\ wanted /\ known # None
  /\ serve["managed"].at = "gone"
  /\ last = "none" \/ Restarts
  /\ Launch("managed", known, NoOptions, FALSE)
  /\ UNCHANGED <<Environment, os, managerVars, cmd, budgets>>

Daemon == \E p \in Procs : Steps(p) /\ UNCHANGED <<os, managerVars, cmd, budgets>>

Mishap ==
  /\ \E p \in Procs : Die(p) \/ Miss(p)
  /\ Fault
  /\ UNCHANGED <<os, managerVars, cmd, commands, changes>>

-----------------------------------------------------------------------------
(* The operator and the machine.                                            *)
AtLogin == IF os = "systemd" /\ ~linked THEN None ELSE file

Login ==
  /\ Change
  /\ serve' = [p \in Procs |->
       IF p = "stray" /\ legacy THEN Launched(OldBin, NoOptions, FALSE) ELSE Gone]
  /\ cmd' = Idle
  /\ known' = AtLogin /\ wanted' = (AtLogin # None) /\ last' = "none" /\ tries' = 0
  /\ UNCHANGED <<Environment, os, file, linked, legacy, commands, faults>>

StopCommand ==
  /\ Running
  /\ Change
  /\ cmd' = Idle
  /\ UNCHANGED <<Environment, serve, os, managerVars, commands, faults>>

StartByHand ==
  /\ serve["stray"].at = "gone"
  /\ Change
  /\ \E bin \in Bins, opts \in HandOptions : Launch("stray", bin, opts, TRUE)
  /\ UNCHANGED <<Environment, os, managerVars, cmd, commands, faults>>

StopByHand ==
  /\ \E p \in Procs : Interrupt(p)
  /\ Change
  /\ UNCHANGED <<os, managerVars, cmd, commands, faults>>

Edit ==
  /\ Change
  /\ \/ config' \in Edits \ {config} /\ UNCHANGED <<tailnet, serve>>
     \/ \E net \in Nets \ {tailnet} : Renumber(net)
  /\ UNCHANGED <<os, managerVars, cmd, commands, faults>>

Next ==
  \/ \E op \in {"install", "uninstall"}, bin \in Bins : Give(op, bin)
  \/ Call \/ PassOver \/ GiveUp
  \/ \E p \in Procs : Reap(p)
  \/ Restart \/ Daemon \/ Mishap
  \/ Login \/ StopCommand \/ StartByHand \/ StopByHand \/ Edit

(* A manager does what it was asked, and a daemon that runs gets on. *)
Fairness == WF_vars(\E p \in Procs : Reap(p)) /\ WF_vars(Restart) /\ WF_vars(Daemon)

Spec == Init /\ [][Next]_vars /\ Fairness

-----------------------------------------------------------------------------
Ends(op) == Running /\ cmd'.is = "ok" /\ cmd'.op = op

(* Whatever earlier commands left behind, an install that reports success  *)
(* has put its binary in place to be started now and at every login, even  *)
(* when calls whose failure it ignores have failed - except that systemd   *)
(* may keep the old definition when daemon-reload fails.  No daemon the    *)
(* manager started before still runs, but under systemd, whose             *)
(* `enable --now` leaves a running one alone; and no older task competes   *)
(* for the port (service/, Op::Install; docs/setup-windows.md: it stops    *)
(* the previous instance first).                                           *)
InstallOk ==
  [][Ends("install") =>
       /\ AtLogin' = cmd.bin /\ wanted'
       /\ "reload" \notin cmd.failed => known' = cmd.bin
       /\ os # "systemd" /\ "end" \notin cmd.failed => serve'["managed"].bin = cmd.bin
       /\ "legacy" \notin cmd.failed => ~legacy']_vars

(* What an uninstall that finds no task goes on to.                        *)
TaskNotFound == os = "schtasks" /\ cmd.todo = <<"kill">>

(* Whatever earlier commands left behind, an uninstall none of whose calls *)
(* failed leaves nothing: no definition, no manager that would restart it, *)
(* no daemon of the manager's, nor one that outlived the task it ran under *)
(* - except that, once an uninstall whose `/End` failed has removed the    *)
(* task, only daemons of the same executable are found (service/,          *)
(* Op::Uninstall; docs/setup-windows.md: stops the daemon started from     *)
(* that binary).                                                           *)
UninstallOk ==
  [][(Ends("uninstall") /\ cmd'.failed = {}) =>
       /\ file' = None /\ AtLogin' = None /\ ~wanted'
       /\ serve'["managed"].at = "gone" \/ (TaskNotFound /\ serve'["managed"].bin # cmd.bin)
       /\ os = "schtasks" /\ ~serve'["stray"].hand => serve'["stray"].bin # cmd.bin]_vars

(* A machine that is set up gets its daemon: when an installed service is  *)
(* kept by systemd or launchd, the config allows somebody and tailscaled   *)
(* has an address, the daemon serves in the end, however often it failed   *)
(* while something was missing, unless it was stopped under systemd        *)
(* (README: survives reboots; systemd.rs, Restart; launchd.rs, KeepAlive). *)
Ready ==
  /\ os = "launchd" \/ (os = "systemd" /\ last # "ended")
  /\ wanted /\ known # None
  /\ config.valid /\ config.allows = "somebody" /\ config.bind \notin Addresses
  /\ tailnet.found /\ tailnet.up /\ OwnAddresses # {}
  /\ serve["stray"].at = "gone"

ServesInTheEnd == Ready ~> (Serving("managed") \/ ~Ready)

-----------------------------------------------------------------------------
(* Why InstallOk and UninstallOk hold: what is true while a command runs,  *)
(* by the call that comes next.                                            *)
CommandInv ==
  /\ os \in {"systemd", "launchd", "schtasks"}
  /\ cmd \in [op : {"none", "install", "uninstall"}, bin : Bins \cup {None},
              todo : Seq(Ignored \cup Fatal), failed : SUBSET (Ignored \cup Fatal),
              is : {"idle", "running", "ok", "error"}]
  /\ Running => cmd.bin \in Bins /\ cmd.op # "none"

Under(manager, op) == Running /\ os = manager /\ cmd.op = op
Stopped == ~wanted /\ serve["managed"].at = "gone"

SystemdInv ==
  /\ Under("systemd", "install") =>
       /\ cmd.todo \in {<<"write", "reload", "enable">>, <<"reload", "enable">>, <<"enable">>}
       /\ Head(cmd.todo) # "write" => file = cmd.bin
       /\ Head(cmd.todo) = "enable" /\ "reload" \notin cmd.failed => known = cmd.bin
  /\ Under("systemd", "uninstall") =>
       /\ cmd.todo \in {<<"disable", "delete", "reload">>, <<"delete", "reload">>, <<"reload">>}
       /\ Head(cmd.todo) # "disable" /\ cmd.failed = {} => Stopped
       /\ Head(cmd.todo) = "reload" => file = None

LaunchdInv ==
  /\ os = "launchd" /\ known = None => ~Alive("managed")
  /\ Under("launchd", "install") =>
       /\ cmd.todo \in {<<"bootout", "write", "bootstrap">>, <<"write", "bootstrap">>, <<"bootstrap">>}
       /\ Head(cmd.todo) = "bootstrap" => file = cmd.bin
  /\ Under("launchd", "uninstall") =>
       /\ cmd.todo \in {<<"bootout", "delete">>, <<"delete">>}
       /\ Head(cmd.todo) = "delete" /\ cmd.failed = {} => Stopped

TaskInv ==
  /\ os # "schtasks" => ~legacy
  /\ os = "schtasks" /\ file = None => ~wanted
  /\ Under("schtasks", "install") =>
       /\ cmd.todo \in {<<"legacy", "create", "end", "kill", "run">>, <<"create", "end", "kill", "run">>,
                        <<"end", "kill", "run">>, <<"kill", "run">>, <<"run">>}
       /\ Head(cmd.todo) # "legacy" /\ "legacy" \notin cmd.failed => ~legacy
       /\ Head(cmd.todo) \in {"end", "kill", "run"} => file = cmd.bin /\ known = cmd.bin
       /\ Head(cmd.todo) \in {"kill", "run"} /\ "end" \notin cmd.failed => ~wanted /\ ~Alive("managed")
  /\ Under("schtasks", "uninstall") =>
       /\ cmd.todo \in {<<"query", "end", "kill", "unregister">>, <<"end", "kill", "unregister">>,
                        <<"kill", "unregister">>, <<"unregister">>, <<"kill">>}
       /\ TaskNotFound /\ cmd.failed = {} => file = None
       /\ cmd.todo \in {<<"kill", "unregister">>, <<"unregister">>} /\ cmd.failed = {} => Stopped
       /\ Head(cmd.todo) = "unregister" => serve["stray"].hand \/ serve["stray"].bin # cmd.bin

CommandInvs == CommandInv /\ SystemdInv /\ LaunchdInv /\ TaskInv
=============================================================================
