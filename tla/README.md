# rdc in TLA+

`rdc` lets an agent or a person see and operate the desktop of another machine
of the same tailnet. One binary has three roles: the daemon (`rdc serve`), the
MCP server (`rdc mcp`) and the command line client. This directory holds TLA+
modules for the parts of it that decide something, the TLC configurations that
check them, and proofs checked by TLAPS. `PROJECT.json` lists the runs, the
theorems, the lines each definition translates, the hazards the properties are
for, and for each checked property a change of the code that would break it.

Paths below are relative to `src/src/` unless they start with `docs/`.

## 1. The system

```
 agent --MCP--> mcp.rs --+                                 +--> input thread ----> enigo
                view.rs  |                                 |
 person --CLI-> main.rs -+-> dyn Desktop -- local ---------+--> clipboard thread -> arboard
                                 |                         |
                                 +-- remote -- HTTP --+    +--> blocking tasks (capture, windows, focus)
                                                      |
          middleware (Host, whois, allowlist) <-------+
               -> route -> audited (capability, audit line) -> local Desktop
```

| Part | State it keeps | Operations | What makes it hard | What makes it correct |
|---|---|---|---|---|
| Identity lookup (`server/auth.rs`, `tailscale.rs`) | cache: address to (stamp, identity) | `identify`, `whois` | the await between the look and the insert; overlapping lookups; fallback; a tailnet that changes | an identity is never older than the cache time and one delivery |
| Grants and allowlist (`config.rs`, `server/auth.rs`) | the grants, fixed at start | `parse_caps`, `resolve`, `grants`, `parse_allow_flag`, `new`, `permits`, `require` | three places that normalise names; tagged nodes; unions | a capability is held exactly when it was written |
| Request handling (`server/auth.rs`, `server/routes.rs`) | none beyond the requests in flight | middleware, five routes, `audited` | handlers dropped at any await; answers and lines that must agree | effects are authorised, lines are true and single |
| Threads and tasks (`desktop/local/`) | two job channels, the job under way | `input`, `clip`, the two thread loops, `spawn_blocking` | a clipboard that hangs, time limits, panics, jobs whose caller left | order, no loss of input, success means done once |
| Input actions (`desktop/local/input.rs`, `keys.rs`) | what is pressed, kept in the desktop | `perform`, `press_chord`, `parse_chord` | any of a dozen calls may fail | nothing stays pressed, refusals touch nothing |
| Audit log (`server/audit.rs`) | open file, bytes written, rotated files | `open`, `record`, `rotate`, `tail` | crashes and failing calls inside a rotation | files are the end of the log, bounded, in order |
| Coordinates (`proto.rs`, `view.rs`, `capture.rs`, `input.rs`) | none | `union`, `composite`, `screenshot`, `to_desktop`, `to_view`, `check`, `map` | rounding, edges, displays left of the origin | a pixel maps onto the display it shows, and is accepted |
| MCP server (`mcp.rs`) | the view, the `ops` lock | fourteen tools | calls sent together, failing calls, actions that happen late | pixels mean the image the agent saw |
| HTTP client (`desktop/remote.rs`) | none | one request per Desktop method, `check` | bodies that break off, answers that are axum's own, time limits | what the caller is told is true of the desktop |
| Capture (`desktop/local/capture.rs`, `mod.rs`) | none | `displays`, `screenshot`, `composite`, `monitor_for`, `screencapture_cli` | displays looked up several times, under other names, while the user changes them | the picture shows what it says, a click lands on it |
| Start (`server/mod.rs`, `main.rs`, `tailscale.rs`) | none | config, flags, bind address, gates, Host names, listener | sources that change between two looks, queries that fail one without the other | answers to its names, in every spelling, and to no others |
| Service (`service/`) | a unit file, plist or task; what the manager loaded | `install`, `uninstall`; the manager starts and restarts | external commands that fail or are interrupted, older and stray daemons | what a command reports is so; the daemon serves in the end |

The daemon's handlers, its two threads and its blocking tasks run concurrently
and meet in the job channels, the identity cache and the audit sink. The agent,
the MCP server and the daemon meet only in requests, any of which may be given
up by its sender while it is still being served.

## 2. The modules

| Module | Models | Checked by | Proved in |
|---|---|---|---|
| `IdentityCache` | `Auth::identify`, `Tailscale::whois`, the tailnet | `MCIdentityCache` | `IdentityCacheProofs` |
| `Access` (pure) | reading of grants, identity, allowlist | `MCAccess` | `AccessProofs` |
| `Admission` | a daemon with its grants, a peer that asks: every input of `Access` | `MCAccess` | `AccessProofs` |
| `Startup` | `rdc serve` up to its listener, `normalize_host` | `MCService` | `ServiceProofs` |
| `Service` | `rdc service`, the service managers, operator and login | `MCService` | `ServiceProofs` |
| `Daemon` | middleware, routes, threads, tasks, start and stop | `MCDaemon` | `DaemonProofs` |
| `Client` | `RemoteDesktop`, on top of `Daemon` | `MCDaemon` | `DaemonProofs` |
| `DesktopCalls` | abstract: what a Desktop call promises its caller | as a property of `Client` | refinement in `DaemonProofs` |
| `AuditTrail` | abstract: a log that forgets its oldest lines | as a property of `AuditSink` | refinement in `AuditSinkProofs` |
| `AuditSink` | `Audit::open`, `record`, `Sink::rotate`, `tail` | `MCAuditSink` | `AuditSinkProofs` |
| `InputActions` | `perform`, `press_chord`, `parse_chord` | `MCInputActions` | `InputActionsProofs` |
| `Geometry` (pure) | `Rect::union`, screenshot sizes, `ViewMap`, `CoordMap` | `MCGeometry` | `GeometryProofs` |
| `Capture` | listing, look-up, capture and placing of displays, the bounds of a later action | `MCGeometry` | `GeometryProofs` |
| `Mcp` | the MCP tools, their lock and view | `MCMcp` | `McpProofs` |
| `AtomicTools` | abstract: a session of one tool at a time | as a property of `Mcp` | refinement in `McpProofs` |

They fit together as the code does. `MCDaemon` computes what its callers may do
with the operators of `Access`. `InputActions` and `Capture` take the bounds
check and the rounding from `Geometry`. `Daemon` takes one job as one step, and
`InputActions` is what happens inside that step; a line that `Daemon` records
is a `Record` of `AuditSink`; the identity that `Daemon` takes from a request
is as old as `IdentityCache` allows; `Service` starts the processes whose first
steps are `Startup` and whose further life is `Daemon`.

Three components implement an abstract specification under a refinement mapping,
each checked as a property of the detailed one:

- `AuditSink` implements `AuditTrail` (`TrailKept`): whatever crashes between
  two calls, the files are the end of the log. Once a file system call has
  failed lines may be missing, but none ever appears twice or out of order.
- `Client` over `Daemon` implements `DesktopCalls` (`TraitKept`): at most one
  effect, "ok" means it took place, after "ok" or a refusal nothing more
  happens, and any other error says nothing about the past or the future.
- `Mcp` implements `AtomicTools` (`AsIfAlone`): a session in which each tool is
  one step on one current image. `MeantBy` says which images an action in the
  detailed model was mapped by.

### IdentityCache

A lookup is `idle`, waits for the LocalAPI or the CLI, holds an `answered`
identity, or is done. `Hit` and `Ask` are the first critical section of
`identify`, `Store` the second; `Answer` is the moment tailscaled reads its
network map. Ages stand for `Instant`s. `since` is a history variable, how long
ago an address last had each peer, and stops counting at the largest value that
matters. `Leave` is the end of the request, or its handler being dropped.
`Delivered` is the one assumption on the host: an answer reaches the cache
within `MaxLatency`. The code has no such limit, so staleness is stated as
`TTL + MaxLatency` and not as `TTL`.

### Access and Admission

`Access` has no state: grants as written in the file and in flags become allowlist entries,
and a whois answer becomes an identity. Names are uninterpreted; `Trim`,
`Lower` and `FirstLabel` are any functions with the laws of the string
functions (`SpellingAssumption`). Against this stands `Granted`, which says
directly when a written entry names a device and what it gives. `Admission` makes
a state of each choice of entries, flags and whois answer, and states the
promises of it.

### Daemon

One action is what a handler does between two awaits. `Arrive` is `check_host`;
`WhoisFails`, `Unlisted`, `NotGated`, `Forbidden`, `FailsAtOnce`, `Spawn` and
`Enqueue` are the ways on from the whois; `Resume`, `TimeOut`, `FocusEnds` and
`FocusGoesOn` the ways on from an answer. `Take`, `Work` and `Panic` are the
two threads, `RunTask` a blocking task. `HangUp` may happen at any await. A
focus is two blocking tasks, as on Windows; elsewhere one or both run without
an await in between, which is a special case. `End` drops the queues and the
tasks with the process: nothing of them is persisted. `accepted` and
`performed` are history.

### Client and DesktopCalls

`Returns` is what a caller of `RemoteDesktop` may be told: `check` of the whole
answer, or of one whose body broke off, or `net`'s error when nothing comes
back. `Knows` sums that up as `DesktopCalls` understands it: `ok`, `refused` or
`unknown`. A 200 that lost its body is heard as `backend` by the calls that
need one, though the daemon recorded `ok`: `Tell` allows it, as `unknown`.

### Startup and Service

`Load`, `Choose`, `AskIps`, `AskNames` and `Listen` are `serve` from the reading
of the config to the listener. Each reads the config or asks tailscaled at that
moment, and `Edit` may change either in between (`Renumber` for tailscaled).
What a process was started with is in `opts`: `--bind` and `--port` go before
the file, the grants of `--allow` are added to those of the file, and a daemon
with an empty file and a flag serves. The accepted names come from two queries
of tailscaled, and either may fail although the other does not (`Miss`).
Host names are texts, sequences of dots, colons, brackets and what lies between,
and `HostOf`, `TrimDots` and `Normalized` take them apart as `normalize_host`
does: an IPv6 address with a port and without brackets is not understood.
`Spelled` says, apart from that, how a client writes a name. `since` and
`missed` are history, what tailscaled was like while a process ran and whether
a query of it failed.

A command of `Service` is a sequence of external calls
(`Install`, `Uninstall`); each is an action that changes what the manager knows
(`file`, `linked`, `known`, `wanted`), `PassOver` and `GiveUp` are a call that
fails and is ignored or ends the command. `Restart` is the manager's policy as
the unit file, plist or task asks for it; `Login` loads the definitions anew.
`/End` of Task Scheduler ends `conhost`, and may leave the daemon below it as a
stray process. What the managers do is external to `service/` and modelled by
what the code expects of them.

### AuditSink

One action per file system call of `rotate` and `record`. `slot` holds the
files by name, `handle` follows the open file through renames and outlives its
name, as a file descriptor does. The mutex is held for a whole `record`, so
only `Crash` comes in between. A failed write may leave a fragment.

### InputActions

`Script` turns an action into its enigo calls, each with what its failure does
to the rest: `?` stops, the moves of a drag break off, the key of a chord is
noted and its releases are made anyway. `Verdict` is what is refused before the
first call. A call that fails is taken to have had no effect: enigo documents
nothing else, and a press that failed and took effect could not be told apart.

### Geometry

Everything on one axis, as both are treated alike. `f64` is kept as exact
fractions: the values the code meets are small multiples of small fractions,
where `f64` is exact or off by far less than half a unit, so only the rounding
of exact halves that `f64` misses is left out.

### Capture

One axis, like `Geometry`. `List` is the listing of `LocalDesktop::screenshot`;
`LookUp`, `CliFails`, `Grab` and `GrabFails` are `capture_display` for one
display after the other, and `Change` may come between any two. How xcap, the
listing and `screencapture` name a display is one of four `Keys`: by unique id,
by a name twins share, by a name alone, or by neither, as when hyprctl's ids and
names mean nothing to xcap (the ids are taken to be disjoint then). In the last
case xcap is asked for what it has at a point of the listing (`AtPoint`), in
coordinates of its own (`InXcap`), which are those of the listing times
`setup.zoom`: 1 where xcap made the listing, anything else where hyprctl did. A
look-up in other coordinates is `Foreign`. `Tile` and
`Offset` place the pictures; `Ask` lists the displays again for the action that
follows. `disturbed` is history: which displays changed since the listing.

### Mcp

A view is what was asked for, a display or all of them and the longest edge of
the image, and the arrangement of displays when it was taken; its rectangle and
its size in pixels follow from these. The
calls an agent sends together reach the lock in any order, because rmcp gives
each a task; from there tokio's mutex is first come, first served. `ActFails`
leaves an action done, not done, or still to come (`Late`), which is what
giving up on a daemon means.

## 3. Runs

| Run | Properties | Shows |
|---|---|---|
| `identity` | `StampsBacked`, `FreshIdentity` | no identity older than its limit, with both sources |
| `access` | `GrantedIffWritten`, `CreatorIrrelevantForTagged`, `AdmittedMayAct` | the allowlist means what was written |
| `service` | `AnswersToItsNames`, `InstallOk`, `UninstallOk`, `ServesInTheEnd` | commands mean what they report under three managers, a daemon answers to its names and no others, a service that is set up serves |
| `daemon` | `EffectsAuthorised`, `OneTrueLine`, `DenialsUnderstood`, `InputInOrder`, `TraitKept`, `NoLateInput` | effects, lines, answers and what the client makes of them agree, and input is in order and final, through hang-ups, a panic, a restart |
| `daemon_live` | `InputNotBlockedByClipboard`, `ClipboardAnswered`, `ShutdownCompletes` | a hung clipboard hurts nobody else |
| `sink` | `TypeOK`, `SizeBounded`, `TrailKept`, `ForgetsOnlyWhenFull` | rotation, crashes and failing calls keep the end of the log |
| `input` | `TypeOK`, `ValidatedFirst`, `DragReleases`, `KeyWithItsModifiers`, `NoKeyStaysDown`, `OkMeansAll` | what is left behind when a call fails |
| `mcp` | `TypeOK`, `DragInOneImage`, `PixelsOfTheImageSeen`, `AsIfAlone` | one view per drag, the right image, pixels that mean what was seen, one tool at a time |
| `geometry` | `PixelOnItsDisplay`, `AcceptedByInput`, `ThereAndBack`, `FitsAndStays`, `ShowsWhatItSays`, `LandsOnWhatItShows` | edges and rounding; the right display in the picture and under the click, while displays change |

Three runs end in a violation, and are kept because the documentation or a
comment says otherwise (quoted in `PROJECT.json`):

- `daemon_hangup` (`EveryActionRecorded`): an action whose caller hung up is
  performed and not recorded.
- `input_chord` (`ChordReleases`): when the second modifier of a chord cannot be
  pressed, the first is still down when the error is returned.
- `service_names` (`OwnNamesAccepted`): a daemon whose query for its addresses
  or names failed at its start serves, and refuses requests to names of its own
  for as long as it runs, although tailscaled has not changed.

More disagreements were met while modelling. The models contain the
behaviour; no property claims the opposite and no run is kept for them:

- Requests that never reach `audited` leave no line: `whoami`, health, a
  screenshot with a bad query, a body `Json` refuses, an unknown path.
  `SECURITY.md:40` says every request does. Hence `OneTrueLine` speaks of lines
  that exist and of gated requests.
- When the reopen at the end of a rotation fails (`server/audit.rs:167`), the
  sink keeps writing to the renamed file; later rotations move that file and in
  the end remove it under the open handle. From then on lines are lost without
  an error. Hence `SizeBounded` and the promise of `AuditTrail` that nothing is
  missing end with the first call that fails (`reliable`).
- A write that fails part way leaves a fragment, and the next line, whose write
  succeeds, continues it: `tail` can read neither (`server/audit.rs:146`).
- `mcp.rs:31` says a burst of calls keeps its view mapping. `after` always takes
  a screenshot of all displays, so when the agent last looked at one display
  and sends two actions at once, the second is mapped by an image it has not
  seen. Hence `PixelsOfTheImageSeen` speaks of an agent that waits for replies.
- `mcp.rs:31` and `docs/mcp.md:82` also say that a burst keeps its order. rmcp
  gives each call a task, and the tasks may reach the lock in any order (`Poll`);
  from there on they are served in it. `AsIfAlone` and `ServedInTurn` therefore
  say nothing about the order in which calls were sent.
- The last way `monitor_for` finds a display is by a point of the listing
  (`capture.rs:83`), which xcap takes in coordinates of its own. On Hyprland the
  listing is hyprctl's (`capture.rs:24-25`) and the two may differ: then another
  display may be shown, under the rectangle of the one asked for, with nothing
  changed. It takes a display that xcap knows by neither its id nor its name.
  `ShowsWhatItSays` and `LandsOnWhatItShows` exclude it (`Foreign`); without the
  exclusion TLC finds it at once.
- A `bind` in the config that is no IP address is treated as not given
  (`main.rs:218`), and the daemon listens on the node's own address;
  `docs/configuration.md:61` says anything that isn't a Tailscale address is
  rejected at startup. `Configs` has such a value (`Unreadable`). The address it
  listens on passes the same gate (`Passes`).
- `systemctl enable --now` leaves a daemon that already runs alone
  (`service/systemd.rs:26`): after an install over an older one the old binary
  runs until the next login or failure. `InstallOk` says so; launchd and Task
  Scheduler do stop it.
- When `daemon-reload` runs but fails, install reports success (`systemd.rs:25`
  looks at whether it ran only), and the manager may hold the old definition.
- `uninstall` under Task Scheduler removes the task although its `/End` failed
  (`service/windows.rs:201` looks at nothing): a daemon of another executable
  than the one that uninstalls lives on, and the next uninstall, which finds no
  task, stops daemons of its own executable only (`docs/setup-windows.md` says
  just that) and reports success. It takes three commands; the proof of
  `UninstallOk` met it, not the run. Hence the exception `TaskNotFound`.
- A drained or cut answer: a 200 whose body is lost is the error `backend` for
  the caller while the audit line says `ok`.

### Bounds

- `IdentityCache`: one tailnet address suffices, since entries of different
  addresses never meet; two identities for it and two lookups give every
  overlap. `TTL = 2`, `MaxLatency = 2` leave room for just fresh, just stale
  and a late answer. The proof has no bounds.
- `Access`: names chosen for the differences that matter: case, blanks, a
  DNS name, a tag, `*`, and devices without login or name.
- `Daemon`: two requests of any kind from three devices, one panic, two starts
  (`daemon_live`: one device, one start, no panic). Two requests are the least
  that overlap, share a queue and can change places in it. Requests are made
  once each, so the system may stop and deadlock is not checked; the same holds
  for the other modules, whose records, actions and calls are counted.
- `Service`: two commands, one failing call, failing query or dying process, and
  one change of everything else (edit, tailscaled, login, a daemon by hand, an
  interruption), over four config files, four states of tailscaled and three
  sets of flags for a daemon started by hand. Two commands are an
  install over what an earlier command left, one fault and one change reach
  every gap between two steps. With three commands, one fault and no change
  `InstallOk`, `UninstallOk` and the invariant of their proof were checked
  too; the proof has no bounds. IPv4 and IPv6 addresses of all three kinds, and
  every spelling of a name, are present; the config writes some of them dotted,
  empty, or with brackets and port. `service_names` needs one command and one
  failing query.
- `AuditSink`: lines of two or three units in files of five make a file of one
  or two lines; seven records rotate three files more than once. Two failing
  calls and two crashes may come between any two calls.
- `InputActions`: two failures among three actions, drags of the twelve steps
  the code makes, points on and over the border, the scroll limit cut to 3.
- `Mcp`: three calls, the least at which one call comes between two others, by
  an agent that sends up to one, two or three at a time, and one rearrangement
  of the displays. Screenshots are of all displays or of one of two, in the size
  the server was started with or another, which is enough for two views to
  differ in any one respect.
- `Geometry`: spans up to seven points long on either side of the origin, pixels
  in halves (`Part = 2`).
- `Capture`: two displays, touching, overlapping or apart, or one of them alone;
  five densities, no limit and limits that do and do not bite; two changes, so
  that one display may go while another takes its place in the count; and xcap's
  coordinates as in the listing, or half as large again.

### Fairness

`Daemon!FairSpec` is fair to handlers (the runtime polls what is ready), to
tokio's timer, to whois, to blocking tasks and to the input thread, whose calls
return. It is not fair to the clipboard thread: arboard waits for whoever owns
the clipboard, which is what the time limit is for. Nor is it fair to hang-ups,
panics or `Kill`. `Interrupt` needs none: `ShutdownCompletes` speaks of a
daemon that was asked to stop.

One assumption on the peer is in it. Reading the body of a POST is an await of
its own (`server/routes.rs:121`), which the model folds into the wait for whois.
`WF_vars(Decide(r))` therefore assumes a peer that sends the body it announced:
neither axum nor this code puts a limit on that, and a peer that stops in the
middle and keeps its connection delays a graceful shutdown, as open connections
do. `ShutdownCompletes` is about the daemon's own threads. The other two
properties start from `waiting`, when the body is there.

Nothing is claimed of when a call of `Mcp` is answered, and `Mcp` states no
fairness. The 30 seconds of `RemoteDesktop` do not exist for `rdc mcp --target
local`, where input (`desktop/local/input.rs:58`) and capture have no limit. What
is proved instead needs none: whoever holds the lock has a step left, and each of
its steps brings the others nearer (`LockServes`, `ServedInTurn`).

`Service!Spec` is fair to the manager, which notices an ended daemon and starts
it again when its definition asks for that, and to the daemon's own steps. It is
not fair to commands, mishaps, logins or edits. `ServesInTheEnd` is conditional
on the world staying `Ready`.

## 4. Proofs

TLAPS proves the following for every value of the constants that the named
assumptions allow. Of the properties the runs check, all are proved but those
listed at the end. The inductive invariants stand in the modules themselves, as
far as they say something of the code, and TLC has checked each on the instance
of the module's run.

- **IdentityCacheProofs.** `IdentitiesAreFresh` needs to know of an answer on
  its way, and of an entry in the cache, how old the fact behind it is.
  `StampsBacked` says so: the peer tailscaled knows is true now, an answer is no
  older than the time it was held, an entry was at most `MaxLatency` old when it
  was stamped. It is inductive; the property is an action property that follows
  from it step by step.
- **AccessProofs.** `GrantedExactlyAsWritten` goes from written entries to
  allowlist entries and from whois answers to identities by one lemma for each:
  matching a set is matching one of its members, trimming and lowering twice
  changes nothing. `CreatorNeverCounts` and `AdmittedHoldsACapability` follow
  the same definitions. `AlwaysGrantedIffWritten`, `CreatorNeverRelevant` and
  `AdmittedAlwaysMayAct` say it of the states of `Admission`, whose inputs are
  any entries, grants and answers.
- **DaemonProofs.** `EffectsAlwaysAuthorised` rests on `EntitledInv`: whatever
  is in a task, a queue or a thread belongs to a request whose caller may have
  it. `EffectsAuthorised` alone is not inductive, as it says nothing of a job
  that waits. `OneTrueLineAlways` rests on `LinesFollowAnswers`: an unanswered
  request has no line, an answered one has none or the one that matches.
  The order of input rests on `PipelineInOrder`: what the thread has in hand and
  in its queue is the end of what was accepted, in that order, also after a
  panic or a restart has dropped some of it. `OwedOnce` and `Accounted` are the
  books of every request: what may still be done for it is owed once, by one
  thread or task, and not yet done, and what it and its handler were told agrees
  with that. From them follow `NoLateInputAlways` and, with what each answer may
  be heard as, `TraitAlwaysKept`: every step of daemon and client is a step of
  `DesktopCalls` or changes nothing of it. `DenialsAlwaysUnderstood` rests on
  `Explained`, why an answer says what it says.
- **InputActionsProofs.** `LeftOfScript` says that what is left to do is the end
  of the script of an accepted action, so that the next call is known from the
  number of those behind it. `AlwaysValidatedFirst` then needs that a point
  along a drag, rounded, lies between its ends. `DragInv` and `KeyInv` add who
  answers for what is down between two calls: the release still to come in the
  script. `ChordInv` says which modifiers are down before the key. That a chord
  of any length has each modifier its tokens name once is by induction on the
  tokens (`ChordMods` is a recursive function).
- **AuditSinkProofs.** `SinkTyped` strengthens the types by what is known of
  the loop variable and of the line inside a record. `FilesStayInSize`, as
  long as no call has failed, rests on `SizeInv`: between
  rotations `Sink.written` is the length of the file at the path, and a line
  about to be written fits. After a failed call the bound is false: `written`
  counts nothing of a torn write. `TrailAlwaysKept` is the refinement of
  `AuditTrail`. It rests on `TrailInv`: whatever has failed, the open file is the
  last there is, so that what is added to it is added to the end of the log; and
  until a call fails, every line is whole and a file is moved where there is none,
  the gap that the rotation carries upwards. Each step is one of six kinds
  (`StepKinds`), and for each it is shown what it does to the concatenation of
  all files: it keeps it, adds to its end, cuts off its beginning (the file
  removed) or a piece out of it (a file that a rename replaced, after a call had
  failed). For that the concatenation of any number of files is taken apart where
  one of them, or two neighbours, change (`OneChanges`, `TwoChange`), by induction
  on their number. `AlwaysForgetsOnlyWhenFull` adds `FilledUp`: without a crash or
  a failing call the rotated names are used without a hole but for that gap.
- **GeometryProofs.** A union covers both spans, and by induction that of a list
  covers all of them (`Spanned`, for any number of displays); a pixel, whatever it
  is, maps into the region of its image; a point of a region is accepted by every
  desktop that covers it; to a pixel and back is off by half of each. Of
  `Capture` the invariants are `LayoutInv` (what was listed still is, but for
  the displays that changed since), `CaptureInv` (how far the capture is) and
  `FoundInv`: a display found for an entry is the one looked for, or there is
  one of the excuses `AlwaysShowsWhatItSays` names. That the displays can be
  counted as the system does (`Order`) is itself proved, from their being
  finitely many. `LandsAlwaysOnWhatItShows` rests on `CanvasInv`: how the
  position, the length and the canvas of a picture come from the display and the
  density, each rounded on its own. A click inside the seam is then short of the
  end of the display, or past its start, by more than half a point, so that
  rounding to the nearest point stays on the display. The seam is half a point and
  one and a half pixels at the end of a picture and a pixel less half a point at
  its start, which are the errors of the three roundings; with a seam of one point
  only the property is false (at a density of 5/4, or with three displays).
- **ServiceProofs.** First about texts: `SpellingNormalized`, that what
  `Normalized` leaves of any spelling of any name, dotted, bracketed or with a
  port, is the text of the name, from the string operations and what
  `TextAssumption` says of names (no trailing dot; several colons in an IPv6
  address and none in any other; no two alike). `ServeInv` then says of every
  process what its steps have found out: after `AskIps` and after `AskNames` the
  names it has collected are no others than the address it listens on, those
  configured and those the node had while it ran (`Sound`), and all of those if
  tailscaled has stayed as it was and has answered (`Complete`). A step of the
  environment only adds to `since`, and processes only ever end, start anew or,
  at `/End`, change places; so it is inductive whatever the manager and the
  operator do. `AlwaysAnswersToItsNames` follows from both: `HostAllow` of what
  was collected is the set of the texts of exactly those names.
  `InstallAlwaysOk` and `UninstallAlwaysOk` are about the last call of a command
  and need what the calls before it have left: `SystemdInv`, `LaunchdInv` and
  `TaskInv` say so by the calls still to come, as far as none of them failed and
  was passed over. Whatever happens beside the command (`Beside`) respects it: a
  daemon the manager does not keep, once gone, stays gone, and one started by
  hand is not the manager's. Two facts hold between commands too: launchd has
  no daemon without a definition loaded, Task Scheduler keeps none without a
  task; without them a second command could not rely on anything.
- **McpProofs.** `DragInOneImage` is not inductive: the view could change between
  the two looks of a drag. `OneView` adds that a call that has looked and not
  acted is the head of the queue for the lock and that the view is still the one
  it used; every action that replaces the view is taken by the head.
  `PixelsOfTheImageSeen` rests on `InSight`: with one call outstanding (here the
  set of calls has to be finite, since what the agent counts is their number)
  the view is the image that is seen or, between answer and delivery, the one
  on its way. `ToolsAreAtomic` is the refinement. Each action of `Mcp` is shown
  to be the action of `AtomicTools` of the same meaning or to change nothing
  it sees. It needs `OneView` (what an action means is current when it takes
  place), that what was done or is owed keeps its meaning (`Fixed`), and
  `AloneInv`: a call between its action and its answer holds the lock, so what
  is done after its action are late actions of calls that failed.
  `LockAlwaysServes` and `AlwaysServedInTurn` are what the lock contributes to
  every call being answered: the head of the queue has a step left, and each of
  its steps lowers what stands before every waiting call, at most four for each
  call in front, while no other step raises it. That the head takes its step is
  up to the desktop and not claimed. `ServeInv` needs the queue to be
  exactly the calls that wait, each once.

Induction over numbers is stated of sets (`Induction`: a set that has 0, and with
a number the next, has all), because the library's theorems, whose parameter is
an operator, cannot be applied. No module uses RECURSIVE operators.

Only model-checked:

- all liveness (`ServesInTheEnd`, `InputNotBlockedByClipboard`,
  `ClipboardAnswered`, `ShutdownCompletes`): TLAPS 1.4.5 proves nothing under
  fairness.

## 5. Not modelled

- Pixels, encoders, window lists, the platform calls behind focus: I/O without
  decisions. Focus appears as two tasks that may fail.
- The look for sockets, pipes and programs in `tailscale.rs` (`find_cli`,
  `detect_api`, the proof of the macOS GUI variant): one bit of `Startup`.
- `doctor`, `permissions`, `service status`: they print what they find.
- The command line client: it parses, makes one call of `Client` and prints.
- The text of the screenshot headers: a client that cannot read them reports
  `backend`, like one that misses the body.
- Wording of messages, log output, timestamps, `sanitize`.
- The number of runtime threads: `whois` by CLI blocks one of them.
- Where the compositor puts a point of a job whose bounds are no longer true:
  `Capture` follows a display that changes between screenshot and action up to
  the bounds the job carries.
- Which of several calls sent at once takes the MCP lock first: rmcp's choice.
- The machine going down. `Crash` of `AuditSink` is the end of the process, after
  which what was written stays; the code never calls sync, so a power failure may
  lose lines that were written. Nor does a kill in the middle of a write tear it:
  only a write that fails leaves a fragment.
- Ids of hyprctl that happen to be those of another display in xcap: `Capture`
  takes the two to be disjoint where they differ at all.

## 6. Plan

Done: the modules above, and proofs of every property the runs check that is not
about liveness. Left, in this order:

1. The safety half of the liveness of `Daemon`, as for `Mcp`: that nobody waits
   on a channel for somebody who has no step left.
   The body of a POST as a stage of its own belongs there.
2. The state of `Service` that `ServesInTheEnd` starts from, for every manager.

## 7. Running

```
tlc -config MCDaemon.cfg MCDaemon      # one run; see PROJECT.json for all
tlapm DaemonProofs.tla                 # one module of proofs
```
