------------------------------- MODULE Deploy -------------------------------
(***************************************************************************)
(* tools/deploy.py with tools/components and tools/preflight.py: install   *)
(* and uninstall of the selected components, in their order, on a printer  *)
(* where prints start and power fails at any time.                         *)
(*                                                                         *)
(* One step is one change to the printer.  Any of them can fail: an        *)
(* installation stops there, an uninstallation goes on after a DeployError *)
(* and stops at other exceptions.  The upload of the configuration is the  *)
(* push of ConfigPush without its races, with --yes and --no-restart.      *)
(***************************************************************************)
EXTENDS ConfigPlan, Naturals, Sequences

CONSTANTS
  Libs,          \* the preload patches
  MaterialCfg,   \* wm_material.cfg
  MaterialText,  \* and its text
  Vendor,        \* extras of the vendor's firmware
  Has,           \* what else the printer has, see Facts
  Printers,      \* configurations and extras a printer may start with
  Commands,      \* command lines that are given
  Faults,        \* what may fail
  MaxCommands    \* bound

ORDER == <<"config", "touchscreen", "material", "preload">>
Components == {ORDER[i] : i \in DOMAIN ORDER}
\* Command lines, without status and list; some options go with installations.
Requests ==
  {r \in [action : {"install", "uninstall"}, comps : SUBSET Components,
          chosen : SUBSET Managed, http : BOOLEAN, quiet : BOOLEAN, only : BOOLEAN] :
     /\ r.comps # {} /\ (r.http => r.comps = {"config"}) /\ (r.chosen # {} => "config" \in r.comps)
     /\ r.http \/ r.only \/ r.chosen # {} => r.action = "install"}

\* What a remote check looks for, each a group of directories, files or commands.
Facts == {"extras", "systemd", "nginx", "screen", "ffmpeg", "port", "gcc", "client"}
\* The screen bridge's parts, in the order in which install.sh creates them.
PARTS == <<"payload", "include", "unit", "webcam">>
Parts == {PARTS[i] : i \in DOMAIN PARTS}

Own == {"wmp_recovery", "wm_material"}   \* the project's extras

\* "preflight": a check cannot be made.  "unclear": the print state cannot be
\* established.  "stop": an exception.  "refuse": a script, build or service
\* fails.  "silent": a remote command fails whose status nobody looks at.
\* "ignored": a step of a removal fails, and the removal goes on.
ASSUME DeployAssumption ==
  /\ MaterialCfg \in Names \ Managed /\ MaterialText \in Texts /\ Vendor \subseteq Extras
  /\ Own \subseteq Extras \ Vendor
  /\ Printers \subseteq [conf : [Names -> Texts \cup {Absent}], extras : SUBSET Extras]
  /\ Commands \subseteq Requests /\ Has \subseteq Facts
  /\ Faults \subseteq {"preflight", "unclear", "stop", "refuse", "silent", "ignored"}
  /\ MaxCommands \in Nat

\* Sections of the project's own extras are in printer.cfg and in the material
\* file, which has no other and includes nothing, and a printer to begin with
\* has the extras of those that it has.
ASSUME OwnAssumption ==
  /\ Extras = Own \cup Vendor
  /\ \A n \in Managed : Repo[n].sections \cap Own \subseteq IF n = Root THEN {"wmp_recovery"} ELSE {}
  /\ MaterialText.sections \subseteq {"wm_material"}
  /\ MaterialText.needs = {} /\ MaterialText.globs = {}
  /\ \A p \in Printers : \A n \in Available(p.conf) :
       /\ p.conf[n].sections \cap Own \subseteq p.extras
       /\ "wm_material" \in p.conf[n].sections => n = MaterialCfg

VARIABLES
  conf, extras,            \* configuration files and Klipper extras
  libs, dropin, preloaded, \* libraries, those the service names, those it runs with
  bridge,                  \* parts of the screen bridge
  klipper, running, stale, \* its state and sections; files changed since it loaded
  print,
  action, comps, chosen, http, quiet, only,  \* the command and its options
  pc, rc, commands,
  unchecked, failed, left, need, todo,
  late,   \* history: a print started after the last check
  half    \* history: what was taken away, or opened, before what refers to it

disk    == <<conf, extras, libs, dropin, bridge>>
printer == <<disk, preloaded>>
host    == <<klipper, running, stale, print>>
command == <<action, comps, chosen, http, quiet, only, commands>>
checks  == <<unchecked, failed>>
work    == <<left, need, todo>>
vars == <<printer, host, command, pc, rc, checks, work, late, half>>

\* RESTART_AFTER
ForKlipper == {"config", "material"}
Loads == Resolves(conf, Root) /\ Active(conf) \subseteq extras

TypeOK ==
  /\ conf \in [Names -> Texts \cup {Absent}] /\ extras \subseteq Extras
  /\ libs \subseteq Libs /\ dropin \subseteq Libs /\ preloaded \subseteq Libs
  /\ bridge \subseteq Parts
  /\ klipper \in {"ready", "error"} /\ running \subseteq Extras /\ stale \in BOOLEAN
  /\ print \in {"idle", "printing", "paused"} /\ (klipper = "error" => print = "idle")
  /\ action \in {"install", "uninstall"} /\ comps \subseteq Components
  /\ chosen \subseteq Managed /\ http \in BOOLEAN /\ quiet \in BOOLEAN /\ only \in BOOLEAN
  /\ pc \in {"idle", "first", "preflight", "next", "helper", "diff", "upload",
             "payload", "include", "unit", "webcam", "extra", "fill", "cfg", "fillcfg",
             "build", "service", "active", "restart", "wait"}
  /\ rc \in {0, 1} /\ commands \in Nat
  /\ unchecked \subseteq comps /\ failed \subseteq Components /\ left \subseteq comps
  /\ todo \subseteq Managed /\ need \in BOOLEAN /\ late \in BOOLEAN
  /\ half \subseteq {"wm_material", "include"}

Init ==
  /\ \E p \in Printers : conf = p.conf /\ extras = p.extras
  /\ libs = {} /\ dropin = {} /\ preloaded = {} /\ bridge = {}
  /\ klipper = (IF Loads THEN "ready" ELSE "error")
  /\ running = (IF Loads THEN Active(conf) ELSE {}) /\ stale = FALSE /\ print = "idle"
  /\ action = "install" /\ comps = {} /\ chosen = {}
  /\ http = FALSE /\ quiet = FALSE /\ only = FALSE
  /\ pc = "idle" /\ rc = 0 /\ commands = 0
  /\ unchecked = {} /\ failed = {} /\ left = {} /\ need = FALSE /\ todo = {}
  /\ late = FALSE /\ half = {}

---------------------------------------------------------------------------
(* The command *)

\* The lists that follow stay as they are.
Keeps(vs) == UNCHANGED <<action, comps, chosen, http, quiet, only, commands, vs>>
\* The first of a set of components: all is done in this order.
First(set) == ORDER[CHOOSE i \in DOMAIN ORDER :
                      ORDER[i] \in set /\ \A j \in 1 .. i - 1 : ORDER[j] \notin set]

Command(r) ==
  /\ pc = "idle" /\ commands < MaxCommands /\ commands' = commands + 1
  /\ action' = r.action /\ comps' = r.comps /\ chosen' = r.chosen
  /\ http' = r.http /\ quiet' = r.quiet /\ only' = r.only
  /\ pc' = "first" /\ rc' = 0
  /\ unchecked' = (IF r.action = "install" THEN r.comps ELSE {}) /\ failed' = {}
  /\ left' = r.comps /\ need' = FALSE /\ todo' = {} /\ late' = FALSE
  /\ UNCHANGED <<printer, host, half>>

\* The process ends, and nothing of it stays.
Ends(status) ==
  /\ pc' = "idle" /\ rc' = status
  /\ action' = "install" /\ comps' = {} /\ chosen' = {}
  /\ http' = FALSE /\ quiet' = FALSE /\ only' = FALSE
  /\ unchecked' = {} /\ failed' = {} /\ left' = {} /\ need' = FALSE /\ todo' = {}
  /\ late' = FALSE /\ UNCHANGED <<printer, host, commands, half>>

\* printing_now: printing and paused prints count, a stopped Klipper has none.
Clear   == print = "idle"
Blocked == print # "idle" \/ "unclear" \in Faults

FirstCheck ==
  /\ pc = "first" /\ Clear /\ late' = FALSE
  /\ pc' = IF action = "install" THEN "preflight" ELSE "next"
  /\ Keeps(<<printer, host, rc, checks, work, half>>)
FirstBlocked == pc = "first" /\ Blocked /\ Ends(1)

\* A bug: over HTTP the helper is taken for granted.
ConfigMeetsHttp ==
  /\ Accepted(conf, chosen)
  /\ LET active == Active(Leaves(conf, chosen))
     IN  active \cap Vendor \subseteq IF http THEN running ELSE extras
\* preflight.config: over HTTP the extras of the sections to come have to be
\* running, over SSH those of the vendor have to be there.
ConfigMeets ==
  /\ Accepted(conf, chosen)
  /\ LET active == Active(Leaves(conf, chosen))
     IN  IF http THEN active \cap ({"wmp_recovery"} \cup Vendor) \subseteq running
         ELSE "extras" \in Has /\ active \cap Vendor \subseteq extras
MaterialMeets    == "extras" \in Has
\* A running bridge may have its port.
TouchscreenMeets == {"systemd", "nginx", "screen", "ffmpeg"} \subseteq Has
                    /\ ("port" \in Has \/ "unit" \in bridge)
PreloadMeets     == {"systemd", "gcc", "client"} \subseteq Has
Meets(c) == CASE c = "config" -> ConfigMeets
              [] c = "touchscreen" -> TouchscreenMeets
              [] c = "material" -> MaterialMeets
              [] c = "preload" -> PreloadMeets
PreflightPasses(c) ==
  /\ pc = "preflight" /\ unchecked # {} /\ c = First(unchecked) /\ Meets(c)
  /\ unchecked' = unchecked \ {c}
  /\ Keeps(<<printer, host, pc, rc, failed, work, late, half>>)
PreflightFails(c) ==
  /\ pc = "preflight" /\ unchecked # {} /\ c = First(unchecked)
  /\ ~Meets(c) \/ "preflight" \in Faults
  /\ unchecked' = unchecked \ {c} /\ failed' = failed \cup {c}
  /\ Keeps(<<printer, host, pc, rc, work, late, half>>)
\* A bug: one component that passed is enough.
FitSome ==
  /\ pc = "preflight" /\ unchecked = {} /\ failed # comps /\ ~only
  /\ pc' = "next" /\ Keeps(<<printer, host, rc, checks, work, late, half>>)
Fit ==
  /\ pc = "preflight" /\ unchecked = {} /\ failed = {} /\ ~only
  /\ pc' = "next" /\ Keeps(<<printer, host, rc, checks, work, late, half>>)
Unfit    == pc = "preflight" /\ unchecked = {} /\ failed # {} /\ Ends(1)
FitsOnly == pc = "preflight" /\ unchecked = {} /\ failed = {} /\ only /\ Ends(0)

---------------------------------------------------------------------------
(* The components *)

Enter(c) == CASE c = "config" -> IF http THEN "diff" ELSE "helper"
              [] c = "touchscreen" -> IF action = "install" THEN "payload" ELSE "webcam"
              [] c = "material" -> "extra"
              [] c = "preload" -> "build"
\* A bug: what was clear before the preflight counts as clear.
BeginUnasked(c) ==
  /\ pc = "next" /\ left # {} /\ c = First(left) /\ (c = "config" => action = "install")
  /\ late' = (IF action = "install" THEN FALSE ELSE late) /\ pc' = Enter(c)
  /\ Keeps(<<printer, host, rc, checks, work, half>>)
\* Before each component an installation asks again whether there is a print.
Begin(c) ==
  /\ pc = "next" /\ left # {} /\ c = First(left) /\ (c = "config" => action = "install")
  /\ action = "install" => Clear
  /\ late' = (IF action = "install" THEN FALSE ELSE late) /\ pc' = Enter(c)
  /\ Keeps(<<printer, host, rc, checks, work, half>>)
BeginBlocked == pc = "next" /\ left # {} /\ action = "install" /\ Blocked /\ Ends(1)

\* A bug: the last component decides on the restart.
DoneLast ==
  /\ pc' = "next" /\ left' = left \ {First(left)}
  /\ need' = (First(left) \in ForKlipper)
  /\ Keeps(<<klipper, running, print, rc, checks, todo, late>>)
\* A component is done, or raises DeployError: that ends an installation only.
Done ==
  /\ pc' = "next" /\ left' = left \ {First(left)}
  /\ need' = (need \/ First(left) \in ForKlipper)
  /\ Keeps(<<klipper, running, print, rc, checks, todo, late>>)
Refused ==
  \/ action = "install" /\ Ends(1)
  \/ /\ action = "uninstall" /\ pc' = "next" /\ rc' = 1 /\ left' = left \ {First(left)}
     /\ Keeps(<<printer, host, checks, need, todo, late, half>>)
\* A configuration cannot be uninstalled.
NoUninstall == pc = "next" /\ action = "uninstall" /\ "config" \in left /\ Refused

\* The step from one line of a component to its next.
To(line) == pc' = line /\ Keeps(<<klipper, running, print, rc, checks, left, need, late>>)

\* config: the recovery helper, replaced in one step if it differs.
Helper ==
  /\ pc = "helper" /\ To("diff")
  /\ \/ extras' = extras \cup {"wmp_recovery"} /\ stale' = TRUE
     \/ "wmp_recovery" \in extras /\ UNCHANGED <<extras, stale>>
  /\ UNCHANGED <<conf, libs, dropin, preloaded, bridge, todo, half>>
Differing == {n \in Managed : conf[n] # Repo[n]}
\* config_sync takes a print state that it cannot read for an idle one.
Diff ==
  /\ pc = "diff" /\ (print # "printing" \/ "unclear" \in Faults) /\ chosen \subseteq Differing
  /\ todo' = (IF chosen = {} THEN Differing ELSE chosen)
  /\ To("upload") /\ UNCHANGED <<printer, stale, half>>
\* config_sync exits with an error.
DiffRefuses == pc = "diff" /\ (print = "printing" \/ ~(chosen \subseteq Differing)) /\ Refused
\* Files that were there go first, unless they are named.
UploadFile(n) ==
  /\ pc = "upload" /\ n \in todo /\ todo' = todo \ {n}
  /\ chosen = {} /\ conf[n] = Absent => \A m \in todo : conf[m] = Absent
  /\ conf' = [conf EXCEPT ![n] = Repo[n]] /\ stale' = TRUE /\ To("upload")
  /\ UNCHANGED <<extras, libs, dropin, preloaded, bridge, half>>
Uploaded == pc = "upload" /\ todo = {} /\ Done /\ UNCHANGED <<printer, stale, half>>

\* touchscreen: install.sh and, backwards, uninstall.sh.  That the webcam cannot
\* be registered or removed is reported, and no error.
AddPart(i) ==
  /\ action = "install" /\ pc = PARTS[i] /\ bridge' = bridge \cup {PARTS[i]}
  /\ i < 4 /\ To(PARTS[i + 1])
  /\ half' = (IF PARTS[i] = "payload" THEN half \ {"include"} ELSE half)
  /\ UNCHANGED <<conf, extras, libs, dropin, preloaded, stale, todo>>
AddWebcam ==
  /\ action = "install" /\ pc = "webcam" /\ bridge' \in {bridge, bridge \cup {"webcam"}}
  /\ Done /\ UNCHANGED <<conf, extras, libs, dropin, preloaded, stale, half>>
RemoveWebcam ==
  /\ action = "uninstall" /\ pc = "webcam" /\ bridge' \in {bridge, bridge \ {"webcam"}}
  /\ To("unit") /\ UNCHANGED <<conf, extras, libs, dropin, preloaded, stale, todo, half>>
\* A bug: the files go before the site that includes them.
RemovePartEarly(i) ==
  /\ action = "uninstall" /\ pc = PARTS[i] /\ i \in {2, 3}
  /\ bridge' = bridge \ {PARTS[i], "payload"} /\ half' = half \ {PARTS[i]} /\ To(PARTS[i - 1])
  /\ UNCHANGED <<conf, extras, libs, dropin, preloaded, stale, todo>>
RemovePart(i) ==
  /\ action = "uninstall" /\ pc = PARTS[i] /\ i \in {2, 3}
  /\ bridge' = bridge \ {PARTS[i]} /\ half' = half \ {PARTS[i]} /\ To(PARTS[i - 1])
  /\ UNCHANGED <<conf, extras, libs, dropin, preloaded, stale, todo>>
RemovePayload ==
  /\ action = "uninstall" /\ pc = "payload"
  /\ bridge' = bridge \ {"payload"} \/ ("ignored" \in Faults /\ bridge' = bridge)
  /\ Done /\ UNCHANGED <<conf, extras, libs, dropin, preloaded, stale, half>>
\* The script goes on after a failure, also when the site could not be restored.
RemovalIgnored(i) ==
  /\ action = "uninstall" /\ pc = PARTS[i] /\ i \in {2, 3} /\ "ignored" \in Faults
  /\ half' = half \cup ({PARTS[i]} \cap {"include"} \cap bridge) /\ To(PARTS[i - 1])
  /\ UNCHANGED <<conf, extras, libs, dropin, preloaded, bridge, stale, todo>>
\* install.sh stops at the first error; nginx's refusal takes the include back.
ScriptFails ==
  /\ action = "install" /\ pc \in {"payload", "include", "unit"} /\ "refuse" \in Faults
  /\ Refused

\* material: the extra goes first, both ways, and either file is emptied before
\* it is written.  A truncated module is no extra, a truncated file has no section.
Cut == [needs |-> {}, globs |-> {}, sections |-> {}, uses |-> {}]
\* An extra that goes while the file with its section is there.
Withdrawn == extras' = extras \ {"wm_material"} /\ stale' = TRUE
             /\ half' = half \cup IF conf[MaterialCfg] = Absent THEN {} ELSE {"wm_material"}
OpenExtra ==
  /\ pc = "extra" /\ action = "install" /\ Withdrawn /\ To("fill")
  /\ UNCHANGED <<conf, libs, dropin, preloaded, bridge, todo>>
PutExtra ==
  /\ pc = "fill" /\ extras' = extras \cup {"wm_material"} /\ half' = half \ {"wm_material"}
  /\ stale' = TRUE /\ To("cfg")
  /\ UNCHANGED <<conf, libs, dropin, preloaded, bridge, todo>>
OpenCfg ==
  /\ pc = "cfg" /\ action = "install" /\ conf' = [conf EXCEPT ![MaterialCfg] = Cut]
  /\ stale' = TRUE /\ To("fillcfg")
  /\ UNCHANGED <<extras, libs, dropin, preloaded, bridge, todo, half>>
PutCfg ==
  /\ pc = "fillcfg" /\ conf' = [conf EXCEPT ![MaterialCfg] = MaterialText]
  /\ stale' = TRUE /\ Done /\ UNCHANGED <<extras, libs, dropin, preloaded, bridge, half>>
\* A file whose stat fails counts as absent, whatever the reason, and stays.
RemoveExtra ==
  /\ pc = "extra" /\ action = "uninstall" /\ To("cfg")
  /\ Withdrawn \/ ("ignored" \in Faults /\ UNCHANGED <<extras, stale, half>>)
  /\ UNCHANGED <<conf, libs, dropin, preloaded, bridge, todo>>
RemoveCfg ==
  /\ pc = "cfg" /\ action = "uninstall" /\ Done
  /\ \/ conf' = [conf EXCEPT ![MaterialCfg] = Absent] /\ half' = half \ {"wm_material"} /\ stale' = TRUE
     \/ "ignored" \in Faults /\ UNCHANGED <<conf, half, stale>>
  /\ UNCHANGED <<extras, libs, dropin, preloaded, bridge>>

\* preload: the libraries, the drop-in that names them, and the service anew.
Build(lib) ==
  /\ pc = "build" /\ action = "install" /\ lib \in Libs \ libs
  /\ libs' = libs \cup {lib} /\ To("build")
  /\ UNCHANGED <<conf, extras, dropin, preloaded, bridge, stale, todo, half>>
BuildFails == pc = "build" /\ action = "install" /\ "refuse" \in Faults /\ Refused
Unbuild(lib) ==
  /\ pc = "build" /\ action = "uninstall" /\ lib \in libs
  /\ libs' = libs \ {lib} /\ To("build")
  /\ UNCHANGED <<conf, extras, dropin, preloaded, bridge, stale, todo, half>>
\* Nobody looks at the status of the commands that write it and restart.
Dropin ==
  /\ pc = "build" /\ libs = (IF action = "install" THEN Libs ELSE {})
  /\ dropin' = libs \/ ("silent" \in Faults /\ dropin' = dropin)
  /\ To("service") /\ UNCHANGED <<conf, extras, libs, preloaded, bridge, stale, todo, half>>
Service ==
  /\ pc = "service"
  /\ preloaded' = dropin \cap libs \/ ("silent" \in Faults /\ preloaded' = preloaded)
  /\ To("active") /\ UNCHANGED <<conf, extras, libs, dropin, bridge, stale, todo, half>>
ServiceRuns == pc = "active" /\ Done /\ UNCHANGED <<printer, stale, half>>
ServiceFails == pc = "active" /\ "refuse" \in Faults /\ Refused

\* Any request may raise another exception, which ends all.
Stops ==
  /\ "stop" \in Faults
  /\ pc \in {"helper", "diff", "upload", "payload", "include", "unit", "webcam",
             "extra", "fill", "cfg", "fillcfg", "build", "service", "active", "restart", "wait"}
  /\ Ends(1)

---------------------------------------------------------------------------
(* The end *)

AllDone == pc = "next" /\ left = {} /\ ~(need /\ ~quiet) /\ Ends(rc)
FinalCheck ==
  /\ pc = "next" /\ left = {} /\ need /\ ~quiet /\ Clear /\ late' = FALSE
  /\ pc' = "restart" /\ Keeps(<<printer, host, rc, checks, work, half>>)
FinalBlocked == pc = "next" /\ left = {} /\ need /\ ~quiet /\ Blocked /\ Ends(1)

\* Klipper reads its configuration anew, and any print is over.
Reload ==
  /\ klipper' = (IF Loads THEN "ready" ELSE "error")
  /\ running' = (IF Loads THEN Active(conf) ELSE {})
  /\ stale' = FALSE /\ print' = "idle"
Restart ==
  /\ pc = "restart" /\ pc' = "wait" /\ Reload
  /\ Keeps(<<printer, rc, checks, work, late, half>>)
Ready    == pc = "wait" /\ klipper = "ready" /\ Ends(rc)
NotReady == pc = "wait" /\ klipper # "ready" /\ Ends(1)

---------------------------------------------------------------------------
(* The rest of the printer *)

PrintStep ==
  /\ klipper = "ready" /\ print' \in {"idle", "printing", "paused"} \ {print}
  /\ print = "idle" => print' = "printing"
  /\ late' = (late \/ (print = "idle" /\ pc # "idle"))
  /\ UNCHANGED <<printer, klipper, running, stale, command, pc, rc, checks, work, half>>
\* Power fails, and everything starts anew.
Reboot ==
  /\ Reload /\ preloaded' = dropin \cap libs
  /\ UNCHANGED <<conf, extras, libs, dropin, bridge, command, pc, rc, checks, work, late, half>>

Deploy ==
  \/ \E r \in Commands : Command(r)
  \/ FirstCheck \/ FirstBlocked \/ Fit \/ Unfit \/ FitsOnly
  \/ \E c \in Components : PreflightPasses(c) \/ PreflightFails(c) \/ Begin(c)
  \/ BeginBlocked \/ NoUninstall \/ Stops
  \/ AllDone \/ FinalCheck \/ FinalBlocked \/ Restart \/ Ready \/ NotReady
Install ==
  \/ Helper \/ Diff \/ DiffRefuses \/ Uploaded \/ \E n \in Managed : UploadFile(n)
  \/ \E i \in DOMAIN PARTS : AddPart(i) \/ RemovePart(i) \/ RemovalIgnored(i)
  \/ AddWebcam \/ RemoveWebcam \/ RemovePayload \/ ScriptFails
  \/ OpenExtra \/ PutExtra \/ RemoveExtra \/ OpenCfg \/ PutCfg \/ RemoveCfg
  \/ \E lib \in Libs : Build(lib) \/ Unbuild(lib)
  \/ BuildFails \/ Dropin \/ Service \/ ServiceRuns \/ ServiceFails
Next == Deploy \/ Install \/ PrintStep \/ Reboot

Spec == Init /\ [][Next]_vars

---------------------------------------------------------------------------
(* Properties *)

\* "Installation checks all selected components first": an installation changes
\* nothing before every one has passed, nor if it only checks.
PreflightFirst ==
  [][pc # "idle" /\ action = "install" /\ disk' # disk =>
       unchecked = {} /\ failed = {} /\ ~only]_vars

\* "A running or paused print blocks changes": no file changes and Klipper is not
\* restarted under a print, unless it started after the last look.
NoPrintDisturbed ==
  [][pc # "idle" /\ (disk' # disk \/ (pc = "restart" /\ pc' = "wait")) =>
       print = "idle" \/ late]_vars

\* A configuration that Klipper would load has the extras of its own sections:
\* wherever a command breaks off, a restart finds them, but for the material's
\* if it broke off while that was rewritten or removed under its section, or if
\* the removal overlooked the file that has the section.
SectionsHaveExtras ==
  Active(conf) \cap Own \subseteq extras \cup half

\* nginx, which also serves Fluidd, finds the file that its site includes whenever
\* it starts, wherever a script breaks off, unless the removal could not restore
\* the site and went on.
NginxLoads ==
  "include" \in bridge => "payload" \in bridge \/ "include" \in half

\* An installation that ends with success has left every component in place,
\* and Klipper, unless it was not to be restarted, has loaded it and is ready.
SuccessIsComplete ==
  [][pc # "idle" /\ pc' = "idle" /\ rc' = 0 /\ action = "install" /\ ~only =>
       /\ "config" \in comps =>
            ("wm_material" \in half \/ Loads) /\ \A n \in Targets(chosen) : conf[n] = Repo[n]
       /\ "touchscreen" \in comps => {"payload", "include", "unit"} \subseteq bridge
       /\ "material" \in comps => "wm_material" \in extras /\ conf[MaterialCfg] = MaterialText
       /\ "preload" \in comps => preloaded = Libs
       /\ comps \cap ForKlipper # {} /\ ~quiet =>
            klipper = "ready" /\ ~stale /\ running = Active(conf)]_vars
=============================================================================
