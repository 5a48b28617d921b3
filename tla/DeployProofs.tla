---------------------------- MODULE DeployProofs ----------------------------
(***************************************************************************)
(* What the tools owe a printer and its owner: an installation, for any    *)
(* components, files, faults, prints and power cuts, and the review of a   *)
(* vendor's changes, for any three directories of texts (BasePlan).        *)
(***************************************************************************)
EXTENDS Deploy, BasePlan, FiniteSetTheorems, TLAPS

(* Past the checks of an installation there is nothing left to check. *)
Checked ==
  pc \notin {"idle", "first", "preflight"} /\ action = "install" =>
    unchecked = {} /\ failed = {} /\ ~only

(* Past the first check a print is one that started after the last check. *)
Watched == pc \notin {"idle", "first"} => print = "idle" \/ late

(* The site of nginx includes nothing that is not there, unless it could not
   be restored. *)
Scripted ==
  /\ NginxLoads
  /\ action = "install" /\ pc = "include" => "payload" \in bridge
  /\ action = "uninstall" /\ pc = "payload" => "include" \notin bridge \/ "include" \in half

\* Sections name extras.
LEMMA ActiveIsExtras == conf \in [Names -> Texts \cup {Absent}] => Active(conf) \subseteq Extras
BY DEF Active, Visited, Available, Texts

\* An emptied file is a text.
LEMMA CutIsText == Cut \in Texts
BY DEF Cut, Texts

\* Every step keeps the types.
LEMMA TypeStep == TypeOK /\ [Next]_vars => TypeOK'
<1> SUFFICES ASSUME TypeOK, [Next]_vars PROVE TypeOK'
  OBVIOUS
<1> USE DEF TypeOK, disk, printer, host, command, checks, work, Keeps
<1>1. ASSUME NEW r \in Commands, Command(r) PROVE TypeOK'
  <2>1. r \in Requests BY <1>1, DeployAssumption
  <2>2. /\ action' \in {"install", "uninstall"} /\ comps' \subseteq Components
        /\ chosen' \subseteq Managed /\ http' \in BOOLEAN /\ quiet' \in BOOLEAN /\ only' \in BOOLEAN
    BY <1>1, <2>1 DEF Command, Requests
  <2>3. /\ unchecked' \subseteq comps' /\ left' \subseteq comps' /\ failed' = {} /\ todo' = {}
        /\ need' = FALSE /\ late' = FALSE /\ pc' = "first" /\ rc' = 0 /\ commands' \in Nat
    BY <1>1 DEF Command
  <2>4. UNCHANGED <<printer, host, half>> BY <1>1 DEF Command
  <2> QED BY <2>2, <2>3, <2>4
<1>2. ASSUME NEW c \in Components, PreflightPasses(c) PROVE TypeOK'
  BY <1>2 DEF PreflightPasses
<1>3. ASSUME NEW c \in Components, PreflightFails(c) PROVE TypeOK'
  BY <1>3 DEF PreflightFails
<1>4. ASSUME NEW c \in Components, Begin(c) PROVE TypeOK'
  <2>1. Enter(c) \in {"diff", "helper", "payload", "webcam", "extra", "build"}
    BY DEF Enter, Components, ORDER
  <2>2. pc' \in {"diff", "helper", "payload", "webcam", "extra", "build"} BY <1>4, <2>1 DEF Begin
  <2>3. late' \in BOOLEAN BY <1>4 DEF Begin
  <2>4. Keeps(<<printer, host, rc, checks, work, half>>) BY <1>4 DEF Begin
  <2> QED BY <2>2, <2>3, <2>4
<1>5. ASSUME NEW n \in Managed, UploadFile(n) PROVE TypeOK'
  BY <1>5, PlanAssumption DEF UploadFile, To
<1>6. ASSUME NEW i \in DOMAIN PARTS, AddPart(i) PROVE TypeOK'
  <2>1. PARTS[i] \in Parts BY DEF Parts
  <2>2. i < 4 => PARTS[i + 1] \in {"include", "unit", "webcam"} BY DEF PARTS
  <2> QED BY <1>6, <2>1, <2>2 DEF AddPart, To
<1>7. ASSUME NEW i \in DOMAIN PARTS, RemovePart(i) \/ RemovalIgnored(i) PROVE TypeOK'
  <2>1. i \in {2, 3} => PARTS[i - 1] \in {"payload", "include"} BY DEF PARTS
  <2>2. half' \subseteq half \cup {"include"} /\ bridge' \subseteq bridge
    BY <1>7 DEF RemovePart, RemovalIgnored
  <2>3. pc' \in {"payload", "include"} BY <1>7, <2>1 DEF RemovePart, RemovalIgnored, To
  <2>4. /\ UNCHANGED <<conf, extras, libs, dropin, preloaded, stale, todo>>
        /\ UNCHANGED <<klipper, running, print, rc, checks, left, need, late>>
        /\ UNCHANGED <<action, comps, chosen, http, quiet, only, commands>>
    BY <1>7 DEF RemovePart, RemovalIgnored, To
  <2> QED BY <2>2, <2>3, <2>4
<1>8. ASSUME NEW lib \in Libs, Build(lib) PROVE TypeOK'
  BY <1>8 DEF Build, To
<1>9. ASSUME NEW lib \in Libs, Unbuild(lib) PROVE TypeOK'
  BY <1>9 DEF Unbuild, To
<1>10. CASE FirstCheck
  BY <1>10 DEF FirstCheck
<1>11. CASE FirstBlocked
  BY <1>11 DEF FirstBlocked, Ends
<1>12. CASE Fit
  BY <1>12 DEF Fit
<1>13. CASE Unfit
  BY <1>13 DEF Unfit, Ends
<1>14. CASE FitsOnly
  BY <1>14 DEF FitsOnly, Ends
<1>15. CASE BeginBlocked
  BY <1>15 DEF BeginBlocked, Ends
<1>16. CASE NoUninstall
  BY <1>16 DEF NoUninstall, Refused, Ends
<1>17. CASE Stops
  BY <1>17 DEF Stops, Ends
<1>18. CASE AllDone
  BY <1>18 DEF AllDone, Ends
<1>19. CASE FinalCheck
  BY <1>19 DEF FinalCheck
<1>20. CASE FinalBlocked
  BY <1>20 DEF FinalBlocked, Ends
<1>21. CASE Restart
  <2>1. running' \subseteq Extras /\ klipper' \in {"ready", "error"}
    BY <1>21, ActiveIsExtras DEF Restart, Reload
  <2>2. stale' \in BOOLEAN /\ print' = "idle" /\ pc' = "wait"
    BY <1>21 DEF Restart, Reload
  <2>3. Keeps(<<printer, rc, checks, work, late, half>>)
    BY <1>21 DEF Restart
  <2> QED BY <2>1, <2>2, <2>3
<1>22. CASE Ready
  BY <1>22 DEF Ready, Ends
<1>23. CASE NotReady
  BY <1>23 DEF NotReady, Ends
<1>24. CASE Helper
  <2>1. extras' \subseteq Extras /\ stale' \in BOOLEAN BY <1>24, DeployAssumption DEF Helper, Own
  <2> QED BY <1>24, <2>1 DEF Helper, To
<1>25. CASE Diff
  BY <1>25, PlanAssumption DEF Diff, To, Differing
<1>26. CASE DiffRefuses
  BY <1>26 DEF DiffRefuses, Refused, Ends
<1>27. CASE Uploaded
  BY <1>27 DEF Uploaded, Done
<1>28. CASE AddWebcam
  <2>1. "webcam" \in Parts BY DEF Parts, PARTS
  <2> QED BY <1>28, <2>1 DEF AddWebcam, Done
<1>29. CASE RemoveWebcam
  BY <1>29 DEF RemoveWebcam, To
<1>30. CASE RemovePayload
  BY <1>30 DEF RemovePayload, Done
<1>31. CASE ScriptFails
  BY <1>31 DEF ScriptFails, Refused, Ends
<1>32. CASE OpenExtra \/ PutExtra \/ RemoveExtra
  <2>1. half' \subseteq half \cup {"wm_material"} /\ stale' \in BOOLEAN
    BY <1>32 DEF OpenExtra, PutExtra, RemoveExtra, Withdrawn
  <2>2. extras' \subseteq Extras
    BY <1>32, DeployAssumption DEF OpenExtra, PutExtra, RemoveExtra, Withdrawn, Own
  <2>3. pc' \in {"fill", "cfg"} BY <1>32 DEF OpenExtra, PutExtra, RemoveExtra, To
  <2>4. /\ UNCHANGED <<conf, libs, dropin, preloaded, bridge, todo>>
        /\ UNCHANGED <<klipper, running, print, rc, checks, left, need, late>>
        /\ UNCHANGED <<action, comps, chosen, http, quiet, only, commands>>
    BY <1>32 DEF OpenExtra, PutExtra, RemoveExtra, To
  <2> QED BY <2>1, <2>2, <2>3, <2>4
<1>33. CASE OpenCfg
  BY <1>33, CutIsText DEF OpenCfg, To
<1>34. CASE PutCfg
  BY <1>34, DeployAssumption DEF PutCfg, Done
<1>35. CASE RemoveCfg
  <2>1. half' \subseteq half /\ stale' \in BOOLEAN
    BY <1>35 DEF RemoveCfg
  <2> QED BY <1>35, <2>1 DEF RemoveCfg, Done
<1>36. CASE BuildFails
  BY <1>36 DEF BuildFails, Refused, Ends
<1>37. CASE Dropin
  BY <1>37 DEF Dropin, To
<1>38. CASE Service
  BY <1>38 DEF Service, To
<1>39. CASE ServiceRuns
  BY <1>39 DEF ServiceRuns, Done
<1>40. CASE ServiceFails
  BY <1>40 DEF ServiceFails, Refused, Ends
<1>41. CASE PrintStep
  BY <1>41 DEF PrintStep
<1>42. CASE Reboot
  <2>1. running' \subseteq Extras /\ klipper' \in {"ready", "error"}
    BY <1>42, ActiveIsExtras DEF Reboot, Reload
  <2>2. preloaded' \subseteq Libs BY <1>42 DEF Reboot
  <2>3. stale' \in BOOLEAN /\ print' = "idle" BY <1>42 DEF Reboot, Reload
  <2>4. UNCHANGED <<conf, extras, libs, dropin, bridge>> BY <1>42 DEF Reboot
  <2>5. UNCHANGED <<action, comps, chosen, http, quiet, only, commands>> BY <1>42 DEF Reboot
  <2>6. UNCHANGED <<pc, rc, unchecked, failed, left, need, todo, late, half>>
    BY <1>42 DEF Reboot
  <2> QED BY <2>1, <2>2, <2>3, <2>4, <2>5, <2>6
<1>43. CASE UNCHANGED vars
  BY <1>43 DEF vars
<1> HIDE DEF TypeOK
<1> QED
  BY <1>1, <1>2, <1>3, <1>4, <1>5, <1>6, <1>7, <1>8, <1>9, <1>10, <1>11,
     <1>12, <1>13, <1>14, <1>15, <1>16, <1>17, <1>18, <1>19, <1>20, <1>21,
     <1>22, <1>23, <1>24, <1>25, <1>26, <1>27, <1>28, <1>29, <1>30, <1>31,
     <1>32, <1>33, <1>34, <1>35, <1>36, <1>37, <1>38, <1>39, <1>40, <1>41,
     <1>42, <1>43 DEF Next, Deploy, Install

\* Every step keeps the order of checks, changes and script lines.
LEMMA OrderStep ==
  TypeOK /\ Checked /\ Watched /\ Scripted /\ [Next]_vars => (Checked /\ Watched /\ Scripted)'
<1> SUFFICES ASSUME TypeOK, Checked, Watched, Scripted, [Next]_vars
             PROVE  (Checked /\ Watched /\ Scripted)'
  OBVIOUS
<1> USE DEF TypeOK, Checked, Watched, Scripted, NginxLoads, Clear, disk, printer, host, command, checks, work, Keeps
<1>1. ASSUME NEW r \in Commands, Command(r) PROVE (Checked /\ Watched /\ Scripted)'
  BY <1>1 DEF Command, Requests
<1>2. ASSUME NEW c \in Components, PreflightPasses(c) PROVE (Checked /\ Watched /\ Scripted)'
  BY <1>2 DEF PreflightPasses
<1>3. ASSUME NEW c \in Components, PreflightFails(c) PROVE (Checked /\ Watched /\ Scripted)'
  BY <1>3 DEF PreflightFails
<1>4. ASSUME NEW c \in Components, Begin(c) PROVE (Checked /\ Watched /\ Scripted)'
  BY <1>4 DEF Begin, Enter, Components, ORDER
<1>5. ASSUME NEW n \in Managed, UploadFile(n) PROVE (Checked /\ Watched /\ Scripted)'
  BY <1>5 DEF UploadFile, To
<1>6. ASSUME NEW i \in DOMAIN PARTS, AddPart(i) PROVE (Checked /\ Watched /\ Scripted)'
  <2>1. i \in {1, 2, 3, 4} /\ PARTS = <<"payload", "include", "unit", "webcam">>
    BY DEF PARTS
  <2> QED BY <1>6, <2>1 DEF AddPart, To
<1>7. ASSUME NEW i \in DOMAIN PARTS, RemovePart(i) \/ RemovalIgnored(i) PROVE (Checked /\ Watched /\ Scripted)'
  <2>1. i \in {1, 2, 3, 4} /\ PARTS = <<"payload", "include", "unit", "webcam">>
    BY DEF PARTS
  <2>2. action = "uninstall" /\ pc \in {"include", "unit"} /\ pc' \in {"payload", "include"}
        /\ UNCHANGED <<action, print, late>>
    BY <1>7, <2>1 DEF RemovePart, RemovalIgnored, To
  <2>3. CASE RemovePart(i)
    BY <2>1, <2>2, <2>3 DEF RemovePart, To
  <2>4. CASE RemovalIgnored(i)
    <3>1. bridge' = bridge /\ half \subseteq half'
          /\ (PARTS[i] = "include" /\ "include" \in bridge => "include" \in half')
      BY <2>4 DEF RemovalIgnored
    <3>2. pc = PARTS[i] /\ (pc' = "payload" => PARTS[i] = "include")
      BY <2>1, <2>4 DEF RemovalIgnored, To
    <3> QED BY <2>2, <3>1, <3>2
  <2> QED BY <1>7, <2>3, <2>4
<1>8. ASSUME NEW lib \in Libs, Build(lib) PROVE (Checked /\ Watched /\ Scripted)'
  BY <1>8 DEF Build, To
<1>9. ASSUME NEW lib \in Libs, Unbuild(lib) PROVE (Checked /\ Watched /\ Scripted)'
  BY <1>9 DEF Unbuild, To
<1>10. CASE FirstCheck
  BY <1>10 DEF FirstCheck
<1>11. CASE FirstBlocked
  BY <1>11 DEF FirstBlocked, Ends
<1>12. CASE Fit
  BY <1>12 DEF Fit
<1>13. CASE Unfit
  BY <1>13 DEF Unfit, Ends
<1>14. CASE FitsOnly
  BY <1>14 DEF FitsOnly, Ends
<1>15. CASE BeginBlocked
  BY <1>15 DEF BeginBlocked, Ends
<1>16. CASE NoUninstall
  BY <1>16 DEF NoUninstall, Refused, Ends
<1>17. CASE Stops
  BY <1>17 DEF Stops, Ends
<1>18. CASE AllDone
  BY <1>18 DEF AllDone, Ends
<1>19. CASE FinalCheck
  BY <1>19 DEF FinalCheck
<1>20. CASE FinalBlocked
  BY <1>20 DEF FinalBlocked, Ends
<1>21. CASE Restart
  BY <1>21 DEF Restart, Reload, Active
<1>22. CASE Ready
  BY <1>22 DEF Ready, Ends
<1>23. CASE NotReady
  BY <1>23 DEF NotReady, Ends
<1>24. CASE Helper
  BY <1>24 DEF Helper, To
<1>25. CASE Diff
  BY <1>25 DEF Diff, To, Differing
<1>26. CASE DiffRefuses
  BY <1>26 DEF DiffRefuses, Refused, Ends
<1>27. CASE Uploaded
  BY <1>27 DEF Uploaded, Done
<1>28. CASE AddWebcam
  BY <1>28 DEF AddWebcam, Done
<1>29. CASE RemoveWebcam
  BY <1>29 DEF RemoveWebcam, To
<1>30. CASE RemovePayload
  BY <1>30 DEF RemovePayload, Done
<1>31. CASE ScriptFails
  BY <1>31 DEF ScriptFails, Refused, Ends
<1>32. CASE OpenExtra \/ PutExtra
  BY <1>32 DEF OpenExtra, PutExtra, Withdrawn, To
<1>33. CASE RemoveExtra
  BY <1>33 DEF RemoveExtra, Withdrawn, To
<1>34. CASE OpenCfg \/ PutCfg
  BY <1>34 DEF OpenCfg, PutCfg, To, Done
<1>35. CASE RemoveCfg
  BY <1>35 DEF RemoveCfg, Done
<1>36. CASE BuildFails
  BY <1>36 DEF BuildFails, Refused, Ends
<1>37. CASE Dropin
  BY <1>37 DEF Dropin, To
<1>38. CASE Service
  BY <1>38 DEF Service, To
<1>39. CASE ServiceRuns
  BY <1>39 DEF ServiceRuns, Done
<1>40. CASE ServiceFails
  BY <1>40 DEF ServiceFails, Refused, Ends
<1>41. CASE PrintStep
  BY <1>41 DEF PrintStep
<1>42. CASE Reboot
  BY <1>42 DEF Reboot, Reload, Active
<1>43. CASE UNCHANGED vars
  BY <1>43 DEF vars
<1> HIDE DEF TypeOK, Checked, Watched, Scripted
<1> QED
  BY <1>1, <1>2, <1>3, <1>4, <1>5, <1>6, <1>7, <1>8, <1>9, <1>10, <1>11,
     <1>12, <1>13, <1>14, <1>15, <1>16, <1>17, <1>18, <1>19, <1>20, <1>21,
     <1>22, <1>23, <1>24, <1>25, <1>26, <1>27, <1>28, <1>29, <1>30, <1>31,
     <1>32, <1>33, <1>34, <1>35, <1>36, <1>37, <1>38, <1>39, <1>40, <1>41,
     <1>42, <1>43 DEF Next, Deploy, Install

\* Files change, and Klipper is restarted, only past the checks.
LEMMA ChangeStep ==
  ASSUME TypeOK, [Next]_vars, disk' # disk \/ (pc = "restart" /\ pc' = "wait")
  PROVE  pc \notin {"idle", "first", "preflight"}
<1> USE DEF TypeOK, disk, printer, host, command, checks, work, Keeps
<1>1. ASSUME NEW r \in Commands, Command(r) PROVE pc \notin {"idle", "first", "preflight"}
  BY <1>1 DEF Command, Requests
<1>2. ASSUME NEW c \in Components, PreflightPasses(c) PROVE pc \notin {"idle", "first", "preflight"}
  BY <1>2 DEF PreflightPasses
<1>3. ASSUME NEW c \in Components, PreflightFails(c) PROVE pc \notin {"idle", "first", "preflight"}
  BY <1>3 DEF PreflightFails
<1>4. ASSUME NEW c \in Components, Begin(c) PROVE pc \notin {"idle", "first", "preflight"}
  BY <1>4 DEF Begin, Enter, Components, ORDER
<1>5. ASSUME NEW n \in Managed, UploadFile(n) PROVE pc \notin {"idle", "first", "preflight"}
  BY <1>5 DEF UploadFile, To
<1>6. ASSUME NEW i \in DOMAIN PARTS, AddPart(i) PROVE pc \notin {"idle", "first", "preflight"}
  <2>1. i \in {1, 2, 3, 4} /\ PARTS = <<"payload", "include", "unit", "webcam">>
    BY DEF PARTS
  <2> QED BY <1>6, <2>1 DEF AddPart, To
<1>7. ASSUME NEW i \in DOMAIN PARTS, RemovePart(i) \/ RemovalIgnored(i) PROVE pc \notin {"idle", "first", "preflight"}
  <2>1. i \in {1, 2, 3, 4} /\ PARTS = <<"payload", "include", "unit", "webcam">>
    BY DEF PARTS
  <2> QED BY <1>7, <2>1 DEF RemovePart, RemovalIgnored, To
<1>8. ASSUME NEW lib \in Libs, Build(lib) PROVE pc \notin {"idle", "first", "preflight"}
  BY <1>8 DEF Build, To
<1>9. ASSUME NEW lib \in Libs, Unbuild(lib) PROVE pc \notin {"idle", "first", "preflight"}
  BY <1>9 DEF Unbuild, To
<1>10. CASE FirstCheck
  BY <1>10 DEF FirstCheck
<1>11. CASE FirstBlocked
  BY <1>11 DEF FirstBlocked, Ends
<1>12. CASE Fit
  BY <1>12 DEF Fit
<1>13. CASE Unfit
  BY <1>13 DEF Unfit, Ends
<1>14. CASE FitsOnly
  BY <1>14 DEF FitsOnly, Ends
<1>15. CASE BeginBlocked
  BY <1>15 DEF BeginBlocked, Ends
<1>16. CASE NoUninstall
  BY <1>16 DEF NoUninstall, Refused, Ends
<1>17. CASE Stops
  BY <1>17 DEF Stops, Ends
<1>18. CASE AllDone
  BY <1>18 DEF AllDone, Ends
<1>19. CASE FinalCheck
  BY <1>19 DEF FinalCheck
<1>20. CASE FinalBlocked
  BY <1>20 DEF FinalBlocked, Ends
<1>21. CASE Restart
  BY <1>21 DEF Restart, Reload, Active
<1>22. CASE Ready
  BY <1>22 DEF Ready, Ends
<1>23. CASE NotReady
  BY <1>23 DEF NotReady, Ends
<1>24. CASE Helper
  BY <1>24 DEF Helper, To
<1>25. CASE Diff
  BY <1>25 DEF Diff, To, Differing
<1>26. CASE DiffRefuses
  BY <1>26 DEF DiffRefuses, Refused, Ends
<1>27. CASE Uploaded
  BY <1>27 DEF Uploaded, Done
<1>28. CASE AddWebcam
  BY <1>28 DEF AddWebcam, Done
<1>29. CASE RemoveWebcam
  BY <1>29 DEF RemoveWebcam, To
<1>30. CASE RemovePayload
  BY <1>30 DEF RemovePayload, Done
<1>31. CASE ScriptFails
  BY <1>31 DEF ScriptFails, Refused, Ends
<1>32. CASE OpenExtra \/ PutExtra
  BY <1>32 DEF OpenExtra, PutExtra, Withdrawn, To
<1>33. CASE RemoveExtra
  BY <1>33 DEF RemoveExtra, Withdrawn, To
<1>34. CASE OpenCfg \/ PutCfg
  BY <1>34 DEF OpenCfg, PutCfg, To, Done
<1>35. CASE RemoveCfg
  BY <1>35 DEF RemoveCfg, Done
<1>36. CASE BuildFails
  BY <1>36 DEF BuildFails, Refused, Ends
<1>37. CASE Dropin
  BY <1>37 DEF Dropin, To
<1>38. CASE Service
  BY <1>38 DEF Service, To
<1>39. CASE ServiceRuns
  BY <1>39 DEF ServiceRuns, Done
<1>40. CASE ServiceFails
  BY <1>40 DEF ServiceFails, Refused, Ends
<1>41. CASE PrintStep
  BY <1>41 DEF PrintStep
<1>42. CASE Reboot
  BY <1>42 DEF Reboot, Reload, Active
<1>43. CASE UNCHANGED vars
  BY <1>43 DEF vars
<1> HIDE DEF TypeOK
<1> QED
  BY <1>1, <1>2, <1>3, <1>4, <1>5, <1>6, <1>7, <1>8, <1>9, <1>10, <1>11,
     <1>12, <1>13, <1>14, <1>15, <1>16, <1>17, <1>18, <1>19, <1>20, <1>21,
     <1>22, <1>23, <1>24, <1>25, <1>26, <1>27, <1>28, <1>29, <1>30, <1>31,
     <1>32, <1>33, <1>34, <1>35, <1>36, <1>37, <1>38, <1>39, <1>40, <1>41,
     <1>42, <1>43 DEF Next, Deploy, Install

---------------------------------------------------------------------------
\* The types hold in every state.
THEOREM TypeCorrect == Spec => []TypeOK
<1>1. Init => TypeOK
  <2> SUFFICES ASSUME Init PROVE TypeOK
    OBVIOUS
  <2>1. conf \in [Names -> Texts \cup {Absent}] /\ extras \subseteq Extras
    BY DeployAssumption DEF Init
  <2>2. running \subseteq Extras
    BY <2>1, ActiveIsExtras DEF Init
  <2> QED BY <2>1, <2>2 DEF Init, TypeOK
<1> QED BY <1>1, TypeStep, PTL DEF Spec

\* So does the order.
LEMMA OrderKept == Spec => [](Checked /\ Watched /\ Scripted)
<1>1. Init => Checked /\ Watched /\ Scripted
  BY DEF Init, Checked, Watched, Scripted, NginxLoads
<1> QED BY <1>1, OrderStep, TypeCorrect, PTL DEF Spec

\* Whatever fails, an installation changes nothing before all components passed.
THEOREM PreflightCorrect == Spec => PreflightFirst
<1>1. TypeOK /\ Checked /\ [Next]_vars =>
        (pc # "idle" /\ action = "install" /\ disk' # disk =>
           unchecked = {} /\ failed = {} /\ ~only)
  BY ChangeStep DEF Checked
<1> QED BY <1>1, OrderKept, TypeCorrect, PTL DEF Spec, PreflightFirst

\* No command changes files or restarts Klipper under a print that it could see.
THEOREM PrintCorrect == Spec => NoPrintDisturbed
<1>1. TypeOK /\ Watched /\ [Next]_vars =>
        (pc # "idle" /\ (disk' # disk \/ (pc = "restart" /\ pc' = "wait")) =>
           print = "idle" \/ late)
  BY ChangeStep DEF Watched
<1> QED BY <1>1, OrderKept, TypeCorrect, PTL DEF Spec, NoPrintDisturbed

\* Wherever a script breaks off, nginx finds what its site includes.
THEOREM NginxCorrect == Spec => []NginxLoads
<1>1. Scripted => NginxLoads
  BY DEF Scripted
<1> QED BY <1>1, OrderKept, PTL

---------------------------------------------------------------------------
(* Sections and their extras *)

\* A file with a section of the project's own is there only with its extra, but
\* for the material's while that is removed; what Klipper runs with is there too.
Owned ==
  /\ \A n \in Available(conf) :
       /\ "wmp_recovery" \in conf[n].sections => "wmp_recovery" \in extras
       /\ "wm_material" \in conf[n].sections =>
            n = MaterialCfg /\ "wm_material" \in half \cup extras
  /\ running \ {"wm_material"} \subseteq extras

\* The update will have a configuration that needs the helper.
NeedsHelper ==
  Root \in Targets(chosen) /\ Root \in Managed /\ "wmp_recovery" \in Repo[Root].sections

\* Past its preflight an update has the helper, and over SSH at its upload; the
\* material's extra is there before its file.
Helped ==
  /\ http => action = "install" /\ comps = {"config"}
  /\ chosen \subseteq Managed
  /\ pc \in {"helper", "diff", "upload"} => action = "install"
  /\ pc \in {"diff", "upload"} => http \/ "wmp_recovery" \in extras
  /\ pc = "upload" => todo \subseteq Targets(chosen)
  /\ pc \in {"fill", "fillcfg"} => action = "install"
  /\ pc \in {"cfg", "fillcfg"} /\ action = "install" => "wm_material" \in extras
  /\ http /\ "config" \notin unchecked \cup failed /\ NeedsHelper => "wmp_recovery" \in extras

\* The preflight over HTTP finds the helper running if it is needed.
LEMMA PreflightHelps ==
  ASSUME Owned, http, NeedsHelper, ConfigMeets
  PROVE  "wmp_recovery" \in extras
<1> DEFINE next == Leaves(conf, chosen)
<1>1. next[Root] = Repo[Root] /\ Root \in Available(next)
  BY PlanAssumption DEF NeedsHelper, Leaves, Available
<1>2. Root \in Visited(next, Root)
  BY <1>1 DEF Visited
<1>3. "wmp_recovery" \in Active(next)
  BY <1>1, <1>2 DEF Active, NeedsHelper
<1>4. "wmp_recovery" \in running
  BY <1>3 DEF ConfigMeets
<1> QED BY <1>4 DEF Owned

\* What any step does to files and extras.
LEMMA WhoWrites ==
  ASSUME [Next]_vars
  PROVE  \/ UNCHANGED <<conf, extras>> /\ ("wm_material" \in half => "wm_material" \in half')
         \/ Helper \/ \E n \in Managed : UploadFile(n)
         \/ OpenExtra \/ PutExtra \/ RemoveExtra \/ OpenCfg \/ PutCfg \/ RemoveCfg
<1> USE DEF printer, disk, Keeps, To
<1>1. CASE Deploy
  <2>1. UNCHANGED <<printer, half>>
    BY <1>1 DEF Deploy, Command, FirstCheck, FirstBlocked, Fit, Unfit, FitsOnly, PreflightPasses,
       PreflightFails, Begin, BeginBlocked, NoUninstall, Stops, AllDone, FinalCheck,
       FinalBlocked, Restart, Ready, NotReady, Refused, Ends
  <2> QED BY <2>1
<1>2. CASE Install
  <2>1. ASSUME NEW i \in DOMAIN PARTS, AddPart(i) \/ RemovePart(i) \/ RemovalIgnored(i)
        PROVE  UNCHANGED <<conf, extras>> /\ ("wm_material" \in half => "wm_material" \in half')
    <3>1. PARTS[i] # "wm_material"
      BY DEF PARTS
    <3> QED BY <2>1, <3>1 DEF AddPart, RemovePart, RemovalIgnored
  <2> QED BY <1>2, <2>1 DEF Install, Diff, DiffRefuses, Uploaded, AddWebcam,
     RemoveWebcam, RemovePayload, ScriptFails, Build, Unbuild, BuildFails, Dropin, Service,
     ServiceRuns, ServiceFails, Refused, Ends
<1>3. CASE PrintStep \/ Reboot
  BY <1>3 DEF PrintStep, Reboot
<1> QED BY <1>1, <1>2, <1>3 DEF Next, vars

\* And to what Klipper runs with.
LEMMA WhoLoads ==
  ASSUME [Next]_vars
  PROVE  running' \subseteq running \cup extras
<1>1. CASE Restart \/ Reboot
  BY <1>1 DEF Restart, Reboot, Reload, Loads
<1>2. CASE ~ Restart /\ ~ Reboot
  <2> USE DEF host, Keeps, To
  <2>1. CASE Deploy
    BY <1>2, <2>1 DEF Deploy, Command, FirstCheck, FirstBlocked, Fit, Unfit, FitsOnly,
       PreflightPasses, PreflightFails, Begin, BeginBlocked, NoUninstall, Stops, AllDone,
       FinalCheck, FinalBlocked, Ready, NotReady, Refused, Ends
  <2>2. CASE Install
    BY <2>2 DEF Install, Helper, UploadFile, OpenExtra, PutExtra, Withdrawn, RemoveExtra, OpenCfg, PutCfg,
       RemoveCfg, Diff, DiffRefuses, Uploaded, AddPart, RemovePart, RemovalIgnored, AddWebcam,
       RemoveWebcam, RemovePayload, ScriptFails, Build, Unbuild, BuildFails, Dropin, Service,
       ServiceRuns, ServiceFails, Refused, Ends, Done
  <2>3. CASE PrintStep
    BY <2>3 DEF PrintStep
  <2> QED BY <1>2, <2>1, <2>2, <2>3 DEF Next, vars
<1> QED BY <1>1, <1>2

LEMMA OwnedStep ==
  ASSUME TypeOK, Checked, Owned, Helped, [Next]_vars
  PROVE  Owned'
<1> SUFFICES \A n \in Available(conf') :
               /\ "wmp_recovery" \in conf'[n].sections => "wmp_recovery" \in extras'
               /\ "wm_material" \in conf'[n].sections =>
                    n = MaterialCfg /\ "wm_material" \in half' \cup extras'
  <2>1. extras \ {"wm_material"} \subseteq extras'
    BY WhoWrites DEF Helper, UploadFile, OpenExtra, PutExtra, Withdrawn, RemoveExtra, OpenCfg, PutCfg, RemoveCfg
  <2>2. running' \ {"wm_material"} \subseteq extras'
    BY <2>1, WhoLoads DEF Owned
  <2> QED BY <2>2 DEF Owned, Available
<1>1. CASE UNCHANGED <<conf, extras>> /\ ("wm_material" \in half => "wm_material" \in half')
  BY <1>1 DEF Owned, Available
<1>2. CASE Helper
  BY <1>2 DEF Helper, Owned, Available
<1>3. ASSUME NEW n \in Managed, UploadFile(n)
      PROVE  \A m \in Available(conf') :
               /\ "wmp_recovery" \in conf'[m].sections => "wmp_recovery" \in extras'
               /\ "wm_material" \in conf'[m].sections =>
                    m = MaterialCfg /\ "wm_material" \in half' \cup extras'
  <2>1. UNCHANGED <<extras, half>> /\ conf' = [conf EXCEPT ![n] = Repo[n]]
    BY <1>3 DEF UploadFile
  <2>2. \A m \in Names \ {n} : conf'[m] = conf[m]
    BY <2>1 DEF TypeOK
  <2>3. conf'[n] = Repo[n]
    BY <2>1, PlanAssumption DEF TypeOK
  <2>4. "wm_material" \notin Repo[n].sections
    BY OwnAssumption DEF Own
  <2>5. ASSUME "wmp_recovery" \in Repo[n].sections PROVE "wmp_recovery" \in extras
    <3>1. n = Root
      BY <2>5, OwnAssumption DEF Own
    <3>2. pc = "upload" /\ n \in todo
      BY <1>3 DEF UploadFile
    <3>3. NeedsHelper
      BY <2>5, <3>1, <3>2 DEF NeedsHelper, Helped
    <3>4. http \/ "wmp_recovery" \in extras
      BY <3>2 DEF Helped
    <3>5. unchecked = {} /\ failed = {}
      BY <3>2 DEF Checked, Helped
    <3> QED BY <3>3, <3>4, <3>5 DEF Helped
  <2> QED BY <2>1, <2>2, <2>3, <2>4, <2>5 DEF Owned, Available
<1>4. CASE PutExtra
  BY <1>4 DEF PutExtra, Owned, Available
<1>5. CASE OpenExtra \/ RemoveExtra
  <2>1. \A n \in Available(conf) : "wm_material" \in conf[n].sections
          => n = MaterialCfg /\ conf[n] # Absent
    BY DEF Owned, Available
  <2>2. UNCHANGED conf
    BY <1>5 DEF OpenExtra, RemoveExtra
  <2>3. CASE Withdrawn
    BY <2>1, <2>2, <2>3 DEF Withdrawn, Owned, Available
  <2>4. CASE UNCHANGED <<extras, half>>
    BY <2>2, <2>4 DEF Owned, Available
  <2> QED BY <1>5, <2>3, <2>4 DEF OpenExtra, RemoveExtra
<1>6. CASE OpenCfg \/ PutCfg
  <2>1. /\ UNCHANGED <<extras, half>>
        /\ \E t \in {Cut, MaterialText} : conf' = [conf EXCEPT ![MaterialCfg] = t]
    BY <1>6 DEF OpenCfg, PutCfg
  <2>2. \A m \in Names \ {MaterialCfg} : conf'[m] = conf[m]
    BY <2>1 DEF TypeOK
  <2>3. conf'[MaterialCfg] \in {Cut, MaterialText} /\ "wmp_recovery" \notin conf'[MaterialCfg].sections
    BY <2>1, DeployAssumption, OwnAssumption DEF TypeOK, Own, Cut
  <2>4. "wm_material" \in extras
    BY <1>6 DEF OpenCfg, PutCfg, Helped
  <2> QED BY <2>1, <2>2, <2>3, <2>4 DEF Owned, Available
<1>7. CASE RemoveCfg
  <2>1. UNCHANGED extras
    BY <1>7 DEF RemoveCfg
  <2>2. CASE conf' = [conf EXCEPT ![MaterialCfg] = Absent]
    <3>1. \A m \in Names \ {MaterialCfg} : conf'[m] = conf[m]
      BY <2>2 DEF TypeOK
    <3>2. conf'[MaterialCfg] = Absent
      BY <2>2, DeployAssumption DEF TypeOK
    <3> QED BY <2>1, <3>1, <3>2 DEF Owned, Available
  <2>3. CASE UNCHANGED <<conf, half>>
    BY <2>1, <2>3 DEF Owned, Available
  <2> QED BY <1>7, <2>2, <2>3 DEF RemoveCfg
<1> QED BY <1>1, <1>2, <1>3, <1>4, <1>5, <1>6, <1>7, WhoWrites

LEMMA HelpedStep ==
  ASSUME TypeOK, Owned, Helped, [Next]_vars
  PROVE  Helped'
<1> USE DEF printer, disk, host, command, checks, work, Keeps, To
<1>1. ASSUME NEW r \in Commands, Command(r) PROVE Helped'
  <2>1. r \in Requests
    BY DeployAssumption
  <2>2. /\ r.chosen \subseteq Managed /\ (r.http => r.comps = {"config"})
        /\ r.http => r.action = "install"
    BY <2>1 DEF Requests
  <2> QED BY <1>1, <2>2 DEF Command, Helped
<1>2. ASSUME NEW c \in Components, PreflightPasses(c) PROVE Helped'
  <2>1. CASE c = "config"
    <3>1. ConfigMeets
      BY <1>2, <2>1 DEF PreflightPasses, Meets
    <3>2. http /\ NeedsHelper => "wmp_recovery" \in extras
      BY <3>1, PreflightHelps
    <3> QED BY <1>2, <3>2 DEF PreflightPasses, Helped, NeedsHelper
  <2>2. CASE c # "config"
    BY <1>2, <2>2 DEF PreflightPasses, Helped, NeedsHelper
  <2> QED BY <2>1, <2>2
<1>3. ASSUME NEW c \in Components, PreflightFails(c) PROVE Helped'
  BY <1>3 DEF PreflightFails, Helped, NeedsHelper
<1>4. ASSUME NEW c \in Components, Begin(c) PROVE Helped'
  <2>1. pc' = Enter(c) /\ (c = "config" => action = "install")
        /\ Keeps(<<printer, host, rc, checks, work, half>>)
    BY <1>4 DEF Begin
  <2>2. Enter(c) \in {"helper", "diff", "payload", "webcam", "extra", "build"}
        /\ (Enter(c) = "helper" => c = "config") /\ (Enter(c) = "diff" => c = "config" /\ http)
    BY DEF Enter, Components, ORDER
  <2> QED BY <2>1, <2>2 DEF Helped, NeedsHelper
<1>5. CASE FirstCheck \/ Fit \/ FinalCheck \/ Restart
  BY <1>5 DEF FirstCheck, Fit, FinalCheck, Restart, Helped, NeedsHelper
<1>6. CASE FirstBlocked \/ Unfit \/ FitsOnly \/ BeginBlocked \/ Stops \/ AllDone \/ FinalBlocked
             \/ Ready \/ NotReady
  BY <1>6 DEF FirstBlocked, Unfit, FitsOnly, BeginBlocked, Stops, AllDone, FinalBlocked,
              Ready, NotReady, Ends, Helped
<1>7. CASE NoUninstall \/ DiffRefuses \/ ScriptFails \/ BuildFails \/ ServiceFails
  BY <1>7 DEF NoUninstall, DiffRefuses, ScriptFails, BuildFails, ServiceFails, Refused, Ends,
              Helped, NeedsHelper
<1>8. CASE Uploaded \/ AddWebcam \/ RemovePayload \/ PutCfg \/ RemoveCfg \/ ServiceRuns
  BY <1>8 DEF Uploaded, AddWebcam, RemovePayload, PutCfg, RemoveCfg, ServiceRuns, Done,
              Helped, NeedsHelper
<1>9. CASE Helper
  BY <1>9 DEF Helper, Helped, NeedsHelper
<1>10. CASE Diff
  <2>1. todo' \subseteq Targets(chosen) /\ pc = "diff" /\ pc' = "upload"
    BY <1>10 DEF Diff, Differing, Targets
  <2>2. UNCHANGED <<printer, action, comps, chosen, http, unchecked, failed>>
    BY <1>10 DEF Diff
  <2> QED BY <2>1, <2>2 DEF Helped, NeedsHelper
<1>11. ASSUME NEW n \in Managed, UploadFile(n) PROVE Helped'
  BY <1>11 DEF UploadFile, Helped, NeedsHelper
<1>12. ASSUME NEW i \in DOMAIN PARTS, AddPart(i) \/ RemovePart(i) \/ RemovalIgnored(i) PROVE Helped'
  <2>1. i < 4 => PARTS[i + 1] \in {"include", "unit", "webcam"}
    BY DEF PARTS
  <2>2. i \in {2, 3} => PARTS[i - 1] \in {"payload", "include"}
    BY DEF PARTS
  <2> QED BY <1>12, <2>1, <2>2 DEF AddPart, RemovePart, RemovalIgnored, Helped, NeedsHelper
<1>13. CASE RemoveWebcam \/ Dropin \/ Service
  BY <1>13 DEF RemoveWebcam, Dropin, Service, Helped, NeedsHelper
<1>14. CASE OpenExtra \/ PutExtra \/ OpenCfg
  BY <1>14 DEF OpenExtra, PutExtra, Withdrawn, OpenCfg, Helped, NeedsHelper
<1>15. CASE RemoveExtra
  BY <1>15 DEF RemoveExtra, Withdrawn, Helped, NeedsHelper
<1>16. ASSUME NEW lib \in Libs, Build(lib) \/ Unbuild(lib) PROVE Helped'
  BY <1>16 DEF Build, Unbuild, Helped, NeedsHelper
<1>17. CASE PrintStep \/ Reboot \/ UNCHANGED vars
  BY <1>17 DEF PrintStep, Reboot, vars, Helped, NeedsHelper
<1> QED
  BY <1>1, <1>2, <1>3, <1>4, <1>5, <1>6, <1>7, <1>8, <1>9, <1>10, <1>11, <1>12, <1>13,
     <1>14, <1>15, <1>16, <1>17 DEF Next, Deploy, Install

LEMMA OwnedAlways == Spec => [](Owned /\ Helped)
<1>1. Init => Owned /\ Helped
  <2> SUFFICES ASSUME Init PROVE Owned /\ Helped
    OBVIOUS
  <2>1. PICK p \in Printers : conf = p.conf /\ extras = p.extras
    BY DEF Init
  <2>2. \A n \in Available(conf) :
          /\ "wmp_recovery" \in conf[n].sections => "wmp_recovery" \in extras
          /\ "wm_material" \in conf[n].sections => n = MaterialCfg /\ "wm_material" \in extras
    BY <2>1, OwnAssumption DEF Own
  <2>3. running \subseteq extras
    BY DEF Init, Loads
  <2> QED BY <2>2, <2>3 DEF Init, Owned, Helped
<1>2. TypeOK /\ Checked /\ Owned /\ Helped /\ [Next]_vars => Owned' /\ Helped'
  BY OwnedStep, HelpedStep
<1> QED BY <1>1, <1>2, TypeCorrect, OrderKept, PTL DEF Spec

\* SectionsHaveExtras always holds: wherever a command breaks off, what Klipper
\* would load has the project's extras, over SSH because they go first, over
\* HTTP because the preflight asks for them.
THEOREM SectionsCorrect == Spec => []SectionsHaveExtras
<1>1. Owned => SectionsHaveExtras
  BY DEF Owned, SectionsHaveExtras, Active, Visited, Own
<1> QED BY <1>1, OwnedAlways, PTL

---------------------------------------------------------------------------
(* A successful installation *)

\* The configuration to come can be loaded, up to the project's own extras.
Fits(c) == Resolves(c, Root) /\ Active(c) \cap Vendor \subseteq extras
Planned ==
  action = "install" /\ "config" \in comps /\ "config" \notin unchecked \cup failed
    => Fits(Leaves(conf, chosen))

\* The component at work, and what is left.
Position ==
  /\ pc \in {"helper", "diff", "upload"} => First(left) = "config"
  /\ pc \in {"payload", "include", "unit", "webcam"} => First(left) = "touchscreen"
  /\ pc \in {"extra", "fill", "cfg", "fillcfg"} => First(left) = "material" /\ "material" \in left
  /\ pc \in {"build", "service", "active"} => First(left) = "preload"
  /\ pc \in {"restart", "wait"} => left = {}
  /\ pc \in {"idle", "first", "preflight"} => left = comps
  /\ (comps \ left) \cap ForKlipper # {} => need \/ action = "uninstall"
  /\ pc = "wait" => ~ stale /\ (klipper = "ready" => running = Active(conf))

\* What a component has put in place, line by line and when it is done.
Configured ==
  /\ "config" \in comps \ left => \A n \in Targets(chosen) : conf[n] = Repo[n]
  /\ pc = "upload" => \A n \in Targets(chosen) \ todo : conf[n] = Repo[n]
Bridged ==
  /\ "touchscreen" \in comps \ left \/ pc = "webcam" => {"payload", "include", "unit"} \subseteq bridge
  /\ pc = "include" => "payload" \in bridge
  /\ pc = "unit" => {"payload", "include"} \subseteq bridge
Extended ==
  "material" \in comps \ left => "wm_material" \in extras /\ conf[MaterialCfg] = MaterialText
Patched ==
  /\ "preload" \in comps \ left \/ pc = "active" => preloaded = Libs
  /\ "preload" \in comps \ left \/ pc \in {"service", "active"} => libs = Libs /\ dropin = Libs
Placed == action = "install" => Configured /\ Bridged /\ Extended /\ Patched

\* The material file, whole or cut, adds itself to what is visited, and nothing else.
LEMMA MaterialFits ==
  ASSUME NEW c \in [Names -> Texts \cup {Absent}], Resolves(c, Root),
         NEW t \in {Cut, MaterialText}
  PROVE  LET d == [c EXCEPT ![MaterialCfg] = t]
         IN  Resolves(d, Root) /\ Active(d) \subseteq Active(c) \cup {"wm_material"}
<1> DEFINE d == [c EXCEPT ![MaterialCfg] = t]
<1>0. t \in Texts /\ t.needs = {} /\ t.globs = {} /\ t.sections \subseteq {"wm_material"}
  <2>1. CASE t = Cut BY <2>1, CutIsText DEF Cut
  <2>2. CASE t = MaterialText BY <2>2, DeployAssumption, OwnAssumption
  <2> QED BY <2>1, <2>2
<1>1. /\ MaterialCfg \in Names /\ d[MaterialCfg] = t /\ t # Absent
      /\ \A n \in Names \ {MaterialCfg} : d[n] = c[n]
  BY <1>0, DeployAssumption, PlanAssumption
<1> HIDE DEF d
<1>2. Available(d) = Available(c) \cup {MaterialCfg}
  BY <1>1 DEF Available
<1>3. Included(d, MaterialCfg) = {}
  BY <1>0, <1>1 DEF Included
<1>4. \A n \in Available(c) \ {MaterialCfg} : Included(d, n) \subseteq Included(c, n) \cup {MaterialCfg}
  BY <1>1, <1>2 DEF Included, Available
<1>5. Visited(d, Root) \subseteq Visited(c, Root) \cup {MaterialCfg}
  <2> SUFFICES ASSUME NEW n \in Visited(d, Root), n # MaterialCfg,
                      NEW files \in SUBSET Available(c), Root \in files,
                      \A m \in files : Included(c, m) \subseteq files
               PROVE  n \in files /\ n \in Available(c)
    BY <1>2 DEF Visited
  <2>1. files \cup {MaterialCfg} \in SUBSET Available(d)
    BY <1>2
  <2>2. \A m \in files \cup {MaterialCfg} : Included(d, m) \subseteq files \cup {MaterialCfg}
    BY <1>3, <1>4
  <2>3. n \in files \cup {MaterialCfg}
    BY <2>1, <2>2 DEF Visited
  <2> QED BY <2>3
<1>6. \A n \in Visited(c, Root) : n \in Names
  BY DEF Visited, Available
<1>7. Resolves(d, Root)
  BY <1>0, <1>1, <1>2, <1>5, <1>6 DEF Resolves
<1>8. Active(d) \subseteq Active(c) \cup {"wm_material"}
  BY <1>0, <1>1, <1>5, <1>6 DEF Active
<1> QED BY <1>7, <1>8 DEF d

LEMMA PreflightFits ==
  ASSUME Owned, ConfigMeets
  PROVE  Fits(Leaves(conf, chosen))
<1> DEFINE next == Leaves(conf, chosen)
<1>1. Resolves(next, Root)
  BY DEF ConfigMeets, Accepted
<1>2. Active(next) \cap Vendor \subseteq running \/ Active(next) \cap Vendor \subseteq extras
  BY DEF ConfigMeets
<1>3. "wm_material" \notin Vendor
  BY DeployAssumption DEF Own
<1> QED BY <1>1, <1>2, <1>3 DEF Fits, Owned

LEMMA LeavesTyped ==
  TypeOK /\ chosen \subseteq Managed => Leaves(conf, chosen) \in [Names -> Texts \cup {Absent}]
BY PlanAssumption DEF TypeOK, Leaves, Targets

\* What any step does to the choice and its checks.
LEMMA WhoChooses ==
  ASSUME [Next]_vars
  PROVE  \/ \E r \in Commands : Command(r)
         \/ comps' = {}
         \/ \E c \in Components : PreflightPasses(c)
         \/ UNCHANGED <<action, comps, chosen>> /\ unchecked \cup failed \subseteq unchecked' \cup failed'
<1> USE DEF Keeps, To, checks, command
<1>1. CASE Deploy
  BY <1>1 DEF Deploy, FirstCheck, FirstBlocked, Fit, Unfit, FitsOnly,
     PreflightFails, Begin, BeginBlocked, NoUninstall, Stops, AllDone, FinalCheck,
     FinalBlocked, Restart, Ready, NotReady, Refused, Ends
<1>2. CASE Install
  BY <1>2 DEF Install, Helper, UploadFile, OpenExtra, PutExtra, Withdrawn, RemoveExtra, OpenCfg, PutCfg,
       RemoveCfg, Diff, DiffRefuses, Uploaded, AddPart, RemovePart, RemovalIgnored, AddWebcam,
     RemoveWebcam, RemovePayload, ScriptFails, Build, Unbuild, BuildFails, Dropin, Service,
     ServiceRuns, ServiceFails, Refused, Ends, Done
<1>3. CASE PrintStep \/ Reboot
  BY <1>3 DEF PrintStep, Reboot
<1> QED BY <1>1, <1>2, <1>3 DEF Next, vars

LEMMA PlannedStep ==
  ASSUME TypeOK, Owned, Helped, Planned, [Next]_vars
  PROVE  Planned'
<1> SUFFICES ASSUME action' = "install", "config" \in comps', "config" \notin unchecked' \cup failed'
             PROVE  Fits(Leaves(conf, chosen))'
  BY DEF Planned
<1>1. ASSUME UNCHANGED <<conf, chosen, extras>>, Fits(Leaves(conf, chosen))
      PROVE  Fits(Leaves(conf, chosen))'
  BY <1>1 DEF Fits
<1>2. ASSUME NEW r \in Commands, Command(r) PROVE FALSE
  BY <1>2 DEF Command
<1>3. ASSUME NEW c \in Components, PreflightPasses(c) PROVE Fits(Leaves(conf, chosen))'
  <2>1. UNCHANGED <<conf, chosen, extras, action, comps, failed>> /\ unchecked' = unchecked \ {c}
    BY <1>3 DEF PreflightPasses, Keeps, printer, disk
  <2>2. CASE c = "config"
    <3>1. ConfigMeets
      BY <1>3, <2>2 DEF PreflightPasses, Meets
    <3> QED BY <1>1, <2>1, <3>1, PreflightFits
  <2>3. CASE c # "config"
    BY <1>1, <2>1, <2>3 DEF Planned
  <2> QED BY <2>2, <2>3
<1>4. ASSUME UNCHANGED <<action, comps, chosen>>,
             unchecked \cup failed \subseteq unchecked' \cup failed'
      PROVE  Fits(Leaves(conf, chosen))'
  <2>1. Fits(Leaves(conf, chosen)) /\ action = "install"
    BY <1>4 DEF Planned
  <2>2. "wm_material" \notin Vendor
    BY DeployAssumption DEF Own
  <2>3. extras \ {"wm_material"} \subseteq extras'
    BY WhoWrites DEF Helper, UploadFile, OpenExtra, PutExtra, Withdrawn, RemoveExtra, OpenCfg, PutCfg, RemoveCfg
  <2>4. CASE Leaves(conf, chosen)' = Leaves(conf, chosen)
    BY <2>1, <2>2, <2>3, <2>4 DEF Fits
  <2>5. ASSUME UNCHANGED conf PROVE Leaves(conf, chosen)' = Leaves(conf, chosen)
    BY <1>4, <2>5 DEF Leaves
  <2>6. ASSUME NEW n \in Managed, UploadFile(n)
        PROVE  Leaves(conf, chosen)' = Leaves(conf, chosen)
    <3>1. n \in Targets(chosen) /\ conf' = [conf EXCEPT ![n] = Repo[n]] /\ chosen' = chosen
      BY <1>4, <2>6 DEF UploadFile, Helped
    <3>2. \A m \in Names : m \in Targets(chosen) \/ conf'[m] = conf[m]
      BY <3>1 DEF TypeOK
    <3> QED BY <3>1, <3>2 DEF Leaves
  <2>7. CASE OpenCfg \/ PutCfg
    <3> DEFINE next == Leaves(conf, chosen)
    <3>1. PICK t \in {Cut, MaterialText} : conf' = [conf EXCEPT ![MaterialCfg] = t]
      BY <2>7 DEF OpenCfg, PutCfg
    <3>0. extras' = extras
      BY <2>7 DEF OpenCfg, PutCfg
    <3>2. MaterialCfg \in Names /\ MaterialCfg \notin Targets(chosen)
      BY DeployAssumption DEF Targets, Helped
    <3>3. next' = [next EXCEPT ![MaterialCfg] = t]
      BY <1>4, <3>1, <3>2 DEF Leaves, TypeOK
    <3>4. next \in [Names -> Texts \cup {Absent}]
      BY LeavesTyped DEF Helped
    <3>5. Resolves(next', Root) /\ Active(next') \subseteq Active(next) \cup {"wm_material"}
      BY <2>1, <3>3, <3>4, MaterialFits DEF Fits
    <3> QED BY <2>1, <2>2, <3>0, <3>5 DEF Fits
  <2>8. RemoveCfg => action = "uninstall"
    BY DEF RemoveCfg
  <2>9. Helper \/ OpenExtra \/ PutExtra \/ RemoveExtra => UNCHANGED conf
    BY DEF Helper, OpenExtra, PutExtra, RemoveExtra
  <2> QED BY <2>1, <2>4, <2>5, <2>6, <2>7, <2>8, <2>9, WhoWrites
<1> QED BY <1>2, <1>3, <1>4, WhoChooses

\* The first of the components that are left is one of them.
LEMMA FirstIsLeft ==
  ASSUME NEW set \in SUBSET Components, set # {}
  PROVE  First(set) \in set
<1> DEFINE Least(i) == ORDER[i] \in set /\ \A j \in 1 .. i - 1 : ORDER[j] \notin set
<1>1. DOMAIN ORDER = 1 .. 4
  BY DEF ORDER
<1>2. ORDER[1] \in set \/ ORDER[2] \in set \/ ORDER[3] \in set \/ ORDER[4] \in set
  BY <1>1 DEF Components
<1>3. \E i \in DOMAIN ORDER : Least(i)
  <2>1. CASE ORDER[1] \in set BY <1>1, <2>1
  <2>2. CASE ORDER[1] \notin set /\ ORDER[2] \in set BY <1>1, <2>2
  <2>3. CASE ORDER[1] \notin set /\ ORDER[2] \notin set /\ ORDER[3] \in set BY <1>1, <2>3
  <2>4. CASE /\ ORDER[1] \notin set /\ ORDER[2] \notin set
             /\ ORDER[3] \notin set /\ ORDER[4] \in set
    BY <1>1, <2>4
  <2> QED BY <1>2, <2>1, <2>2, <2>3, <2>4
<1> QED BY <1>3 DEF First

LEMMA PositionStep ==
  ASSUME TypeOK, Helped, Position, [Next]_vars
  PROVE  Position'
<1> USE DEF printer, disk, host, command, checks, work, Keeps, To
<1>1. ASSUME NEW r \in Commands, Command(r) PROVE Position'
  BY <1>1 DEF Command, Position
<1>2. ASSUME NEW c \in Components, PreflightPasses(c) \/ PreflightFails(c) PROVE Position'
  BY <1>2 DEF PreflightPasses, PreflightFails, Position, Active, Visited, Available
<1>3. ASSUME NEW c \in Components, Begin(c) PROVE Position'
  <2>1. pc' = Enter(c) /\ pc = "next" /\ c = First(left)
        /\ UNCHANGED <<left, comps, need, action>>
    BY <1>3 DEF Begin
  <2>2. /\ c = "config" => Enter(c) \in {"helper", "diff"}
        /\ c = "touchscreen" => Enter(c) \in {"payload", "webcam"}
        /\ c = "material" => Enter(c) = "extra"
        /\ c = "preload" => Enter(c) = "build"
        /\ c \in {"config", "touchscreen", "material", "preload"}
    BY DEF Enter, Components, ORDER
  <2>3. c \in left
    BY <1>3, <2>1, FirstIsLeft DEF Begin, TypeOK
  <2> QED BY <2>1, <2>2, <2>3 DEF Position
<1>4. CASE FirstCheck \/ Fit \/ FinalCheck
  BY <1>4 DEF FirstCheck, Fit, FinalCheck, Position
<1>5. CASE Restart
  <2>1. ~ stale' /\ (klipper' = "ready" => running' = Active(conf)) /\ pc' = "wait" /\ pc = "restart"
    BY <1>5 DEF Restart, Reload
  <2>2. UNCHANGED <<conf, left, comps, need, action>>
    BY <1>5 DEF Restart
  <2> QED BY <2>1, <2>2 DEF Position
<1>6. CASE FirstBlocked \/ Unfit \/ FitsOnly \/ BeginBlocked \/ Stops \/ AllDone \/ FinalBlocked
             \/ Ready \/ NotReady
  BY <1>6 DEF FirstBlocked, Unfit, FitsOnly, BeginBlocked, Stops, AllDone, FinalBlocked,
              Ready, NotReady, Ends, Position
<1>7. CASE NoUninstall \/ DiffRefuses \/ ScriptFails \/ BuildFails \/ ServiceFails
  <2>1. \/ pc' = "idle" /\ left' = {} /\ comps' = {}
        \/ action' = "uninstall" /\ pc' = "next"
    BY <1>7 DEF NoUninstall, DiffRefuses, ScriptFails, BuildFails, ServiceFails, Refused, Ends
  <2> QED BY <2>1 DEF Position
<1>8. CASE Uploaded \/ AddWebcam \/ RemovePayload \/ PutCfg \/ RemoveCfg \/ ServiceRuns
  <2>1. /\ pc' = "next" /\ left' = left \ {First(left)} /\ UNCHANGED <<comps, action>>
        /\ need' = (need \/ First(left) \in ForKlipper)
    BY <1>8 DEF Uploaded, AddWebcam, RemovePayload, PutCfg, RemoveCfg, ServiceRuns, Done
  <2>2. (comps' \ left') \cap ForKlipper # {} => need' \/ action' = "uninstall"
    BY <2>1 DEF Position
  <2> QED BY <2>1, <2>2 DEF Position
<1>9. CASE \/ Helper \/ Diff \/ \E n \in Managed : UploadFile(n)
           \/ RemoveWebcam \/ Dropin \/ Service \/ OpenExtra \/ PutExtra \/ RemoveExtra \/ OpenCfg
           \/ \E lib \in Libs : Build(lib) \/ Unbuild(lib)
  <2>1. /\ UNCHANGED <<left, comps, need, action>>
        /\ \/ pc = "helper" /\ pc' = "diff"
           \/ pc \in {"diff", "upload"} /\ pc' = "upload"
           \/ pc = "webcam" /\ pc' = "unit"
           \/ pc = "build" /\ pc' \in {"build", "service"}
           \/ pc = "service" /\ pc' = "active"
           \/ pc \in {"extra", "fill", "cfg"} /\ pc' \in {"fill", "cfg", "fillcfg"}
    BY <1>9 DEF Helper, Diff, UploadFile, RemoveWebcam, Dropin, Service, OpenExtra, PutExtra,
                RemoveExtra, OpenCfg, Build, Unbuild
  <2> QED BY <2>1 DEF Position
<1>10. ASSUME NEW i \in DOMAIN PARTS, AddPart(i) \/ RemovePart(i) \/ RemovalIgnored(i)
       PROVE  Position'
  <2>1. PARTS[i] \in {"payload", "include", "unit", "webcam"}
        /\ (i < 4 => PARTS[i + 1] \in {"include", "unit", "webcam"})
        /\ (i \in {2, 3} => PARTS[i - 1] \in {"payload", "include"})
    BY DEF PARTS
  <2>2. UNCHANGED <<left, comps, need, action>> /\ pc \in {"payload", "include", "unit", "webcam"}
        /\ pc' \in {"payload", "include", "unit", "webcam"}
    BY <1>10, <2>1 DEF AddPart, RemovePart, RemovalIgnored
  <2> QED BY <2>2 DEF Position
<1>11. CASE PrintStep \/ UNCHANGED vars
  BY <1>11 DEF PrintStep, vars, Position
<1>12. CASE Reboot
  <2>1. ~ stale' /\ (klipper' = "ready" => running' = Active(conf))
    BY <1>12 DEF Reboot, Reload
  <2>2. UNCHANGED <<conf, left, comps, need, action, pc>>
    BY <1>12 DEF Reboot
  <2> QED BY <2>1, <2>2 DEF Position
<1> QED
  BY <1>1, <1>2, <1>3, <1>4, <1>5, <1>6, <1>7, <1>8, <1>9, <1>10, <1>11, <1>12
     DEF Next, Deploy, Install

\* Lines that put nothing in place.
Lines == {"upload", "include", "unit", "webcam", "service", "active"}
LEMMA PlacedQuietly ==
  ASSUME Placed, UNCHANGED <<printer, action, comps, chosen, left>>,
         pc' \notin Lines \/ (pc' = pc /\ todo' = todo)
  PROVE  Placed'
<1>1. Configured => Configured'
  BY DEF Configured, Lines, printer, disk
<1>2. Bridged => Bridged'
  BY DEF Bridged, Lines, printer, disk
<1>3. Extended => Extended'
  BY DEF Extended, Lines, printer, disk
<1>4. Patched => Patched'
  BY DEF Patched, Lines, printer, disk
<1> QED BY <1>1, <1>2, <1>3, <1>4 DEF Placed

LEMMA PlacedEmpty == comps' = {} /\ pc' = "idle" => Placed'
BY DEF Placed, Configured, Bridged, Extended, Patched

LEMMA PlacedStep ==
  ASSUME "silent" \notin Faults, TypeOK, Helped, Position, Placed, [Next]_vars
  PROVE  Placed'
<1> USE DEF host, command, checks, work, Keeps, To
<1>1. ASSUME NEW r \in Commands, Command(r) PROVE Placed'
  BY <1>1 DEF Command, Placed, Configured, Bridged, Extended, Patched
<1>2. CASE \/ FirstCheck \/ Fit \/ FinalCheck \/ Restart
           \/ \E c \in Components : PreflightPasses(c) \/ PreflightFails(c)
  <2>1. UNCHANGED <<printer, action, comps, chosen, left>>
    BY <1>2 DEF FirstCheck, Fit, FinalCheck, Restart, PreflightPasses, PreflightFails
  <2>2. pc' \in {"preflight", "next", "restart", "wait"} \/ (pc' = pc /\ todo' = todo)
    BY <1>2 DEF FirstCheck, Fit, FinalCheck, Restart, PreflightPasses, PreflightFails
  <2> QED BY <2>1, <2>2, PlacedQuietly DEF Lines
<1>3. ASSUME NEW c \in Components, Begin(c) PROVE Placed'
  <2>1. UNCHANGED <<printer, action, comps, chosen, left>> /\ pc' = Enter(c)
    BY <1>3 DEF Begin
  <2>2. action = "install" => Enter(c) \in {"helper", "diff", "payload", "extra", "build"}
    BY DEF Enter, Components, ORDER
  <2>3. CASE action = "install"
    BY <2>1, <2>2, <2>3, PlacedQuietly DEF Lines
  <2>4. CASE action # "install"
    BY <2>1, <2>4 DEF Placed
  <2> QED BY <2>3, <2>4
<1>4. CASE FirstBlocked \/ Unfit \/ FitsOnly \/ BeginBlocked \/ Stops \/ AllDone \/ FinalBlocked
             \/ Ready \/ NotReady
  BY <1>4, PlacedEmpty DEF FirstBlocked, Unfit, FitsOnly, BeginBlocked, Stops, AllDone,
     FinalBlocked, Ready, NotReady, Ends
<1>5. CASE NoUninstall \/ DiffRefuses \/ ScriptFails \/ BuildFails \/ ServiceFails
  <2>1. (comps' = {} /\ pc' = "idle") \/ action' # "install"
    BY <1>5 DEF NoUninstall, DiffRefuses, ScriptFails, BuildFails, ServiceFails, Refused, Ends
  <2> QED BY <2>1, PlacedEmpty DEF Placed
<1>6. CASE Helper
  <2>1. UNCHANGED <<conf, libs, dropin, bridge, preloaded, action, comps, chosen, left>>
        /\ extras \subseteq extras' /\ pc' = "diff"
    BY <1>6 DEF Helper
  <2> QED BY <2>1 DEF Placed, Configured, Bridged, Extended, Patched
<1>7. CASE Diff
  <2>1. UNCHANGED <<conf, extras, libs, dropin, bridge, preloaded, action, comps, chosen, left>>
        /\ pc' = "upload"
    BY <1>7 DEF Diff, printer, disk
  <2>2. \A n \in Targets(chosen) \ todo' : conf[n] = Repo[n]
    BY <1>7 DEF Diff, Differing, Targets
  <2>3. Configured => Configured'
    BY <2>1, <2>2 DEF Configured
  <2> QED BY <2>1, <2>3 DEF Placed, Bridged, Extended, Patched
<1>8. ASSUME NEW n \in Managed, UploadFile(n) PROVE Placed'
  <2>1. UNCHANGED <<extras, libs, dropin, bridge, preloaded, action, comps, chosen, left>>
        /\ pc = "upload" /\ pc' = "upload" /\ todo' = todo \ {n}
        /\ conf' = [conf EXCEPT ![n] = Repo[n]]
    BY <1>8 DEF UploadFile
  <2>2. conf'[n] = Repo[n] /\ \A m \in Names \ {n} : conf'[m] = conf[m]
    BY <2>1, PlanAssumption DEF TypeOK
  <2>3. Targets(chosen) \subseteq Names /\ MaterialCfg \in Names \ {n}
    BY PlanAssumption, DeployAssumption DEF Targets, Helped
  <2>4. Configured => Configured'
    BY <2>1, <2>2, <2>3 DEF Configured
  <2>5. Extended => Extended'
    BY <2>1, <2>2, <2>3 DEF Extended
  <2> QED BY <2>1, <2>4, <2>5 DEF Placed, Bridged, Patched
<1>9. CASE Uploaded
  <2>1. /\ UNCHANGED <<printer, action, comps, chosen>> /\ todo = {} /\ pc = "upload" /\ pc' = "next"
        /\ left' = left \ {"config"}
    BY <1>9 DEF Uploaded, Done, Position
  <2>2. Configured => Configured'
    BY <2>1 DEF Configured, printer, disk
  <2> QED BY <2>1, <2>2 DEF Placed, Bridged, Extended, Patched, printer, disk
<1>10. ASSUME NEW i \in DOMAIN PARTS, AddPart(i) PROVE Placed'
  <2>1. UNCHANGED <<conf, extras, libs, dropin, preloaded, action, comps, chosen, left>>
        /\ bridge' = bridge \cup {PARTS[i]} /\ pc = PARTS[i] /\ pc' = PARTS[i + 1]
    BY <1>10 DEF AddPart
  <2>2. \/ PARTS[i] = "payload" /\ PARTS[i + 1] = "include"
        \/ PARTS[i] = "include" /\ PARTS[i + 1] = "unit"
        \/ PARTS[i] = "unit" /\ PARTS[i + 1] = "webcam"
    BY <1>10 DEF PARTS, AddPart
  <2>3. Bridged => Bridged'
    BY <2>1, <2>2 DEF Bridged
  <2> QED BY <2>1, <2>2, <2>3 DEF Placed, Configured, Extended, Patched
<1>11. CASE AddWebcam
  <2>1. UNCHANGED <<conf, extras, libs, dropin, preloaded, action, comps, chosen>>
        /\ bridge \subseteq bridge' /\ pc = "webcam" /\ pc' = "next"
        /\ left' = left \ {"touchscreen"}
    BY <1>11 DEF AddWebcam, Done, Position
  <2>2. Bridged => Bridged'
    BY <2>1 DEF Bridged
  <2> QED BY <2>1, <2>2 DEF Placed, Configured, Extended, Patched
<1>12. CASE \/ RemoveWebcam \/ RemovePayload \/ RemoveExtra \/ RemoveCfg
            \/ (\E i \in DOMAIN PARTS : RemovePart(i) \/ RemovalIgnored(i)) \/ \E lib \in Libs : Unbuild(lib)
  <2>1. action' = "uninstall"
    BY <1>12 DEF RemoveWebcam, RemovePayload, RemoveExtra, RemoveCfg, RemovePart,
       RemovalIgnored, Unbuild, Done
  <2> QED BY <2>1 DEF Placed
<1>21. CASE OpenExtra
  <2>1. UNCHANGED <<conf, libs, dropin, bridge, preloaded, action, comps, chosen, left>>
        /\ pc = "extra" /\ pc' = "fill"
    BY <1>21 DEF OpenExtra
  <2>2. "material" \in left
    BY <2>1 DEF Position
  <2> QED BY <2>1, <2>2 DEF Placed, Configured, Bridged, Extended, Patched
<1>22. CASE OpenCfg
  <2>1. UNCHANGED <<extras, libs, dropin, bridge, preloaded, action, comps, chosen, left>>
        /\ pc = "cfg" /\ pc' = "fillcfg"
        /\ conf' = [conf EXCEPT ![MaterialCfg] = Cut]
    BY <1>22 DEF OpenCfg
  <2>2. "material" \in left
    BY <2>1 DEF Position
  <2>3. \A m \in Names \ {MaterialCfg} : conf'[m] = conf[m]
    BY <2>1 DEF TypeOK
  <2>4. Targets(chosen) \subseteq Names \ {MaterialCfg}
    BY PlanAssumption, DeployAssumption DEF Targets, Helped
  <2>5. Configured => Configured'
    BY <2>1, <2>3, <2>4 DEF Configured
  <2> QED BY <2>1, <2>2, <2>5 DEF Placed, Bridged, Extended, Patched
<1>13. CASE PutExtra
  <2>1. UNCHANGED <<conf, libs, dropin, bridge, preloaded, action, comps, chosen, left>>
        /\ extras \subseteq extras' /\ pc' = "cfg"
    BY <1>13 DEF PutExtra
  <2> QED BY <2>1 DEF Placed, Configured, Bridged, Extended, Patched
<1>14. CASE PutCfg
  <2>1. UNCHANGED <<extras, libs, dropin, bridge, preloaded, action, comps, chosen>>
        /\ pc = "fillcfg" /\ pc' = "next" /\ left' = left \ {"material"} /\ action = "install"
        /\ conf' = [conf EXCEPT ![MaterialCfg] = MaterialText]
    BY <1>14 DEF PutCfg, Done, Position, Helped
  <2>2. conf'[MaterialCfg] = MaterialText /\ \A m \in Names \ {MaterialCfg} : conf'[m] = conf[m]
    BY <2>1, DeployAssumption DEF TypeOK
  <2>3. Targets(chosen) \subseteq Names \ {MaterialCfg}
    BY PlanAssumption, DeployAssumption DEF Targets, Helped
  <2>4. Configured => Configured'
    BY <2>1, <2>2, <2>3 DEF Configured
  <2>5. Extended'
    BY <2>1, <2>2 DEF Extended, Helped
  <2> QED BY <2>1, <2>4, <2>5 DEF Placed, Bridged, Patched
<1>15. ASSUME NEW lib \in Libs, Build(lib) PROVE Placed'
  <2>1. UNCHANGED <<conf, extras, dropin, bridge, preloaded, action, comps, chosen, left>>
        /\ lib \notin libs /\ pc = "build" /\ pc' = "build"
    BY <1>15 DEF Build
  <2>2. Patched => Patched'
    BY <1>15, <2>1 DEF Patched
  <2> QED BY <2>1, <2>2 DEF Placed, Configured, Bridged, Extended
<1>16. CASE Dropin
  <2>1. UNCHANGED <<conf, extras, libs, bridge, preloaded, action, comps, chosen, left>>
        /\ pc' = "service" /\ dropin' = libs /\ libs = (IF action = "install" THEN Libs ELSE {})
    BY <1>16 DEF Dropin
  <2> QED BY <2>1 DEF Placed, Configured, Bridged, Extended, Patched
<1>17. CASE Service
  <2>1. UNCHANGED <<conf, extras, libs, dropin, bridge, action, comps, chosen, left>>
        /\ pc = "service" /\ pc' = "active" /\ preloaded' = dropin \cap libs
    BY <1>17 DEF Service
  <2> QED BY <2>1 DEF Placed, Configured, Bridged, Extended, Patched
<1>18. CASE ServiceRuns
  <2>1. UNCHANGED <<printer, action, comps, chosen>> /\ pc = "active" /\ pc' = "next"
        /\ left' = left \ {"preload"}
    BY <1>18 DEF ServiceRuns, Done, Position
  <2> QED BY <2>1 DEF Placed, Configured, Bridged, Extended, Patched, printer, disk
<1>19. CASE PrintStep \/ UNCHANGED vars
  BY <1>19, PlacedQuietly DEF PrintStep, vars
<1>20. CASE Reboot
  <2>1. UNCHANGED <<conf, extras, libs, dropin, bridge, action, comps, chosen, left, todo, pc>>
        /\ preloaded' = dropin \cap libs
    BY <1>20 DEF Reboot
  <2> QED BY <2>1 DEF Placed, Configured, Bridged, Extended, Patched
<1> QED
  BY <1>1, <1>2, <1>3, <1>4, <1>5, <1>6, <1>7, <1>8, <1>9, <1>10, <1>11, <1>12, <1>13,
     <1>14, <1>15, <1>16, <1>17, <1>18, <1>19, <1>20, <1>21, <1>22 DEF Next, Deploy, Install

LEMMA PlacedAlways == "silent" \notin Faults /\ Spec => [](Planned /\ Position /\ Placed)
<1> SUFFICES ASSUME "silent" \notin Faults PROVE Spec => [](Planned /\ Position /\ Placed)
  OBVIOUS
<1>1. Init => Planned /\ Position /\ Placed
  BY DEF Init, Planned, Position, Placed, Configured, Bridged, Extended, Patched
<1>2. /\ TypeOK /\ Owned /\ Helped /\ Planned /\ Position /\ Placed /\ [Next]_vars
      => Planned' /\ Position' /\ Placed'
  BY PlannedStep, PositionStep, PlacedStep
<1> QED BY <1>1, <1>2, TypeCorrect, OwnedAlways, PTL DEF Spec

\* A planned configuration that is all there can be loaded.
LEMMA PlannedLoads ==
  ASSUME TypeOK, Owned, Helped, "wm_material" \notin half, Fits(Leaves(conf, chosen)),
         \A n \in Targets(chosen) : conf[n] = Repo[n]
  PROVE  Loads
<1>1. Leaves(conf, chosen) = conf
  BY DEF Leaves, TypeOK
<1>2. Resolves(conf, Root) /\ Active(conf) \cap Vendor \subseteq extras
  BY <1>1 DEF Fits
<1>3. Active(conf) \cap Own \subseteq extras
  BY DEF Owned, Active, Visited, Own
<1>4. Active(conf) \subseteq Extras
  BY ActiveIsExtras DEF TypeOK
<1> QED BY <1>2, <1>3, <1>4, OwnAssumption DEF Loads

\* SuccessIsComplete holds of every step, for any components, files, faults that
\* are noticed, prints and power cuts: status 0 of an installation means that
\* all components are in place and Klipper runs with what it was given.
THEOREM SuccessCorrect == "silent" \notin Faults /\ Spec => SuccessIsComplete
<1> SUFFICES ASSUME "silent" \notin Faults PROVE Spec => SuccessIsComplete
  OBVIOUS
<1> DEFINE Complete ==
       /\ "config" \in comps =>
            ("wm_material" \in half \/ Loads) /\ \A n \in Targets(chosen) : conf[n] = Repo[n]
       /\ "touchscreen" \in comps => {"payload", "include", "unit"} \subseteq bridge
       /\ "material" \in comps => "wm_material" \in extras /\ conf[MaterialCfg] = MaterialText
       /\ "preload" \in comps => preloaded = Libs
       /\ comps \cap ForKlipper # {} /\ ~quiet =>
            klipper = "ready" /\ ~stale /\ running = Active(conf)
<1>1. ASSUME TypeOK, Checked, Owned, Helped, Planned, Position, Placed, [Next]_vars,
             pc # "idle", pc' = "idle", rc' = 0, action = "install", ~ only
      PROVE  Complete
  <2>1. (AllDone \/ Ready) /\ pc \in {"next", "wait"}
    <3> USE DEF Keeps, To
    <3>1. CASE Deploy
      <4>1. ASSUME NEW c \in Components PROVE ~ Begin(c)
        <5>1. Enter(c) # "idle"
          BY DEF Enter, Components, ORDER
        <5> QED BY <1>1, <5>1 DEF Begin
      <4>2. \A c \in Components : ~ PreflightPasses(c) /\ ~ PreflightFails(c)
        BY <1>1 DEF PreflightPasses, PreflightFails
      <4>3. \A r \in Commands : ~ Command(r)
        BY <1>1 DEF Command
      <4>4. ~ FirstCheck /\ ~ Fit /\ ~ FitsOnly /\ ~ FinalCheck /\ ~ Restart /\ ~ NoUninstall
        BY <1>1 DEF FirstCheck, Fit, FitsOnly, FinalCheck, Restart, NoUninstall
      <4>5. ~ FirstBlocked /\ ~ Unfit /\ ~ BeginBlocked /\ ~ Stops /\ ~ FinalBlocked /\ ~ NotReady
        BY <1>1 DEF FirstBlocked, Unfit, BeginBlocked, Stops, FinalBlocked, NotReady, Ends
      <4>6. AllDone \/ Ready
        BY <3>1, <4>1, <4>2, <4>3, <4>4, <4>5 DEF Deploy
      <4> QED BY <4>6 DEF AllDone, Ready
    <3>2. CASE Install
      <4>1. \A i \in DOMAIN PARTS : ~ AddPart(i) /\ ~ RemovePart(i) /\ ~ RemovalIgnored(i)
        BY <1>1 DEF PARTS, AddPart, RemovePart, RemovalIgnored
      <4> QED BY <1>1, <3>2, <4>1 DEF Install, Helper, UploadFile, OpenExtra, PutExtra, RemoveExtra, OpenCfg, PutCfg,
         RemoveCfg, Diff, DiffRefuses, Uploaded, AddWebcam, RemoveWebcam, RemovePayload,
         ScriptFails, Build, Unbuild, BuildFails, Dropin, Service, ServiceRuns, ServiceFails,
         Refused, Ends, Done
    <3>3. CASE PrintStep \/ Reboot \/ UNCHANGED vars
      BY <1>1, <3>3 DEF PrintStep, Reboot, command, vars
    <3> QED BY <1>1, <3>1, <3>2, <3>3 DEF Next
  <2>2. left = {}
    BY <1>1, <2>1 DEF AllDone, Ready, Position
  <2>3. Configured /\ Bridged /\ Extended /\ Patched
    BY <1>1 DEF Placed
  <2>4. "config" \in comps => /\ \A n \in Targets(chosen) : conf[n] = Repo[n]
                              /\ Fits(Leaves(conf, chosen))
    BY <1>1, <2>1, <2>2, <2>3 DEF Configured, Planned, Checked
  <2>5. "config" \in comps => "wm_material" \in half \/ Loads
    BY <1>1, <2>4, PlannedLoads
  <2>6. comps \cap ForKlipper # {} /\ ~quiet => klipper = "ready" /\ ~stale /\ running = Active(conf)
    BY <1>1, <2>1, <2>2 DEF AllDone, Ready, Position
  <2>7. /\ "touchscreen" \in comps => {"payload", "include", "unit"} \subseteq bridge
        /\ "material" \in comps => "wm_material" \in extras /\ conf[MaterialCfg] = MaterialText
        /\ "preload" \in comps => preloaded = Libs
    BY <2>2, <2>3 DEF Bridged, Extended, Patched
  <2> QED BY <2>4, <2>5, <2>6, <2>7
<1>2. /\ TypeOK /\ Checked /\ Owned /\ Helped /\ Planned /\ Position /\ Placed /\ [Next]_vars
      => (pc # "idle" /\ pc' = "idle" /\ rc' = 0 /\ action = "install" /\ ~only => Complete)
  BY <1>1
<1> QED BY <1>2, TypeCorrect, OrderKept, OwnedAlways, PlacedAlways, PTL DEF Spec, SuccessIsComplete

---------------------------------------------------------------------------
(* The review of a vendor's changes *)

\* A set with two elements is no singleton.
LEMMA TwoElements ==
  ASSUME NEW S, IsFiniteSet(S), NEW a \in S, NEW b \in S, a # b
  PROVE  Cardinality(S) > 1
<1>1. Cardinality(S) \in Nat
  BY FS_CardinalityType
<1>2. Cardinality(S) # 0
  BY FS_EmptySet
<1>3. Cardinality(S) # 1
  BY FS_Singleton
<1> QED BY <1>1, <1>2, <1>3

\* Without a conflict a region is the vendor's if the site left it alone, and
\* the site's if the vendor did, or both did the same.
LEMMA MergeSettles ==
  ASSUME NEW l, NEW o, NEW n, Conflicts(MergedText(l, o, n)) = {}, NEW r \in Regions
  PROVE  /\ MergedText(l, o, n)[r] \in {{n[r]}, {l[r]}}
         /\ n[r] # o[r] => MergedText(l, o, n)[r] = {n[r]}
         /\ l[r] # o[r] => MergedText(l, o, n)[r] = {l[r]}
<1>1. MergedText(l, o, n)[r] = Settled(l[r], o[r], n[r])
  BY DEF MergedText
<1>2. l[r] = o[r] \/ n[r] \in {o[r], l[r]}
  <2> SUFFICES ASSUME l[r] # o[r], n[r] \notin {o[r], l[r]} PROVE FALSE
    OBVIOUS
  <2> DEFINE three == {l[r], o[r], n[r]}
  <2>1. MergedText(l, o, n)[r] = three
    BY <1>1 DEF Settled
  <2>2. IsFiniteSet({l[r]} \cup {o[r]})
    BY FS_Singleton, FS_AddElement
  <2>3. IsFiniteSet(three)
    <3>1. IsFiniteSet(({l[r]} \cup {o[r]}) \cup {n[r]})
      BY <2>2, FS_AddElement
    <3>2. three = ({l[r]} \cup {o[r]}) \cup {n[r]}
      OBVIOUS
    <3> QED BY <3>1, <3>2
  <2>4. Cardinality(three) > 1
    BY <2>3, TwoElements
  <2> QED BY <2>1, <2>4 DEF Conflicts
<1> QED BY <1>1, <1>2 DEF Settled

\* Merging keeps the site's piece, but for an unchanged vendor piece.
LEMMA MergeKeeps ==
  ASSUME NEW l, NEW o, NEW n, NEW r \in Regions
  PROVE  l[r] \in MergedText(l, o, n)[r] \/ l[r] = o[r]
BY DEF MergedText, Settled

\* A live file has a candidate, and the marks of one merged without a warning.
LEMMA LiveIsKept ==
  ASSUME NEW l \in ConfigTexts, NEW o \in ConfigTexts \cup {Missing},
         NEW n \in ConfigTexts \cup {Missing}
  PROVE  /\ Candidate(l, o, n) # Missing
         /\ \A r \in Regions : l[r] \in Candidate(l, o, n)[r] \/ (o # Missing /\ l[r] = o[r])
         /\ ~ Decision(l, o, n) =>
              \A m \in Marked : MergedMarks(Candidate(l, o, n), m) >= Marks(l, m)
<1>1. l # Missing
  BY BaseAssumption
<1>2. \A text \in ConfigTexts, r \in Regions : text[r] \in Pieces
  BY DEF Pieces
<1>3. \A text, m : MergedMarks(text, m) \in Nat /\ Marks(l, m) \in Nat
  <2> SUFFICES ASSUME NEW text, NEW m PROVE MergedMarks(text, m) \in Nat /\ Marks(l, m) \in Nat
    OBVIOUS
  <2>1. IsFiniteSet({r \in Regions : m \in text[r]}) /\ IsFiniteSet({r \in Regions : l[r] = m})
    BY FS_Subset, BaseAssumption
  <2> QED BY <2>1, FS_CardinalityType DEF MergedMarks, Marks
<1>4. CASE Missing \in {o, n}
  <2>1. Candidate(l, o, n) = Alone(l)
    BY <1>1, <1>4 DEF Candidate
  <2>2. \A r \in Regions : Alone(l)[r] = {l[r]} /\ {l[r]} \in SUBSET Pieces
    BY <1>2 DEF Alone
  <2>3. Alone(l) \in [Regions -> SUBSET Pieces]
    BY <2>2 DEF Alone
  <2>4. \A m : {r \in Regions : m \in Alone(l)[r]} = {r \in Regions : l[r] = m}
    BY <2>2
  <2>5. \A m : MergedMarks(Alone(l), m) = Marks(l, m)
    BY <2>4 DEF MergedMarks, Marks
  <2>6. \A m : MergedMarks(Alone(l), m) >= Marks(l, m)
    BY <1>3, <2>5
  <2> QED BY <2>1, <2>2, <2>3, <2>6, BaseAssumption
<1>5. CASE Missing \notin {o, n}
  <2>1. Candidate(l, o, n) = MergedText(l, o, n)
    BY <1>1, <1>5 DEF Candidate
  <2>2. \A r \in Regions : Settled(l[r], o[r], n[r]) \in SUBSET Pieces
    BY <1>2, <1>5 DEF Settled
  <2>3. MergedText(l, o, n) \in [Regions -> SUBSET Pieces]
    BY <2>2 DEF MergedText
  <2>4. ASSUME ~ Decision(l, o, n), NEW m \in Marked
        PROVE  MergedMarks(MergedText(l, o, n), m) >= Marks(l, m)
    <3>1. ~ (MergedMarks(MergedText(l, o, n), m) < Marks(l, m))
      BY <1>1, <1>5, <2>4 DEF Decision, Dropped
    <3> QED BY <1>3, <3>1
  <2> QED BY <1>5, <2>1, <2>3, <2>4, MergeKeeps, BaseAssumption
<1> QED BY <1>4, <1>5

\* Status 0 and a publication are reached through the merge of all files, and
\* status 2 of a decision that is printed only before the publication.
ReviewInv ==
  /\ old \in Directories /\ new \in Directories /\ live \in Directories
  /\ stage \in {"off", "read", "publish", "report", "ended"} /\ exit \in {-1, 0, 1, 2}
  /\ stage # "ended" => exit = -1
  /\ stage \in {"off", "read", "publish"} => published = Missing
  /\ stage \in {"publish", "report"} \/ exit \in {0, 1} => Mergeable
  /\ published # Missing => Mergeable /\ published = Plan
  /\ exit = 0 => ~ Undecided
  /\ exit = 2 => published = Missing

LEMMA ReviewStep ==
  ASSUME PrintFails = FALSE, ReviewInv, [UpdateNext]_updateVars
  PROVE  ReviewInv'
<1> USE DEF inputs
<1>1. CASE Invoke
  <2>1. old' \in Directories /\ new' \in Directories /\ live' \in Directories
    BY <1>1 DEF Invoke
  <2>2. stage = "off" /\ stage' = "read" /\ UNCHANGED <<published, exit>>
    BY <1>1 DEF Invoke
  <2> QED BY <2>1, <2>2 DEF ReviewInv
<1>2. CASE ~ Invoke /\ ~ UNCHANGED updateVars
  <2>1. UNCHANGED <<old, new, live>>
    BY <1>2 DEF UpdateNext, Refuse, Prepare, Fail, Publish, Report, ReportFails
  <2>2. (Mergeable' <=> Mergeable) /\ Plan' = Plan /\ (Undecided' <=> Undecided)
    BY <2>1 DEF Mergeable, Plan, Undecided
  <2> SUFFICES
        /\ stage' \in {"off", "read", "publish", "report", "ended"} /\ exit' \in {-1, 0, 1, 2}
        /\ stage' # "ended" => exit' = -1
        /\ stage' \in {"off", "read", "publish"} => published' = Missing
        /\ stage' \in {"publish", "report"} \/ exit' \in {0, 1} => Mergeable
        /\ published' # Missing => Mergeable /\ published' = Plan
        /\ exit' = 0 => ~ Undecided
        /\ exit' = 2 => published' = Missing
    BY <2>1, <2>2 DEF ReviewInv
  <2> HIDE DEF Mergeable, Plan, Undecided
  <2>3. CASE Refuse BY <2>3 DEF Refuse, Exit, ReviewInv
  <2>4. CASE Prepare BY <2>4 DEF Prepare, ReviewInv
  <2>5. CASE Fail BY <2>5 DEF Fail, Exit, ReviewInv
  <2>6. CASE Publish BY <2>6 DEF Publish, ReviewInv
  <2>7. CASE Report BY <2>7 DEF Report, Exit, ReviewInv
  <2>8. CASE ReportFails BY <2>8 DEF ReportFails
  <2> QED BY <1>2, <2>3, <2>4, <2>5, <2>6, <2>7, <2>8 DEF UpdateNext
<1>3. CASE UNCHANGED updateVars
  BY <1>3 DEF updateVars, ReviewInv, Mergeable, Plan, Undecided
<1> QED BY <1>1, <1>2, <1>3

LEMMA ReviewAlways == PrintFails = FALSE /\ UpdateSpec => []ReviewInv
<1> SUFFICES ASSUME PrintFails = FALSE PROVE UpdateSpec => []ReviewInv
  OBVIOUS
<1>1. UpdateInit => ReviewInv
  BY DEF UpdateInit, ReviewInv, Nothing, Directories
<1>2. ReviewInv /\ [UpdateNext]_updateVars => ReviewInv'
  BY ReviewStep
<1> QED BY <1>1, <1>2, PTL DEF UpdateSpec

\* What a directory has of a name, once the tool merges it.
LEMMA MergeableTexts ==
  ASSUME ReviewInv, Mergeable, NEW n \in ConfigFiles
  PROVE  /\ old[n] \in ConfigTexts \cup {Missing} /\ new[n] \in ConfigTexts \cup {Missing}
         /\ live[n] \in ConfigTexts \cup {Missing}
BY DEF ReviewInv, Mergeable, Directories

\* NothingLost always holds, so long as decisions can be printed: what is
\* published has every live file with the site's changes and marks, and a
\* review that fails publishes nothing.
THEOREM ReviewKeeps == PrintFails = FALSE /\ UpdateSpec => []NothingLost
<1>1. ASSUME ReviewInv PROVE NothingLost
  <2>1. ASSUME published # Missing, NEW n \in ConfigFiles, live[n] # Missing
        PROVE  /\ published[n] # Missing
               /\ \A r \in Regions :
                    live[n][r] \in published[n][r] \/ (old[n] # Missing /\ live[n][r] = old[n][r])
               /\ exit = 0 => \A m \in Marked : MergedMarks(published[n], m) >= Marks(live[n], m)
    <3>1. Mergeable /\ published = Plan
      BY <1>1, <2>1 DEF ReviewInv
    <3>2. published[n] = Candidate(live[n], old[n], new[n])
      BY <3>1 DEF Plan
    <3>3. /\ live[n] \in ConfigTexts /\ old[n] \in ConfigTexts \cup {Missing}
          /\ new[n] \in ConfigTexts \cup {Missing}
      BY <1>1, <2>1, <3>1, MergeableTexts
    <3>4. exit = 0 => ~ Decision(live[n], old[n], new[n])
      BY <1>1 DEF ReviewInv, Undecided
    <3> QED BY <3>2, <3>3, <3>4, LiveIsKept
  <2>2. exit = 2 => published = Missing
    BY <1>1 DEF ReviewInv
  <2> QED BY <2>1, <2>2 DEF NothingLost
<1> QED BY <1>1, ReviewAlways, PTL

\* CleanIsComplete always holds: status 0 means that all that the vendor and
\* all that the site changed is in the candidate.
THEOREM ReviewComplete == PrintFails = FALSE /\ UpdateSpec => []CleanIsComplete
<1>1. ASSUME ReviewInv PROVE CleanIsComplete
  <2> SUFFICES ASSUME exit = 0, NEW n \in ConfigFiles
      PROVE  /\ live[n] = Missing => new[n] = Missing
             /\ live[n] # Missing => \A r \in Regions :
                  /\ new[n] # Missing /\ (old[n] = Missing \/ new[n][r] # old[n][r])
                       => Plan[n][r] = {new[n][r]}
                  /\ old[n] = Missing \/ live[n][r] # old[n][r] => Plan[n][r] = {live[n][r]}
    BY DEF CleanIsComplete
  <2>1. ~ Decision(live[n], old[n], new[n])
    BY <1>1 DEF ReviewInv, Undecided
  <2>2. live[n] = Missing => new[n] = Missing
    BY <2>1 DEF Decision
  <2>3. Plan[n] = Candidate(live[n], old[n], new[n])
    BY DEF Plan
  <2>4. CASE live[n] # Missing /\ old[n] = Missing
    <3>1. new[n] \in {Missing, live[n]}
      BY <2>1, <2>4 DEF Decision
    <3>2. Plan[n] = Alone(live[n])
      BY <2>3, <2>4 DEF Candidate
    <3>3. \A r \in Regions : Plan[n][r] = {live[n][r]}
      BY <3>2 DEF Alone
    <3> QED BY <2>2, <2>4, <3>1, <3>3
  <2>5. CASE live[n] # Missing /\ old[n] # Missing
    <3>1. new[n] # Missing
      BY <2>1, <2>5 DEF Decision
    <3>2. Plan[n] = MergedText(live[n], old[n], new[n])
      BY <2>3, <2>5, <3>1 DEF Candidate
    <3>3. Conflicts(MergedText(live[n], old[n], new[n])) = {}
      BY <2>1, <2>5, <3>1 DEF Decision
    <3> QED BY <2>2, <2>5, <3>2, <3>3, MergeSettles
  <2> QED BY <2>2, <2>4, <2>5
<1> QED BY <1>1, ReviewAlways, PTL
=============================================================================
