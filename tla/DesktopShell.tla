---------------------------- MODULE DesktopShell ----------------------------
(* electron/main.js: the desktop application around the server.  boot()      *)
(* opens the window, starts a backend process unless one is held, and waits  *)
(* for its /health; on macOS the application outlives its window and boots   *)
(* again when it is activated.                                               *)
(*                                                                           *)
(* A definition directly above another one with the same parameters is a     *)
(* mutant of it (PROJECT.json, mutants).                                     *)
EXTENDS Integers, FiniteSets

CONSTANTS
  MaxBoots   \* bound on the calls of boot()

ASSUME ShellAssumption == MaxBoots \in Nat \ {0}

Boots == 1..MaxBoots

VARIABLES
  darwin,    \* process.platform === 'darwin'
  boot,      \* call of boot() -> where it is: "none", "port", "health", "done"
  proc,      \* call of boot() -> the backend it has spawned
  held,      \* backendProc, by its call; 0 for null
  port,      \* backendPort, by its call; 0 for null
  window,    \* mainWindow: "none", or what it shows
  shuttingDown,
  app,       \* "running", "quitting", "exited"
  alarm,     \* history: an error box has been shown
  failed,    \* history: a backend has failed or was late
  hasty      \* history: the window was closed while a port was being picked

shellVars == <<darwin, boot, proc, held, port, window, shuttingDown, app, alarm, failed, hasty>>

Up == {"starting", "healthy"}

ShellInit ==
  /\ darwin \in BOOLEAN
  /\ boot = [b \in Boots |-> "none"]
  /\ proc = [b \in Boots |-> "none"]
  /\ held = 0 /\ port = 0
  /\ window = "none"
  /\ shuttingDown = FALSE
  /\ app = "running"
  /\ alarm = FALSE /\ failed = FALSE /\ hasty = FALSE

-----------------------------------------------------------------------------
(* Windows and boot().                                                       *)

Loaded(p) == IF p # 0 /\ proc[p] = "healthy" THEN "app" ELSE "broken"

StartsBackendAlways == TRUE
StartsBackend == held = 0

\* The first call, or 'activate' without a window.
StartBoot(b) ==
  /\ app = "running" /\ window = "none"
  /\ boot[b] = "none" /\ \A c \in Boots : c < b => boot[c] # "none"
  /\ b > 1 => darwin
  /\ IF StartsBackend
     THEN boot' = [boot EXCEPT ![b] = "port"] /\ window' = "splash"
     ELSE boot' = [boot EXCEPT ![b] = "done"] /\ window' = Loaded(port)
  /\ UNCHANGED <<darwin, proc, held, port, shuttingDown, app, alarm, failed, hasty>>

PickFreePort(b) ==
  /\ app # "exited" /\ boot[b] = "port"
  /\ port' = b /\ held' = b
  /\ proc' = [proc EXCEPT ![b] = "starting"]
  /\ boot' = [boot EXCEPT ![b] = "health"]
  /\ UNCHANGED <<darwin, window, shuttingDown, app, alarm, failed, hasty>>

\* Without a window the user has closed it during the boot.  The URL is that of
\* backendPort, whichever port this call has waited for.
ReloadsOnlyOwn(w, p) == IF w = "splash" THEN Loaded(p) ELSE w
Reloads(w, p) == IF w = "none" THEN w ELSE Loaded(p)

Healthy(b) ==
  /\ app # "exited" /\ boot[b] = "health" /\ proc[b] = "healthy"
  /\ boot' = [boot EXCEPT ![b] = "done"]
  /\ window' = Reloads(window, port)
  /\ UNCHANGED <<darwin, proc, held, port, shuttingDown, app, alarm, failed, hasty>>

\* stopBackend.
StopBackend ==
  IF held = 0 THEN UNCHANGED <<held, proc, shuttingDown>>
  ELSE /\ shuttingDown' = TRUE
       /\ proc' = [proc EXCEPT ![held] = IF @ \in Up THEN "stopping" ELSE @]
       /\ held' = 0

\* app.quit(): 'before-quit', and the windows close.
Quit ==
  /\ app' = "quitting" /\ window' = "none"
  /\ StopBackend

\* The backend has not become healthy in time.
HealthTimeout(b) ==
  /\ app = "running" /\ boot[b] = "health"
  /\ boot' = [boot EXCEPT ![b] = "done"]
  /\ failed' = TRUE
  /\ IF window = "none"
     THEN UNCHANGED <<app, window, held, proc, shuttingDown, alarm>>
     ELSE Quit /\ alarm' = TRUE
  /\ UNCHANGED <<darwin, port, hasty>>

CloseWindow ==
  /\ app = "running" /\ window # "none"
  /\ hasty' = (hasty \/ \E b \in Boots : boot[b] = "port")
  /\ IF darwin
     THEN window' = "none" /\ UNCHANGED <<app, held, proc, shuttingDown>>
     ELSE Quit
  /\ UNCHANGED <<darwin, boot, port, alarm, failed>>

UserQuits ==
  /\ app = "running" /\ \E b \in Boots : boot[b] # "none"
  /\ Quit
  /\ UNCHANGED <<darwin, boot, port, alarm, failed, hasty>>

\* 'will-quit'; then the process and its timers are gone.
ShellExits ==
  /\ app = "quitting"
  /\ StopBackend
  /\ app' = "exited"
  /\ UNCHANGED <<darwin, boot, port, window, alarm, failed, hasty>>

-----------------------------------------------------------------------------
(* The backend processes.                                                    *)

BecomesHealthy(b) ==
  /\ proc[b] = "starting"
  /\ proc' = [proc EXCEPT ![b] = "healthy"]
  /\ UNCHANGED <<darwin, boot, held, port, window, shuttingDown, app, alarm, failed, hasty>>

\* The 'exit' and 'error' handlers; backendProc keeps the dead process.
Ends(b) ==
  /\ proc[b] \in Up \cup {"stopping"} /\ app # "exited"
  /\ failed' = (failed \/ proc[b] \in Up)
  /\ IF shuttingDown
     THEN proc' = [proc EXCEPT ![b] = "dead"] /\ UNCHANGED <<app, window, held, shuttingDown, alarm>>
     ELSE /\ alarm' = TRUE
          /\ app' = "quitting" /\ window' = "none"
          /\ shuttingDown' = (held # 0) /\ held' = 0
          /\ proc' = [p \in Boots |-> IF p = b THEN "dead"
                                      ELSE IF p = held /\ proc[p] \in Up THEN "stopping"
                                      ELSE proc[p]]
  /\ UNCHANGED <<darwin, boot, port, hasty>>

\* After SIGTERM, also when the application is gone.
StopsAlone(b) ==
  /\ proc[b] = "stopping" /\ app = "exited"
  /\ proc' = [proc EXCEPT ![b] = "dead"]
  /\ UNCHANGED <<darwin, boot, held, port, window, shuttingDown, app, alarm, failed, hasty>>

ShellNext ==
  \/ \E b \in Boots :
       StartBoot(b) \/ PickFreePort(b) \/ Healthy(b) \/ HealthTimeout(b)
         \/ BecomesHealthy(b) \/ Ends(b) \/ StopsAlone(b)
  \/ CloseWindow \/ UserQuits \/ ShellExits

ShellSpec == ShellInit /\ [][ShellNext]_shellVars

-----------------------------------------------------------------------------
(* Properties.                                                               *)

ShellTypeOK ==
  /\ boot \in [Boots -> {"none", "port", "health", "done"}]
  /\ proc \in [Boots -> {"none", "starting", "healthy", "stopping", "dead"}]
  /\ held \in 0..MaxBoots /\ port \in 0..MaxBoots
  /\ window \in {"none", "splash", "broken", "app"}
  /\ shuttingDown \in BOOLEAN
  /\ app \in {"running", "quitting", "exited"}
  /\ {darwin, alarm, failed, hasty} \subseteq BOOLEAN

\* Activating the application again does not start a second backend, unless its
\* window was closed while the first boot had not yet got a port.
OneBackend == hasty \/ Cardinality({b \in Boots : proc[b] \in Up}) <= 1

\* Once no boot is under way any more, an open window shows the application
\* when its backend is up, also when it was opened before the backend was ready
\* (unless the backend took longer than a boot waits).
ReadyIsShown ==
  /\ app = "running" /\ window # "none" /\ ~failed
  /\ \A b \in Boots : boot[b] \in {"none", "done"}
  /\ port # 0 /\ proc[port] = "healthy"
  => window = "app"

\* Quitting never ends in an error box about the backend it stops.
NoAlarmOnQuit == alarm => failed

\* A backend outlives the application only when it has been told to stop,
\* however the quit falls into the boot; with the same exception, as one of two
\* backends is held by nobody.
QuitStopsBackend == app = "exited" => hasty \/ \A b \in Boots : proc[b] \notin Up

\* The application has one backend, stops it and says so only if it has failed:
\* the three above, and the types.
BackendIsOwned == ShellTypeOK /\ OneBackend /\ QuitStopsBackend /\ NoAlarmOnQuit
=============================================================================
