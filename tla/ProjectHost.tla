----------------------------- MODULE ProjectHost -----------------------------
(* The host of a project (transport_server/src/project_host.rs and the       *)
(* project routes of ui_server.rs, with the life cycle of core/src/app.rs):  *)
(* HTTP threads that create, load, upload and save projects, intents that    *)
(* edit the live engine and save the preferences, and a process that may     *)
(* stop between any two steps.  One engine is live behind a lock; a request  *)
(* builds its replacement outside the lock.                                  *)
(*                                                                           *)
(* A project is the number of its content, 0 for the template of a new one;  *)
(* the preferences are one chosen value and the sections of their tree.  A   *)
(* file is written by truncating it and then writing it, so a crash or a     *)
(* reader may find it cut off.                                               *)
EXTENDS Naturals, FiniteSets

CONSTANTS Callers,          \* the HTTP threads
          Paths,            \* the project files
          PrefValues,           \* what the preference may be set to
          Default,          \* its default
          NoPath,           \* no path
          MaxHostRequests,  \* bound: requests made
          MaxHostEdits,     \* bound: edits of the project or the preferences
          MaxCrashes        \* bound: crashes

Sections == {"startup", "saveLoad", "folder", "engine", "maxHz", "lowHz", "interface"}
\* What an older release, or an editor, left in the preferences file.
Trimmed == {"startup"}

Missing == [is |-> "missing"]
Blank == [is |-> "empty"]
Torn == [is |-> "torn"]
Whole(data) == [is |-> "whole", data |-> data]
CutOff == {Blank, Torn}

\* The content of an uploaded file.
Uploaded == MaxHostEdits + 1

ASSUME HostAssumption == {MaxHostRequests, MaxHostEdits, MaxCrashes} \subseteq Nat

Down == [id |-> 0]
Idle == [do |-> "idle"]

VARIABLES running,    \* the live engine, or Down
          engines,    \* engines made so far
          files,      \* the project files
          prefsFile,  \* the preferences file
          locked,     \* an intent holds the engine lock and writes the preferences
          path,       \* ProjectFileSession::current_path
          shown,      \* what the read model shows: an engine and a path
          req,        \* the requests
          asks, hostEdits, crashes,
          chosen,     \* ghost: the preference last set
          lost,       \* ghost: a choice was overtaken or cut off since
          adrift,     \* ghost: requests overlapped since one replaced the engine alone
          halfway,    \* ghost: the last replacement failed after the swap
          spoilt      \* ghost: files whose writing overlapped, was cut off or was never loaded

hostVars == <<running, engines, files, prefsFile, locked, path, shown, req, asks, hostEdits,
              crashes, chosen, lost, adrift, halfway, spoilt>>

---------------------------------------------------------------------------
(* The preferences: app.rs ensure_preferences_tree adds what is missing, but *)
(* nothing more once it had to add "Save and Load".                          *)

Completed(has) ==
    LET begun == has \cup {"startup", "saveLoad", "folder"}
    IN IF "saveLoad" \notin has THEN begun ELSE begun \cup Sections

\* load_preferences_into_engine: a missing or blank file stands for the defaults;
\* a file that does not parse is an error.
PrefsOf(file) == IF file.is = "whole" THEN [value |-> file.data.value, has |-> Completed(file.data.has),
                                            from |-> file.data.has]
                                      ELSE [value |-> Default, has |-> Sections, from |-> Sections]

Saved(e) == Whole([value |-> e.prefs.value, has |-> e.prefs.has])

Up == running # Down
Others(r) == {s \in Callers \ {r} : req[s] # Idle}
Step(r, step) == req[r] # Idle /\ req[r].step = step

Finished(r) == req' = [req EXCEPT ![r] = Idle]
Goes(r, step) == req' = [req EXCEPT ![r].step = step]

---------------------------------------------------------------------------
(* A request arrives.  New builds its engine first, an upload writes its     *)
(* file first, a load reads, a save waits for the lock.                      *)

AskFor(r, do, p, recover) ==
    /\ Up /\ req[r] = Idle /\ asks < MaxHostRequests
    /\ asks' = asks + 1
    /\ LET alone == Others(r) = {}
           begun == [do |-> do, path |-> p, recover |-> recover, alone |-> alone,
                     step |-> CASE do = "new" -> "prefs" [] do = "load" -> "read"
                                [] do = "upload" -> "cut" [] do = "save" -> "lock",
                     content |-> IF do = "upload" THEN Uploaded ELSE 0, ready |-> FALSE, stale |-> FALSE,
                     prefs |-> PrefsOf(Missing), engine |-> 0, sole |-> FALSE, seen |-> NoPath]
       IN /\ req' = [s \in Callers |-> IF s = r THEN begun
                                        ELSE IF req[s] = Idle THEN Idle ELSE [req[s] EXCEPT !.alone = FALSE]]
          /\ adrift' = (adrift \/ ~alone)
    /\ UNCHANGED <<running, engines, files, prefsFile, locked, path, shown, hostEdits, crashes, chosen, lost,
                   halfway, spoilt>>

(* load_project_with_options: the project file is read and rebuilt outside   *)
(* the lock.  A file that is missing, cut off, of another version or with     *)
(* records that cannot be decoded is an error, recovering or not.            *)
ReadProject(r) ==
    /\ Step(r, "read")
    /\ \/ /\ files[req[r].path].is = "whole"
          /\ req' = [req EXCEPT ![r].step = "prefs", ![r].content = files[req[r].path].data]
       \/ Finished(r)
    /\ UNCHANGED <<running, engines, files, prefsFile, locked, path, shown, asks, hostEdits, crashes, chosen,
                   lost, adrift, halfway, spoilt>>

(* create_new_project and load_project_with_options read the preferences     *)
(* file outside the lock.  Laying a file over the template applies the       *)
(* edits that wait, so a new project's nodes become ready here; the hooks of *)
(* the application may refuse the project.                                   *)
ReadPrefs(r) ==
    /\ Step(r, "prefs")
    /\ \/ /\ prefsFile # Torn
          /\ req' = [req EXCEPT ![r].step = "swap", ![r].prefs = PrefsOf(prefsFile),
                                ![r].stale = (prefsFile \in CutOff),
                                ![r].ready = (req[r].do = "new" /\ prefsFile.is = "whole")]
       \/ Finished(r)
    /\ UNCHANGED <<running, engines, files, prefsFile, locked, path, shown, asks, hostEdits, crashes, chosen,
                   lost, adrift, halfway, spoilt>>

Replacement(r) == [id |-> engines + 1, prefs |-> req[r].prefs, content |-> req[r].content,
                   base |-> req[r].content, origin |-> IF req[r].do = "new" THEN NoPath ELSE req[r].path]

(* replace_live_engine, under the lock: the nodes of the old engine are      *)
(* destroyed, the new engine takes its place and is prepared.  When that     *)
(* fails the new engine stays, but the request ends here.                    *)
Swap(r) ==
    /\ Step(r, "swap") /\ ~locked
    /\ running' = Replacement(r)
    /\ engines' = engines + 1
    /\ lost' = (lost \/ req[r].stale)
    /\ \/ /\ req' = [req EXCEPT ![r].step = "name", ![r].ready = FALSE]
          /\ halfway' = FALSE /\ UNCHANGED adrift
       \/ /\ ~req[r].recover
          /\ Finished(r)
          /\ halfway' = TRUE /\ adrift' = TRUE
    /\ UNCHANGED <<files, prefsFile, locked, path, shown, asks, hostEdits, crashes, chosen, spoilt>>

---------------------------------------------------------------------------
(* Files are written in two steps: fs::write truncates, then writes.  When   *)
(* another writer completed the file in between, the longer text may stick   *)
(* out behind the shorter one.                                               *)

Writers(p) == {r \in Callers : req[r] # Idle /\ req[r].step = "write" /\ req[r].path = p}

\* save_project: the text is made under the lock, the file is written outside.
Serialize(r) ==
    /\ Step(r, "lock") /\ ~locked
    /\ req' = [req EXCEPT ![r].step = "cut", ![r].content = running.content, ![r].engine = running.id]
    /\ UNCHANGED <<running, engines, files, prefsFile, locked, path, shown, asks, hostEdits, crashes, chosen,
                   lost, adrift, halfway, spoilt>>

Truncate(r) ==
    /\ Step(r, "cut")
    /\ LET p == req[r].path
           sole == Writers(p) = {}
       IN /\ \E cut \in CutOff : files' = [files EXCEPT ![p] = cut]
          /\ spoilt' = spoilt \cup {p}
          /\ req' = [s \in Callers |->
                        CASE s = r -> [req[r] EXCEPT !.step = "write", !.sole = sole]
                          [] s \in Writers(p) -> [req[s] EXCEPT !.sole = FALSE]
                          [] OTHER -> req[s]]
    /\ UNCHANGED <<running, engines, prefsFile, locked, path, shown, asks, hostEdits, crashes, chosen, lost,
                   adrift, halfway>>

Write(r) ==
    /\ Step(r, "write")
    /\ LET p == req[r].path
       IN /\ \E text \in {Whole(req[r].content)} \cup (IF files[p] \in CutOff THEN {} ELSE {Torn}) :
                 files' = [files EXCEPT ![p] = text]
          /\ spoilt' = IF req[r].do = "save" /\ req[r].sole THEN spoilt \ {p} ELSE spoilt
    /\ Goes(r, IF req[r].do = "save" THEN "name" ELSE "read")
    /\ UNCHANGED <<running, engines, prefsFile, locked, path, shown, asks, hostEdits, crashes, chosen, lost,
                   adrift, halfway>>

---------------------------------------------------------------------------
(* The routes finish: the session's path, then the read model.  The ghosts   *)
(* note what the path now stands for.                                        *)

\* A bug: a new project keeps the path of the project before it.
Name_kept(r) ==
    /\ Step(r, "name")
    /\ path' = IF req[r].do = "new" THEN path ELSE req[r].path
    /\ Goes(r, "look")
    /\ UNCHANGED <<running, engines, files, prefsFile, locked, shown, asks, hostEdits, crashes, chosen, lost,
                   adrift, halfway, spoilt>>

Name(r) ==
    /\ Step(r, "name")
    /\ path' = IF req[r].do = "new" THEN NoPath ELSE req[r].path
    /\ running' = IF req[r].do = "save" /\ req[r].engine = running.id
               THEN [running EXCEPT !.origin = req[r].path, !.base = req[r].content] ELSE running
    /\ spoilt' = IF req[r].do = "upload" /\ req[r].sole THEN spoilt \ {req[r].path} ELSE spoilt
    /\ Goes(r, "look")
    /\ UNCHANGED <<engines, files, prefsFile, locked, shown, asks, hostEdits, crashes, chosen, lost, adrift,
                   halfway>>

\* project_file.snapshot() is taken before the read model is locked.
Look(r) ==
    /\ Step(r, "look")
    /\ req' = [req EXCEPT ![r].seen = path, ![r].step = "show"]
    /\ UNCHANGED <<running, engines, files, prefsFile, locked, path, shown, asks, hostEdits, crashes, chosen,
                   lost, adrift, halfway, spoilt>>

\* refresh_read_model_after_project_replace reads the engine under its lock; a save only
\* sets the project file (set_project_file).
Displayed(r) == [engine |-> IF req[r].do = "save" THEN shown.engine ELSE running.id, path |-> req[r].seen]

Display(r) ==
    /\ Step(r, "show")
    /\ req[r].do = "save" \/ ~locked
    /\ shown' = Displayed(r)
    /\ adrift' = (adrift /\ ~(req[r].do # "save" /\ req[r].alone))
    /\ Finished(r)
    /\ UNCHANGED <<running, engines, files, prefsFile, locked, path, asks, hostEdits, crashes, chosen, lost,
                   halfway, spoilt>>

---------------------------------------------------------------------------
(* Intents change the live engine and save the preferences before they let   *)
(* the lock go (save_preferences_after_success).                             *)

EditProject ==
    /\ Up /\ ~locked /\ hostEdits < MaxHostEdits
    /\ hostEdits' = hostEdits + 1
    /\ running' = [running EXCEPT !.content = hostEdits + 1]
    /\ locked' = TRUE
    /\ \E cut \in CutOff : prefsFile' = cut
    /\ UNCHANGED <<engines, files, path, shown, req, asks, crashes, chosen, lost, adrift, halfway, spoilt>>

\* A bug: only an edit of the project saves.
EditPreferences_unsaved(v) ==
    /\ Up /\ ~locked /\ hostEdits < MaxHostEdits
    /\ hostEdits' = hostEdits + 1
    /\ running' = [running EXCEPT !.prefs.value = v]
    /\ chosen' = v /\ lost' = FALSE
    /\ req' = [r \in Callers |-> IF Step(r, "swap") THEN [req[r] EXCEPT !.stale = TRUE] ELSE req[r]]
    /\ UNCHANGED <<engines, files, prefsFile, locked, path, shown, asks, crashes, adrift, halfway, spoilt>>

EditPreferences(v) ==
    /\ Up /\ ~locked /\ hostEdits < MaxHostEdits
    /\ hostEdits' = hostEdits + 1
    /\ running' = [running EXCEPT !.prefs.value = v]
    /\ locked' = TRUE
    /\ \E cut \in CutOff : prefsFile' = cut
    /\ chosen' = v /\ lost' = FALSE
    /\ req' = [r \in Callers |-> IF Step(r, "swap") THEN [req[r] EXCEPT !.stale = TRUE] ELSE req[r]]
    /\ UNCHANGED <<engines, files, path, shown, asks, crashes, adrift, halfway, spoilt>>

SavePreferences ==
    /\ locked
    /\ prefsFile' = Saved(running)
    /\ locked' = FALSE
    /\ UNCHANGED <<running, engines, files, path, shown, req, asks, hostEdits, crashes, chosen, lost, adrift,
                   halfway, spoilt>>

---------------------------------------------------------------------------
(* The process.  run_with_ui_server_config reads the preferences and writes  *)
(* them back; a preferences file that does not parse stops it.               *)

Start ==
    /\ ~Up /\ prefsFile # Torn
    /\ LET e == [id |-> engines + 1, prefs |-> PrefsOf(prefsFile), content |-> 0, base |-> 0, origin |-> NoPath]
       IN /\ running' = e
          /\ engines' = e.id
          /\ prefsFile' = Saved(e)
          /\ shown' = [engine |-> e.id, path |-> NoPath]
    /\ path' = NoPath
    /\ adrift' = FALSE /\ halfway' = FALSE
    /\ UNCHANGED <<files, locked, req, asks, hostEdits, crashes, chosen, lost, spoilt>>

Crash ==
    /\ Up /\ crashes < MaxCrashes
    /\ crashes' = crashes + 1
    /\ running' = Down /\ locked' = FALSE
    /\ req' = [r \in Callers |-> Idle]
    /\ lost' = (lost \/ locked)
    /\ UNCHANGED <<engines, files, prefsFile, path, shown, asks, hostEdits, chosen, adrift, halfway, spoilt>>

\* The preferences file may be the one of an older release.
HostInit ==
    /\ running = Down /\ engines = 0 /\ locked = FALSE
    /\ files = [p \in Paths |-> Missing]
    /\ prefsFile \in {Missing, Whole([value |-> Default, has |-> Trimmed])}
    /\ path = NoPath /\ shown = [engine |-> 0, path |-> NoPath]
    /\ req = [r \in Callers |-> Idle]
    /\ asks = 0 /\ hostEdits = 0 /\ crashes = 0
    /\ chosen = Default /\ lost = FALSE /\ adrift = FALSE /\ halfway = FALSE
    /\ spoilt = {}

HostNext ==
    \/ Start \/ Crash \/ EditProject \/ SavePreferences
    \/ \E v \in PrefValues : EditPreferences(v)
    \/ \E r \in Callers :
          \/ AskFor(r, "new", NoPath, FALSE)
          \/ \E p \in Paths : \/ AskFor(r, "save", p, FALSE)
                              \/ \E recover \in BOOLEAN : AskFor(r, "load", p, recover) \/ AskFor(r, "upload", p, recover)
          \/ ReadProject(r) \/ ReadPrefs(r) \/ Swap(r)
          \/ Serialize(r) \/ Truncate(r) \/ Write(r)
          \/ Name(r) \/ Look(r) \/ Display(r)

HostSpec == HostInit /\ [][HostNext]_hostVars

---------------------------------------------------------------------------
(* Properties.                                                               *)

Settled == Up /\ ~locked /\ \A r \in Callers : req[r] = Idle

(* When every request has been answered, the clients are shown the engine    *)
(* that is live, however the requests overlapped, unless the last replacement *)
(* failed after the swap.  If moreover none overlapped since an engine was   *)
(* replaced, the path is the one the live project was read from or saved to, *)
(* it is the path the clients see, and the file there, if no other writing of *)
(* it overlapped, failed to load or was cut off by a crash, holds the project *)
(* as it was read or saved.                                                  *)
HostSettles ==
    Settled =>
        /\ ~halfway => shown.engine = running.id
        /\ ~adrift => /\ path = running.origin
                      /\ shown.path = path
                      /\ path # NoPath /\ path \notin spoilt => files[path] = Whole(running.base)

(* The preference that was last set is the one the live engine has and the   *)
(* one in the file, through new, loaded and recovered projects and through    *)
(* restarts, unless a request read the file before the change and replaced   *)
(* the engine after it, or the process stopped while the file was written;   *)
(* and an engine built on a preferences file this program wrote has every     *)
(* section of the tree.                                                      *)
PreferencesKept ==
    Settled =>
        /\ ~lost =>
               /\ running.prefs.value = chosen
               /\ prefsFile = Saved([running EXCEPT !.prefs.has = prefsFile.data.has])
        /\ running.prefs.from # Trimmed => running.prefs.has = Sections

(* The comment at project_host.rs:145: the previous engine is unloaded before *)
(* the replacement starts runtime work, so nodes of one project at a time     *)
(* hold what they bind when they become ready.                               *)
OneProjectRuns == \A r \in Callers : req[r] # Idle => ~req[r].ready
=============================================================================
