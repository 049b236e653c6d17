------------------------------- MODULE ProfileTool -----------------------------
(***************************************************************************)
(* gsd-oc-tools (.opencode/get-shit-done/bin: gsd-oc-commands,             *)
(* gsd-oc-lib): the profiles of .planning/oc_config.json say which model   *)
(* each kind of gsd agent runs on, and opencode.json gives it to the       *)
(* agents, beside what the user keeps there.  set-profile changes both     *)
(* files, one after the other, and undoes the first if the second fails.   *)
(* Nothing is locked, and a file is emptied before it is filled; a write   *)
(* can fail in between or before.  One agent stands for each kind.         *)
(* Mutants stand above what they mutate.                                   *)
(***************************************************************************)
EXTENDS PlanningProcess

CONSTANT Catalog    \* the models "opencode models" lists

VARIABLES
    settings,       \* what oc_config.json and opencode.json say, those that are there
    backups,        \* the copies of both, by file and time
    before          \* history: the settings at the start

profileVars == <<settings, backups, before>>

\* A backup has a name.
ASSUME ProfileAssumption == Nothing \notin {"oc", "opencode"} \X (Procs \cup {Nothing})

Kinds == {"planning", "execution", "verification"}      \* and agents of the user

OcTorn == [torn |-> TRUE]                                \* does not parse
Broken(all, file)   == file \in DOMAIN all /\ all[file] = OcTorn
Readable(all, file) == file \in DOMAIN all /\ all[file] # OcTorn

ProfileInit(s) ==
  /\ settings = s /\ before = s
  /\ backups = <<>>

HasPreset(name) == Readable(settings, "oc") /\ name \in DOMAIN settings.oc.presets
NoProfiles == [current |-> Nothing, presets |-> <<>>]
NoAgents   == [agent |-> <<>>, allowed |-> FALSE]
CurrentAgents ==
  IF "opencode" \in DOMAIN settings THEN settings.opencode ELSE NoAgents

Quietly == UNCHANGED <<profileVars, locks, history>>

\* The steps in which a call copies, empties and fills each file.
StepsOn(file) ==
  IF file = "oc" THEN [backup |-> "back up oc", empty |-> "empty oc", fill |-> "fill oc"]
  ELSE [backup |-> "back up opencode", empty |-> "empty opencode", fill |-> "fill opencode"]

(* applyProfileToOpencode: only gsd's own agents are changed. *)
ModelsOf(agent, profile) ==
  [k \in DOMAIN profile \cup DOMAIN agent |->
     IF k \in DOMAIN profile THEN profile[k] ELSE agent[k]]

(* Every kind has a model, and the catalog lists it. *)
ValidateProfile(profile) ==
  DOMAIN profile = Kinds /\ \A k \in Kinds : profile[k] \in Catalog

-----------------------------------------------------------------------------
(* set-profile without or with a name looks for the profile, *)
LookAtProfile(p) ==
  /\ At(p, "look at profile")
  /\ LET name == IF Cmd(p).profile = Nothing /\ Readable(settings, "oc")
                   THEN settings.oc.current ELSE Cmd(p).profile
     IN  IF HasPreset(name) THEN GoWith(p, "was", name) ELSE Stop(p)
  /\ Quietly

(* and reads the file anew; with a definition it may be the first to write *)
(* it; update-opencode-json takes the current profile.                     *)
ReadProfiles(p) ==
  /\ At(p, "read profiles")
  /\ LET there == Readable(settings, "oc")
         name  == IF Is(p, {"inline"}) THEN Cmd(p).profile
                  ELSE IF Is(p, {"rewrite"}) /\ there THEN settings.oc.current
                  ELSE run[p].was
         fine  == IF Is(p, {"inline"}) THEN ~Broken(settings, "oc") ELSE HasPreset(name)
     IN  IF fine
           THEN run' = [run EXCEPT ![p].at = @ + 1, ![p].was = name,
                                   ![p].copy = IF there THEN settings.oc ELSE NoProfiles]
           ELSE Stop(p)
  /\ Quietly

(* The catalog comes from a program that may fail. *)
FetchCatalog(p) ==
  /\ At(p, "fetch catalog")
  /\ LET profile == IF Is(p, {"inline"}) THEN Cmd(p).models
                    ELSE run[p].copy.presets[run[p].was]
     IN  Stop(p) \/ (ValidateProfile(profile) /\ Go(p))
  /\ Quietly

(* A backup is named by the second it is made in, which another call may   *)
(* share.  Without a file there is none, and set-profile with a name ends. *)
CreateBackup(p, file) ==
  /\ At(p, StepsOn(file).backup)
  /\ IF file \notin DOMAIN settings
       THEN /\ IF Is(p, {"pick", "rewrite"}) THEN Stop(p) ELSE Go(p)
            /\ UNCHANGED backups
       ELSE \E second \in {p, Nothing} :
              /\ backups' = Put(backups, <<file, second>>, settings[file])
              /\ GoWith(p, "kept", <<file, second>>)
  /\ UNCHANGED <<settings, before, locks, history>>

(* What a call writes to each file. *)
NewContent(p, file) ==
  LET oc == run[p].copy  oj == run[p].text IN
  IF file = "oc" THEN
    [oc EXCEPT !.current = run[p].was,
               !.presets = IF Is(p, {"inline"}) THEN Put(@, run[p].was, Cmd(p).models)
                            ELSE @]
  ELSE IF Is(p, {"allow"}) THEN [oj EXCEPT !.allowed = TRUE]
  ELSE [oj EXCEPT !.agent = ModelsOf(@, run[p].body)]

Empty(p, file) ==
  /\ At(p, StepsOn(file).empty)
  /\ settings' = Put(settings, file, OcTorn)
  /\ Go(p)
  /\ UNCHANGED <<backups, before, locks, history>>

Fill(p, file) ==
  /\ At(p, StepsOn(file).fill)
  /\ settings' = Put(settings, file, NewContent(p, file))
  /\ IF file = "oc" THEN Go(p) ELSE Stop(p)
  /\ UNCHANGED <<backups, before, locks, history>>

(* A failed write of oc_config.json ends the call, one of opencode.json    *)
(* undoes what the call did.                                               *)
WriteFails(p, file) ==
  /\ At(p, StepsOn(file).empty) \/ At(p, StepsOn(file).fill)
  /\ Fault
  /\ IF file = "oc" THEN Stop(p) ELSE GoTo(p, "restore")
  /\ UNCHANGED <<profileVars, locks, killed, usurped, together, lost>>

(* applyProfileToOpencode reads both files again. *)
ReadProfile(p) ==
  /\ At(p, "read profile")
  /\ IF HasPreset(run[p].was) /\ DOMAIN settings.oc.presets[run[p].was] # {}
       THEN GoWith(p, "body", settings.oc.presets[run[p].was])
       ELSE GoTo(p, "restore")
  /\ Quietly

ReadOpencode(p) ==
  /\ At(p, "read opencode")
  /\ IF Broken(settings, "opencode") THEN GoTo(p, "restore")
     ELSE GoWith(p, "text", CurrentAgents)
  /\ Quietly

(* allow-read-config: a permission that is there ends it. *)
ReadPermission(p) ==
  /\ At(p, "read permission")
  /\ IF Broken(settings, "opencode") \/ CurrentAgents.allowed THEN Stop(p)
     ELSE GoWith(p, "text", CurrentAgents)
  /\ Quietly

LookAtOpencode(p) ==
  /\ At(p, "look at opencode")
  /\ IF "opencode" \in DOMAIN settings THEN Go(p) ELSE Stop(p)
  /\ Quietly

(* The backup goes back, if there is one. *)
RestoreNot(p) == At(p, "restore") /\ Stop(p) /\ Quietly
Restore(p) ==
  /\ At(p, "restore")
  /\ settings' = IF run[p].kept = Nothing THEN settings
                 ELSE Put(settings, run[p].kept[1], backups[run[p].kept])
  /\ Stop(p)
  /\ UNCHANGED <<backups, before, locks, history>>

ProfileStep(p) ==
  \/ LookAtProfile(p) \/ ReadProfiles(p) \/ FetchCatalog(p) \/ ReadProfile(p)
  \/ ReadOpencode(p) \/ ReadPermission(p) \/ LookAtOpencode(p) \/ Restore(p)
  \/ \E file \in {"oc", "opencode"} :
       CreateBackup(p, file) \/ Empty(p, file) \/ Fill(p, file) \/ WriteFails(p, file)

(* Safety: after calls that did not overlap and were not killed, failed    *)
(* ones included, gsd's agents run on the models of the current profile    *)
(* and the user's agents on their own, whenever both files can be read;    *)
(* if there was no oc_config.json yet, as long as no write has failed.     *)
Obey(agents, profile) ==
  \A k \in DOMAIN profile : k \in DOMAIN agents /\ agents[k] = profile[k]
AgentsFollow(all) ==
  Readable(all, "oc") /\ Readable(all, "opencode")
    => Obey(all.opencode.agent, all.oc.presets[all.oc.current])
UsersOf(agents) == [a \in DOMAIN agents \ Kinds |-> agents[a]]
AgentsFollowTheProfile ==
  /\ Quiet /\ killed = {} /\ Apart(ProfileCommands, ProfileCommands)
  /\ Readable(before, "opencode") /\ (Readable(before, "oc") \/ faults = 0)
  /\ Readable(settings, "oc") /\ Readable(settings, "opencode")
  => /\ AgentsFollow(settings)
     /\ Obey(settings.opencode.agent, UsersOf(before.opencode.agent))
================================================================================
