---------------------------- MODULE Configuration ---------------------------
(***************************************************************************)
(* loadConfig (config/merger.ts): the settings of a review are built in    *)
(* (config/schema.ts), or come from a global file, a project file          *)
(* (config/loader.ts), the environment or the command line, and later      *)
(* layers win.  A layer only holds what it sets: the schemas of the files  *)
(* fill in no defaults.                                                    *)
(*                                                                         *)
(* Two settings of one section stand for all of them.  What a schema does  *)
(* not accept, or the YAML parser cannot read, is the value Invalid.       *)
(* Mutants stand above what they mutate.                                   *)
(***************************************************************************)
EXTENDS Naturals, FiniteSetsExt

Default == [failOn |-> "critical", maxFindings |-> "50"]
Settings == DOMAIN Default
Advisory == {"none", "off"}     \* failOnSeverity: nothing blocks
Invalid == "invalid"

(* The exit code of each class of error.                                   *)
ErrorCode ==
    [configuration |-> 2, repository |-> 3, git |-> 3, parse |-> 3, analysis |-> 3,
     context |-> 3, model |-> 4, providerRateLimit |-> 4, providerTimeout |-> 4,
     authentication |-> 4, quotaExceeded |-> 4, validation |-> 5, internal |-> 5]

(* A layer says something of some settings.                                *)
Silent == [s \in {} |-> Invalid]
Accepts(layer) == DOMAIN layer \subseteq Settings /\ \A s \in DOMAIN layer : layer[s] # Invalid

(* A path, as stat() and readFile() see it; identified is whether the file *)
(* has the version and the project name that a project file must have.     *)
PathKinds == {"none", "directory", "inaccessible", "unreadable", "yaml"}
Nothing(kind) == [kind |-> kind, identified |-> FALSE, sets |-> Silent]
Yaml(identified, sets) == [kind |-> "yaml", identified |-> identified, sets |-> sets]

(* What a configuration may be loaded from: the path of --config, where    *)
(* there is one, octate.yaml in the working directory and in each above    *)
(* it, the global file, the environment and the command line.  Only a file *)
(* with YAML in it sets anything.                                          *)
IsPath(path) == path.kind # "yaml" => path.sets = Silent
IsSource(source) ==
    /\ IsPath(source.config) /\ IsPath(source.global)
    /\ DOMAIN source.dirs \subseteq Nat
    /\ \A k \in DOMAIN source.dirs : IsPath(source.dirs[k])

Loaded(layer) == [error |-> "none", sets |-> layer]
Fails(error) == [error |-> error, sets |-> Silent]

(* From the working directory up to the root; an error of stat() other than*)
(* ENOENT is thrown as it is.                                              *)
FindConfigFile(dirs) ==
    LET stops == {k \in DOMAIN dirs : dirs[k].kind \notin {"none", "directory"}}
    IN IF stops = {} THEN Nothing("none") ELSE dirs[Min(stops)]

(* source.config is the path of --config, where there is one.              *)
ProjectConfigLayer(source) ==
    LET given == source.config.kind # "no option"
        file == IF given THEN source.config ELSE FindConfigFile(source.dirs)
    IN CASE file.kind = "yaml" ->
               IF file.identified /\ Accepts(file.sets) THEN Loaded(file.sets)
                                                        ELSE Fails("configuration")
         [] file.kind = "none" /\ ~given -> Loaded(Silent)
         [] file.kind = "inaccessible" /\ ~given -> Fails("internal")
         [] OTHER -> Fails("configuration")

(* An invalid global file is ignored, one that cannot be read is not.      *)
GlobalConfigLayer(source) ==
    CASE source.global.kind = "yaml" ->
            Loaded(IF Accepts(source.global.sets) THEN source.global.sets ELSE Silent)
      [] source.global.kind = "none" -> Loaded(Silent)
      [] OTHER -> Fails("configuration")

(* OCTATE_<SECTION>_<KEY>; other sections are not the configuration's.     *)
OtherSection == "other section"
EnvConfig(env) == [s \in DOMAIN env \ {OtherSection} |-> env[s]]

(* deepMerge, which looks into sections.  The mutant replaces a section,   *)
(* and the schema then fills in what is missing.                           *)
MergeSections(target, layer) ==
    IF DOMAIN layer = {} THEN target
    ELSE [s \in DOMAIN Default \cup DOMAIN layer |-> IF s \in DOMAIN layer THEN layer[s] ELSE Default[s]]
Merge(target, layer) ==
    [s \in DOMAIN target \cup DOMAIN layer |-> IF s \in DOMAIN layer THEN layer[s] ELSE target[s]]

MergeConfigs(global, project, env, cli) ==
    LET merged == Merge(Merge(Merge(Merge(Default, global), project), env), cli)
    IN IF Accepts(merged) THEN Loaded(merged) ELSE Fails("configuration")

LoadConfig(source) ==
    LET project == ProjectConfigLayer(source)
        global == GlobalConfigLayer(source)
    IN IF project.error # "none" THEN project
       ELSE IF global.error # "none" THEN global
       ELSE MergeConfigs(global.sets, project.sets, EnvConfig(source.env), source.cli)
=============================================================================
