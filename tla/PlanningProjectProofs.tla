------------------------ MODULE PlanningProjectProofs ------------------------
(***************************************************************************)
(* Proofs about PlanningProject, for any processes, calls, workstreams,    *)
(* tries, kills and faults:                                                *)
(*   - every program is coloured with what a call has in hand before each  *)
(*     of its steps, the mode: nothing, a lock, or what it has read;       *)
(*   - a step that is not about a lock goes on in the colours, moves about *)
(*     outside of the locks, or ends the call and unlinks its lock file    *)
(*     (Local), and every step of the four modules is local or about a     *)
(*     lock;                                                               *)
(*   - so a lock file is that of a call inside the lock, of a killed one,  *)
(*     or Stray, and two calls are inside one lock only if it was usurped  *)
(*     (LockInv), from which LockFileHasOwner follows;                     *)
(*   - so what was read under a lock stands until it is written            *)
(*     (ReadsStand), from which NoUpdateIsLost follows;                    *)
(*   - the places of the pruning in the two programs that prune tell what  *)
(*     a call has cut and not yet filed, and every entry is in STATE.md,   *)
(*     in the archive or there (EntriesInv): EntriesAreKept follows;       *)
(*   - a removal looks before it deletes, and every other step leaves each *)
(*     directory its summaries (PlansInv): ExecutedPlansAreKept follows.   *)
(* What the calls share beyond .planning's own files is in                 *)
(* PlanningSpaceProofs.                                                    *)
(***************************************************************************)
EXTENDS PlanningProject, FiniteSetTheorems, TLAPS

-----------------------------------------------------------------------------
(***************************************************************************)
(* What a call has in hand before each step: nothing ("out"), a lock and   *)
(* what it has read under it, or a step that belongs to the next.  The     *)
(* steps lead from one mode to another.                                    *)
(***************************************************************************)
PlanningModes == {"planning", "roadmap"}
StateModes    == {"state", "body", "late"}
Guarded       == PlanningModes \cup StateModes

\* The steps that need nothing and leave nothing in hand.
Loose(c) ==
  (IF c \in PhaseCommands
     THEN {"find phase", "delete directory", "list directories", "rename directory",
           "find next", "read cutoff", "scan", "archive directories",
           "clear directories", "write summary", "manage"} ELSE {})
  \cup (IF c = "create"
     THEN {"look for mode", "look for work", "look for target", "make target",
           "make stream"} ELSE {})
  \cup (IF c = "finish"
     THEN {"unpoint", "pick archive", "make archive", "list entries", "move",
           "remove stream"} ELSE {})
  \cup (IF c \in {"create", "finish"} THEN {"undo", "discard", "drop workstreams"} ELSE {})
  \cup (IF c \in {"create", "finish", "switch"} THEN {"look for stream", "point"} ELSE {})
  \cup (IF c \in {"ensure", "new", "profile", "set"} THEN {"make scope"} ELSE {})
  \cup (IF c = "new" THEN {"look for config", "write defaults"} ELSE {})
  \cup (IF c = "load" THEN {"load config"} ELSE {})
  \cup (IF c = "health" THEN {"inspect", "back up state", "repair"} ELSE {})
  \cup (IF c \in ProfileCommands
     THEN {"fetch catalog", "read profiles", "back up oc", "empty oc", "fill oc",
           "read profile", "read opencode", "back up opencode", "empty opencode",
           "fill opencode", "restore", "look at profile", "look at opencode",
           "read permission"} ELSE {})
  \cup (IF c = "copy"
     THEN {"scan library", "read learning", "create learning", "fill learning"} ELSE {})
  \cup (IF c = "purge" THEN {"list old", "look at old"} ELSE {})
  \cup (IF c = "forget" THEN {"find learning"} ELSE {})
  \cup (IF c \in {"purge", "forget"} THEN {"unlink learning"} ELSE {})

(* The command c is in mode m when it comes to the step x, and in n then.  *)
Leads(c, m, x, n) ==
  \/ m = "out" /\ n = "out" /\ x \in Loose(c)
  \/ m = "out" /\ n = "planning" /\ x = "lock planning"
  \/ m = "planning" /\ n = "out" /\ x = "unlock planning"
  \/ m = "planning" /\ n = "roadmap" /\ x = "read roadmap" /\ c \in PhaseCommands
  \/ m = "roadmap" /\ n = "roadmap" /\ x = "make directory" /\ c \in PhaseCommands
  \/ m = "roadmap" /\ n = "planning" /\ x = "write roadmap" /\ c \in PhaseCommands
  \/ /\ m = "out" /\ n = "out" /\ c = "requirements"
     /\ x \in {"read requirements", "write requirements"}
  \/ /\ m = "planning" /\ n = "planning" /\ c = "complete"
     /\ x \in {"read requirements", "write requirements"}
  \/ /\ m = "planning" /\ n = "planning" /\ c \in {"profile", "set"}
     /\ x \in {"read config", "write config"}
  \/ m = "out" /\ n = "state" /\ x = "lock state" /\ c \notin LateLocking
  \/ m = "derived" /\ n = "late" /\ x = "lock state" /\ c \in LateLocking
  \/ m \in {"state", "late"} /\ n = "out" /\ x = "unlock state"
  \/ m = "out" /\ n = "out" /\ x = "read state" /\ c \in LateLocking
  \/ m = "out" /\ n = "derived" /\ x = "derive state" /\ c \in LateLocking
  \/ m = "late" /\ n = "late" /\ x = "write state" /\ c \in LateLocking
  \/ m = "state" /\ n = "body" /\ x = "read state" /\ c \in PhaseCommands \ LateLocking
  \/ m = "body" /\ n = "state" /\ x = "write state" /\ c \in PhaseCommands \ LateLocking
  \/ m = "state" /\ n = "state" /\ x = "regenerate state" /\ c = "health"
  \/ m = "out" /\ n = "filed" /\ x = "read archive" /\ c \in {"complete", "prune"}
  \/ m = "filed" /\ n = "out" /\ x = "write archive" /\ c \in {"complete", "prune"}
  \/ m = "out" /\ n = "looked" /\ x = "look" /\ c = "create"
  \/ m = "looked" /\ n = "out" /\ x = "move" /\ c = "create"
  \/ m = "out" /\ n = "stateless" /\ x = "look for state" /\ c = "create"
  \/ m = "stateless" /\ n = "out" /\ x = "write new state" /\ c = "create"
  \/ m = "out" /\ n = "configless" /\ x = "look for config" /\ c \in {"ensure", "profile"}
  \/ m = "configless" /\ n = "out" /\ x = "write defaults" /\ c \in {"ensure", "profile"}
  \/ m = "out" /\ n = "emptied" /\ x = "truncate config" /\ c \in {"load", "health"}
  \/ m = "emptied" /\ n = "out" /\ x = "fill config" /\ c \in {"load", "health"}
  \/ m = "out" /\ n = "routed" /\ x = "route" /\ c \in SpaceCommands
  \/ m = "routed" /\ n = "out" /\ x = "heal" /\ c \in SpaceCommands

(* w says in which mode the command c is before each step of s. *)
Colouring(c, s, w) == \A i \in 1 .. Len(s) : Leads(c, w[i], s[i], w[i + 1])
Runs(c, s, m, n) ==
  /\ \E X : s \in Seq(X)
  /\ \E w : w[1] = m /\ w[Len(s) + 1] = n /\ Colouring(c, s, w)

(* A way to colour the steps is a way to run them.                         *)
LEMMA RunsBy ==
  ASSUME NEW c, NEW s, NEW X, s \in Seq(X), NEW w, Colouring(c, s, w)
  PROVE  Runs(c, s, w[1], w[Len(s) + 1])
BY DEF Runs

(* What leads from m to n and then from n to o leads from m to o. *)
LEMMA RunsJoin ==
  ASSUME NEW c, NEW s, NEW t, NEW m, NEW n, NEW o, Runs(c, s, m, n), Runs(c, t, n, o)
  PROVE  Runs(c, s \o t, m, o)
<1>1. PICK X : s \in Seq(X) /\ t \in Seq(X)
  <2>1. PICK S, T : s \in Seq(S) /\ t \in Seq(T)
    BY DEF Runs
  <2>2. s \in Seq(S \cup T) /\ t \in Seq(S \cup T)
    BY <2>1
  <2> QED
    BY <2>2
<1>2. PICK w : w[1] = m /\ w[Len(s) + 1] = n /\ Colouring(c, s, w)
  BY DEF Runs
<1>3. PICK v : v[1] = n /\ v[Len(t) + 1] = o /\ Colouring(c, t, v)
  BY DEF Runs
<1> DEFINE j == Len(s)  k == Len(t)
           u == [i \in 1 .. j + k + 1 |-> IF i <= j THEN w[i] ELSE v[i - j]]
<1>4. j \in Nat /\ k \in Nat /\ s \o t \in Seq(X) /\ Len(s \o t) = j + k
  BY <1>1
<1>5. u[1] = m /\ u[j + k + 1] = o
  BY <1>2, <1>3, <1>4
<1>6. ASSUME NEW i \in 1 .. j + k PROVE Leads(c, u[i], (s \o t)[i], u[i + 1])
  <2>1. CASE i <= j
    <3>1. Leads(c, w[i], s[i], w[i + 1])
      BY <1>2, <1>4, <2>1 DEF Colouring
    <3>2. (s \o t)[i] = s[i] /\ u[i] = w[i]
      BY <1>1, <1>4, <2>1
    <3>3. u[i + 1] = w[i + 1]
      BY <1>2, <1>3, <1>4, <2>1
    <3> QED
      BY <3>1, <3>2, <3>3
  <2>2. CASE i > j
    <3>1. Leads(c, v[i - j], t[i - j], v[i - j + 1])
      BY <1>3, <1>4, <2>2 DEF Colouring
    <3>2. (s \o t)[i] = t[i - j] /\ u[i] = v[i - j] /\ u[i + 1] = v[i - j + 1]
      BY <1>1, <1>4, <2>2
    <3> QED
      BY <3>1, <3>2
  <2> QED
    BY <1>4, <2>1, <2>2
<1>7. Colouring(c, s \o t, u)
  BY <1>4, <1>6 DEF Colouring
<1> HIDE DEF u
<1> QED
  BY <1>4, <1>5, <1>7 DEF Runs

(* The commands, by name.                                                  *)
LEMMA CommandsAre ==
  /\ PhaseCommands =
       {"add", "insert", "remove", "complete", "progress", "requirements", "begin",
        "advance", "annotate", "decide", "block", "resolve", "measure", "session",
        "update", "prune", "planned", "sync", "milestone", "clear", "execute", "manage"}
  /\ SpaceCommands =
       {"create", "finish", "switch", "ensure", "new", "profile", "set", "load", "health"}
  /\ ProfileCommands = {"inline", "pick", "rewrite", "allow"}
  /\ KnowledgeCommands = {"copy", "purge", "forget"}
BY DEF PhaseCommands, PhaseProgram, SpaceCommands, SpaceProgram, ProfileCommands,
       ProfileProgram, KnowledgeCommands, KnowledgeProgram

(* Blocks of one step and of two.                                          *)
LEMMA RunsStep ==
  ASSUME NEW c, NEW m, NEW x, NEW n, Leads(c, m, x, n)
  PROVE  Runs(c, <<x>>, m, n)
<1> DEFINE s == <<x>>  w == <<m, n>>
<1>1. s \in Seq({x}) /\ Len(s) = 1 /\ s[1] = x
  OBVIOUS
<1>2. w[1] = m /\ w[2] = n
  OBVIOUS
<1> HIDE DEF s, w
<1>3. Colouring(c, s, w)
  BY <1>1, <1>2 DEF Colouring
<1>4. Runs(c, s, m, n)
  BY <1>1, <1>2, <1>3 DEF Runs
<1> QED
  BY <1>4 DEF s

(* The same for two steps.                                                 *)
LEMMA RunsTwo ==
  ASSUME NEW c, NEW m, NEW x, NEW n, NEW y, NEW o, Leads(c, m, x, n), Leads(c, n, y, o)
  PROVE  Runs(c, <<x, y>>, m, o)
<1> DEFINE s == <<x, y>>  w == <<m, n, o>>
<1>1. s \in Seq({x, y}) /\ Len(s) = 2 /\ s[1] = x /\ s[2] = y
  OBVIOUS
<1>2. w[1] = m /\ w[2] = n /\ w[3] = o
  OBVIOUS
<1> HIDE DEF s, w
<1>3. Colouring(c, s, w)
  BY <1>1, <1>2 DEF Colouring
<1>4. Runs(c, s, m, o)
  BY <1>1, <1>2, <1>3 DEF Runs
<1> QED
  BY <1>4 DEF s

(* workstream create: what is looked up is used in the next step.          *)
LEMMA CreateRuns == Runs("create", SpaceProgram["create"], "out", "out")
<1> DEFINE s == SpaceProgram["create"]
           ms == <<"out", "out", "out", "out", "out", "out", "looked", "out", "out",
                  "out", "out", "out", "stateless", "out", "out">>
           X == {"look for stream", "look for mode", "look for work",
                 "look for target", "make target", "look", "move", "undo", "discard",
                 "drop workstreams", "make stream", "look for state",
                 "write new state", "point"}
<1>1. /\ s \in Seq(X) /\ Len(s) = 14 /\ Len(s) + 1 = 15
      /\ s[1] = "look for stream" /\ s[2] = "look for mode" /\ s[3] = "look for work"
      /\ s[4] = "look for target" /\ s[5] = "make target" /\ s[6] = "look"
      /\ s[7] = "move" /\ s[8] = "undo" /\ s[9] = "discard"
      /\ s[10] = "drop workstreams" /\ s[11] = "make stream" /\ s[12] = "look for state"
      /\ s[13] = "write new state" /\ s[14] = "point"
  BY DEF SpaceProgram
<1>2. /\ ms[1] = "out" /\ ms[2] = "out" /\ ms[3] = "out" /\ ms[4] = "out"
      /\ ms[5] = "out" /\ ms[6] = "out" /\ ms[7] = "looked" /\ ms[8] = "out"
      /\ ms[9] = "out" /\ ms[10] = "out" /\ ms[11] = "out" /\ ms[12] = "out"
      /\ ms[13] = "stateless" /\ ms[14] = "out" /\ ms[15] = "out"
  OBVIOUS
<1> HIDE DEF s, ms, X
<1>3. /\ Leads("create", "out", "look for stream", "out")
      /\ Leads("create", "out", "look for mode", "out")
      /\ Leads("create", "out", "look for work", "out")
      /\ Leads("create", "out", "look for target", "out")
      /\ Leads("create", "out", "make target", "out")
      /\ Leads("create", "out", "look", "looked")
      /\ Leads("create", "looked", "move", "out")
      /\ Leads("create", "out", "undo", "out")
      /\ Leads("create", "out", "discard", "out")
      /\ Leads("create", "out", "drop workstreams", "out")
      /\ Leads("create", "out", "make stream", "out")
      /\ Leads("create", "out", "look for state", "stateless")
      /\ Leads("create", "stateless", "write new state", "out")
      /\ Leads("create", "out", "point", "out")
  BY CommandsAre DEF Leads, Loose, LateLocking
<1>4. \A i \in 1 .. 14 : Leads("create", ms[i], s[i], ms[i + 1])
  <2>1. /\ Leads("create", ms[1], s[1], ms[2]) /\ Leads("create", ms[2], s[2], ms[3])
        /\ Leads("create", ms[3], s[3], ms[4]) /\ Leads("create", ms[4], s[4], ms[5])
        /\ Leads("create", ms[5], s[5], ms[6]) /\ Leads("create", ms[6], s[6], ms[7])
        /\ Leads("create", ms[7], s[7], ms[8]) /\ Leads("create", ms[8], s[8], ms[9])
        /\ Leads("create", ms[9], s[9], ms[10])
        /\ Leads("create", ms[10], s[10], ms[11])
        /\ Leads("create", ms[11], s[11], ms[12])
        /\ Leads("create", ms[12], s[12], ms[13])
        /\ Leads("create", ms[13], s[13], ms[14])
        /\ Leads("create", ms[14], s[14], ms[15])
    BY <1>1, <1>2, <1>3
  <2> QED
    BY <2>1
<1>5. Colouring("create", s, ms)
  BY <1>1, <1>4 DEF Colouring
<1>6. Runs("create", s, ms[1], ms[Len(s) + 1])
  BY <1>1, <1>5, RunsBy
<1>7. Runs("create", s, "out", "out")
  BY <1>1, <1>2, <1>6
<1> QED
  BY <1>7 DEF s

(* validate health --repair regenerates STATE.md inside its lock.          *)
LEMMA HealthRuns ==
  Runs("health", <<"inspect", "back up state", "lock state", "regenerate state",
                   "unlock state", "repair">>, "out", "out")
<1> DEFINE s == <<"inspect", "back up state", "lock state", "regenerate state",
                  "unlock state", "repair">>
           ms == <<"out", "out", "out", "state", "state", "out", "out">>
           X == {"inspect", "back up state", "lock state", "regenerate state",
                 "unlock state", "repair"}
<1>1. /\ s \in Seq(X) /\ Len(s) = 6 /\ Len(s) + 1 = 7
      /\ s[1] = "inspect" /\ s[2] = "back up state" /\ s[3] = "lock state"
      /\ s[4] = "regenerate state" /\ s[5] = "unlock state" /\ s[6] = "repair"
  OBVIOUS
<1>2. /\ ms[1] = "out" /\ ms[2] = "out" /\ ms[3] = "out" /\ ms[4] = "state"
      /\ ms[5] = "state" /\ ms[6] = "out" /\ ms[7] = "out"
  OBVIOUS
<1> HIDE DEF s, ms, X
<1>3. /\ Leads("health", "out", "inspect", "out")
      /\ Leads("health", "out", "back up state", "out")
      /\ Leads("health", "out", "lock state", "state")
      /\ Leads("health", "state", "regenerate state", "state")
      /\ Leads("health", "state", "unlock state", "out")
      /\ Leads("health", "out", "repair", "out")
  BY CommandsAre DEF Leads, Loose, LateLocking
<1>4. \A i \in 1 .. 6 : Leads("health", ms[i], s[i], ms[i + 1])
  <2>1. /\ Leads("health", ms[1], s[1], ms[2]) /\ Leads("health", ms[2], s[2], ms[3])
        /\ Leads("health", ms[3], s[3], ms[4]) /\ Leads("health", ms[4], s[4], ms[5])
        /\ Leads("health", ms[5], s[5], ms[6]) /\ Leads("health", ms[6], s[6], ms[7])
    BY <1>1, <1>2, <1>3
  <2> QED
    BY <2>1
<1>5. Colouring("health", s, ms)
  BY <1>1, <1>4 DEF Colouring
<1>6. Runs("health", s, ms[1], ms[Len(s) + 1])
  BY <1>1, <1>5, RunsBy
<1>7. Runs("health", s, "out", "out")
  BY <1>1, <1>2, <1>6
<1> QED
  BY <1>7 DEF s

(* setConfigValue: config.json is read and written inside the lock of the  *)
(* directory.                                                              *)
LEMMA SetConfigRuns ==
  ASSUME NEW c \in {"profile", "set"}
  PROVE  Runs(c, SetConfig, "out", "out")
<1> DEFINE s == SetConfig
           ms == <<"out", "out", "planning", "planning", "planning", "out">>
           X == {"make scope", "lock planning", "read config", "write config",
                 "unlock planning"}
<1>1. /\ s \in Seq(X) /\ Len(s) = 5 /\ Len(s) + 1 = 6
      /\ s[1] = "make scope" /\ s[2] = "lock planning" /\ s[3] = "read config"
      /\ s[4] = "write config" /\ s[5] = "unlock planning"
  BY DEF SetConfig
<1>2. /\ ms[1] = "out" /\ ms[2] = "out" /\ ms[3] = "planning" /\ ms[4] = "planning"
      /\ ms[5] = "planning" /\ ms[6] = "out"
  OBVIOUS
<1> HIDE DEF s, ms, X
<1>3. /\ Leads(c, "out", "make scope", "out")
      /\ Leads(c, "out", "lock planning", "planning")
      /\ Leads(c, "planning", "read config", "planning")
      /\ Leads(c, "planning", "write config", "planning")
      /\ Leads(c, "planning", "unlock planning", "out")
  BY CommandsAre DEF Leads, Loose, LateLocking
<1>4. \A i \in 1 .. 5 : Leads(c, ms[i], s[i], ms[i + 1])
  <2>1. /\ Leads(c, ms[1], s[1], ms[2]) /\ Leads(c, ms[2], s[2], ms[3])
        /\ Leads(c, ms[3], s[3], ms[4]) /\ Leads(c, ms[4], s[4], ms[5])
        /\ Leads(c, ms[5], s[5], ms[6])
    BY <1>1, <1>2, <1>3
  <2> QED
    BY <2>1
<1>5. Colouring(c, s, ms)
  BY <1>1, <1>4 DEF Colouring
<1>6. Runs(c, s, ms[1], ms[Len(s) + 1])
  BY <1>1, <1>5, RunsBy
<1>7. Runs(c, s, "out", "out")
  BY <1>1, <1>2, <1>6
<1> QED
  BY <1>7 DEF s

(* ensureConfigFile: config.json is written if it was not there.           *)
LEMMA MakeConfigRuns ==
  ASSUME NEW c \in {"ensure", "profile"}
  PROVE  Runs(c, MakeConfig, "out", "out")
<1> DEFINE s == MakeConfig
           ms == <<"out", "out", "configless", "out">>
           X == {"make scope", "look for config", "write defaults"}
<1>1. /\ s \in Seq(X) /\ Len(s) = 3 /\ Len(s) + 1 = 4
      /\ s[1] = "make scope" /\ s[2] = "look for config" /\ s[3] = "write defaults"
  BY DEF MakeConfig
<1>2. /\ ms[1] = "out" /\ ms[2] = "out" /\ ms[3] = "configless" /\ ms[4] = "out"
  OBVIOUS
<1> HIDE DEF s, ms, X
<1>3. /\ Leads(c, "out", "make scope", "out")
      /\ Leads(c, "out", "look for config", "configless")
      /\ Leads(c, "configless", "write defaults", "out")
  BY CommandsAre DEF Leads, Loose, LateLocking
<1>4. \A i \in 1 .. 3 : Leads(c, ms[i], s[i], ms[i + 1])
  <2>1. /\ Leads(c, ms[1], s[1], ms[2]) /\ Leads(c, ms[2], s[2], ms[3])
        /\ Leads(c, ms[3], s[3], ms[4])
    BY <1>1, <1>2, <1>3
  <2> QED
    BY <2>1
<1>5. Colouring(c, s, ms)
  BY <1>1, <1>4 DEF Colouring
<1>6. Runs(c, s, ms[1], ms[Len(s) + 1])
  BY <1>1, <1>5, RunsBy
<1>7. Runs(c, s, "out", "out")
  BY <1>1, <1>2, <1>6
<1> QED
  BY <1>7 DEF s

(* readModifyWriteStateMd: STATE.md is read and written inside its lock.   *)
LEMMA StateCycleRuns ==
  ASSUME NEW c \in PhaseCommands \ LateLocking
  PROVE  Runs(c, StateCycle, "out", "out")
<1> DEFINE s == StateCycle
           ms == <<"out", "state", "body", "state", "out">>
           X == {"lock state", "read state", "write state", "unlock state"}
<1>1. /\ s \in Seq(X) /\ Len(s) = 4 /\ Len(s) + 1 = 5
      /\ s[1] = "lock state" /\ s[2] = "read state" /\ s[3] = "write state"
      /\ s[4] = "unlock state"
  BY DEF StateCycle
<1>2. /\ ms[1] = "out" /\ ms[2] = "state" /\ ms[3] = "body" /\ ms[4] = "state"
      /\ ms[5] = "out"
  OBVIOUS
<1> HIDE DEF s, ms, X
<1>3. /\ Leads(c, "out", "lock state", "state")
      /\ Leads(c, "state", "read state", "body")
      /\ Leads(c, "body", "write state", "state")
      /\ Leads(c, "state", "unlock state", "out")
  BY CommandsAre DEF Leads, Loose, LateLocking
<1>4. \A i \in 1 .. 4 : Leads(c, ms[i], s[i], ms[i + 1])
  <2>1. /\ Leads(c, ms[1], s[1], ms[2]) /\ Leads(c, ms[2], s[2], ms[3])
        /\ Leads(c, ms[3], s[3], ms[4]) /\ Leads(c, ms[4], s[4], ms[5])
    BY <1>1, <1>2, <1>3
  <2> QED
    BY <2>1
<1>5. Colouring(c, s, ms)
  BY <1>1, <1>4 DEF Colouring
<1>6. Runs(c, s, ms[1], ms[Len(s) + 1])
  BY <1>1, <1>5, RunsBy
<1>7. Runs(c, s, "out", "out")
  BY <1>1, <1>2, <1>6
<1> QED
  BY <1>7 DEF s

(* writeStateMd alone: STATE.md is locked for the write only.              *)
LEMMA LateLockRuns ==
  ASSUME NEW c \in LateLocking
  PROVE  Runs(c, LateLock, "out", "out")
<1> DEFINE s == LateLock
           ms == <<"out", "derived", "late", "late", "out">>
           X == {"derive state", "lock state", "write state", "unlock state"}
<1>1. /\ s \in Seq(X) /\ Len(s) = 4 /\ Len(s) + 1 = 5
      /\ s[1] = "derive state" /\ s[2] = "lock state" /\ s[3] = "write state"
      /\ s[4] = "unlock state"
  BY DEF LateLock
<1>2. /\ ms[1] = "out" /\ ms[2] = "derived" /\ ms[3] = "late" /\ ms[4] = "late"
      /\ ms[5] = "out"
  OBVIOUS
<1> HIDE DEF s, ms, X
<1>3. /\ Leads(c, "out", "derive state", "derived")
      /\ Leads(c, "derived", "lock state", "late")
      /\ Leads(c, "late", "write state", "late")
      /\ Leads(c, "late", "unlock state", "out")
  BY CommandsAre DEF Leads, Loose, LateLocking
<1>4. \A i \in 1 .. 4 : Leads(c, ms[i], s[i], ms[i + 1])
  <2>1. /\ Leads(c, ms[1], s[1], ms[2]) /\ Leads(c, ms[2], s[2], ms[3])
        /\ Leads(c, ms[3], s[3], ms[4]) /\ Leads(c, ms[4], s[4], ms[5])
    BY <1>1, <1>2, <1>3
  <2> QED
    BY <2>1
<1>5. Colouring(c, s, ms)
  BY <1>1, <1>4 DEF Colouring
<1>6. Runs(c, s, ms[1], ms[Len(s) + 1])
  BY <1>1, <1>5, RunsBy
<1>7. Runs(c, s, "out", "out")
  BY <1>1, <1>2, <1>6
<1> QED
  BY <1>7 DEF s

(* Loose steps leave nothing in hand, however many there are.              *)
LEMMA RunsLoose ==
  ASSUME NEW c, NEW s, NEW X, s \in Seq(X), X \subseteq Loose(c)
  PROVE  Runs(c, s, "out", "out")
<1> DEFINE w == [i \in 1 .. Len(s) + 1 |-> "out"]
<1>1. Len(s) \in Nat /\ \A i \in 1 .. Len(s) : s[i] \in X
  OBVIOUS
<1>2. w[1] = "out" /\ w[Len(s) + 1] = "out"
  BY <1>1
<1>3. \A i \in 1 .. Len(s) : w[i] = "out" /\ w[i + 1] = "out"
  BY <1>1
<1> HIDE DEF w
<1>4. \A x \in X : Leads(c, "out", x, "out")
  BY DEF Leads
<1>5. Colouring(c, s, w)
  BY <1>1, <1>3, <1>4 DEF Colouring
<1> QED
  BY <1>2, <1>5, RunsBy

(* No step leads nowhere.                                                  *)
LEMMA RunsNothing == \A c, m : Runs(c, <<>>, m, m)
<1>1. ASSUME NEW c, NEW m PROVE Runs(c, <<>>, m, m)
  <2> DEFINE s == <<>>  w == [i \in {1} |-> m]
  <2>1. s \in Seq({}) /\ Len(s) = 0 /\ Len(s) + 1 = 1 /\ w[1] = m
    OBVIOUS
  <2> HIDE DEF s, w
  <2>2. Colouring(c, s, w)
    BY <2>1 DEF Colouring
  <2>3. Runs(c, s, w[1], w[Len(s) + 1])
    BY <2>1, <2>2, RunsBy
  <2>4. Runs(c, s, m, m)
    BY <2>1, <2>3
  <2> QED
    BY <2>4 DEF s
<1> QED
  BY <1>1

(* ROADMAP.md is read and written inside the lock of .planning; what is    *)
(* done in between keeps the roadmap in hand.                              *)
LEMMA RoadmapCycleRuns ==
  ASSUME NEW c \in PhaseCommands, NEW inside, Runs(c, inside, "roadmap", "roadmap")
  PROVE  Runs(c, RoadmapCycle(inside), "out", "planning")
<1>1. Runs(c, <<"lock planning", "read roadmap">>, "out", "roadmap")
  <2>1. Leads(c, "out", "lock planning", "planning")
    BY DEF Leads
  <2>2. Leads(c, "planning", "read roadmap", "roadmap")
    BY DEF Leads
  <2> QED
    BY <2>1, <2>2, RunsTwo
<1>2. Runs(c, <<"write roadmap">>, "roadmap", "planning")
  <2>1. Leads(c, "roadmap", "write roadmap", "planning")
    BY DEF Leads
  <2> QED
    BY <2>1, RunsStep
<1>3. Runs(c, <<"lock planning", "read roadmap">> \o inside, "out", "roadmap")
  BY <1>1, RunsJoin
<1>4. Runs(c, (<<"lock planning", "read roadmap">> \o inside) \o <<"write roadmap">>,
           "out", "planning")
  BY <1>2, <1>3, RunsJoin
<1> QED
  BY <1>4 DEF RoadmapCycle

(* The end of a cycle.                                                     *)
LEMMA UnlockRuns == \A c : Runs(c, Unlock, "planning", "out")
<1>1. \A c : Leads(c, "planning", "unlock planning", "out")
  BY DEF Leads
<1> QED
  BY <1>1, RunsStep DEF Unlock

(* A cycle of ROADMAP.md and its unlock; without a step in between, or     *)
(* with the directory that is made.                                        *)
LEMMA WholeCycleRuns ==
  ASSUME NEW c \in PhaseCommands
  PROVE  /\ Runs(c, RoadmapCycle(<<>>), "out", "planning")
         /\ Runs(c, RoadmapCycle(<<>>) \o Unlock, "out", "out")
         /\ Runs(c, RoadmapCycle(<<"make directory">>) \o Unlock, "out", "out")
<1>1. Runs(c, RoadmapCycle(<<>>), "out", "planning")
  BY RunsNothing, RoadmapCycleRuns
<1>2. Runs(c, <<"make directory">>, "roadmap", "roadmap")
  <2>1. Leads(c, "roadmap", "make directory", "roadmap")
    BY DEF Leads
  <2> QED
    BY <2>1, RunsStep
<1>3. Runs(c, RoadmapCycle(<<"make directory">>), "out", "planning")
  BY <1>2, RoadmapCycleRuns
<1> QED
  BY <1>1, <1>3, UnlockRuns, RunsJoin

(* REQUIREMENTS.md is read and written in or out of the lock.              *)
LEMMA RequirementsRuns ==
  ASSUME NEW c \in {"complete", "requirements"},
         NEW m, m = IF c = "complete" THEN "planning" ELSE "out"
  PROVE  Runs(c, <<"read requirements", "write requirements">>, m, m)
<1>1. Leads(c, m, "read requirements", m) /\ Leads(c, m, "write requirements", m)
  BY DEF Leads
<1> QED
  BY <1>1, RunsTwo

(* state prune: the cutoff, STATE.md inside its lock, and the archive.     *)
LEMMA PruneCycleRuns ==
  ASSUME NEW c \in {"complete", "prune"}
  PROVE  Runs(c, PruneCycle, "out", "out")
<1>1. c \in PhaseCommands \ LateLocking
  BY CommandsAre DEF LateLocking
<1>2. Runs(c, <<"read cutoff">>, "out", "out")
  <2>1. Leads(c, "out", "read cutoff", "out")
    BY <1>1 DEF Leads, Loose
  <2> QED
    BY <2>1, RunsStep
<1>3. Runs(c, <<"read cutoff">> \o StateCycle, "out", "out")
  BY <1>1, <1>2, StateCycleRuns, RunsJoin
<1>4. Runs(c, <<"read archive", "write archive">>, "out", "out")
  <2>1. Leads(c, "out", "read archive", "filed") /\ Leads(c, "filed", "write archive", "out")
    BY DEF Leads
  <2> QED
    BY <2>1, RunsTwo
<1>5. Runs(c, (<<"read cutoff">> \o StateCycle) \o <<"read archive", "write archive">>,
           "out", "out")
  BY <1>3, <1>4, RunsJoin
<1> QED
  BY <1>5 DEF PruneCycle

(* What the session key points to is looked up, and healed.                *)
LEMMA RoutingRuns == \A c \in SpaceCommands : Runs(c, Routing, "out", "out")
<1>1. \A c \in SpaceCommands :
        Leads(c, "out", "route", "routed") /\ Leads(c, "routed", "heal", "out")
  BY DEF Leads
<1> QED
  BY <1>1, RunsTwo DEF Routing

(* A config.json that is migrated or repaired is emptied and filled.       *)
LEMMA RewriteRuns == \A c \in {"load", "health"} : Runs(c, Rewrite, "out", "out")
<1>1. \A c \in {"load", "health"} :
        Leads(c, "out", "truncate config", "emptied") /\ Leads(c, "emptied", "fill config", "out")
  BY DEF Leads
<1> QED
  BY <1>1, RunsTwo DEF Rewrite

(* gsd-oc-tools: the two files it writes.                                  *)
LEMMA SaveProfileRuns == \A c \in ProfileCommands : Runs(c, SaveProfile, "out", "out")
<1> DEFINE X == {"back up oc", "empty oc", "fill oc"}
<1>1. SaveProfile \in Seq(X)
  BY DEF SaveProfile
<1>2. \A c \in ProfileCommands : X \subseteq Loose(c)
  BY DEF Loose
<1> HIDE DEF X
<1> QED
  BY <1>1, <1>2, RunsLoose

(* The same for opencode.json.                                             *)
LEMMA ApplyProfileRuns == \A c \in ProfileCommands : Runs(c, ApplyProfile, "out", "out")
<1> DEFINE X == {"read profile", "read opencode", "empty opencode", "fill opencode", "restore"}
<1>1. ApplyProfile \in Seq(X)
  BY DEF ApplyProfile
<1>2. \A c \in ProfileCommands : X \subseteq Loose(c)
  BY DEF Loose
<1> HIDE DEF X
<1> QED
  BY <1>1, <1>2, RunsLoose

(* Every command on the phases goes from nothing in hand to nothing.       *)
LEMMA PhaseProgramsRun == \A c \in PhaseCommands : Runs(c, PhaseProgram[c], "out", "out")
<1> DEFINE Fine(c) == Runs(c, PhaseProgram[c], "out", "out")
<1>1. \A c \in {"add", "insert"} : Fine(c)
  <2>1. /\ PhaseProgram["add"] = RoadmapCycle(<<"make directory">>) \o Unlock
        /\ PhaseProgram["insert"] = RoadmapCycle(<<"make directory">>) \o Unlock
    BY DEF PhaseProgram
  <2> QED
    BY <2>1, CommandsAre, WholeCycleRuns
<1>2. \A c \in {"progress", "annotate"} : Fine(c)
  <2>1. /\ PhaseProgram["progress"] = (<<"find phase">> \o RoadmapCycle(<<>>)) \o Unlock
        /\ PhaseProgram["annotate"] = (<<"find phase">> \o RoadmapCycle(<<>>)) \o Unlock
    BY DEF PhaseProgram
  <2>2. \A c \in {"progress", "annotate"} : Runs(c, <<"find phase">>, "out", "out")
    BY CommandsAre, RunsStep DEF Leads, Loose
  <2>3. \A c \in {"progress", "annotate"} :
          Runs(c, <<"find phase">> \o RoadmapCycle(<<>>), "out", "planning")
    BY <2>2, CommandsAre, WholeCycleRuns, RunsJoin
  <2> QED
    BY <2>1, <2>3, UnlockRuns, RunsJoin
<1>3. Fine("remove")
  <2> DEFINE X == {"find phase", "delete directory", "list directories", "rename directory"}
             s == <<"find phase", "delete directory", "list directories", "rename directory">>
  <2>1. PhaseProgram["remove"] = ((s \o RoadmapCycle(<<>>)) \o Unlock) \o StateCycle
    BY DEF PhaseProgram
  <2>2. Runs("remove", s, "out", "out")
    <3>1. s \in Seq(X)
      OBVIOUS
    <3>2. X \subseteq Loose("remove")
      BY CommandsAre DEF Loose
    <3> HIDE DEF s, X
    <3> QED
      BY <3>1, <3>2, RunsLoose
  <2> HIDE DEF s
  <2>3. Runs("remove", s \o RoadmapCycle(<<>>), "out", "planning")
    BY <2>2, CommandsAre, WholeCycleRuns, RunsJoin
  <2>4. Runs("remove", (s \o RoadmapCycle(<<>>)) \o Unlock, "out", "out")
    BY <2>3, UnlockRuns, RunsJoin
  <2>5. "remove" \in PhaseCommands \ LateLocking
    BY CommandsAre DEF LateLocking
  <2> QED
    BY <2>1, <2>4, <2>5, StateCycleRuns, RunsJoin
<1>4. Fine("complete")
  <2> DEFINE a == <<"find phase">> \o RoadmapCycle(<<>>)
             b == a \o <<"read requirements", "write requirements">>
             d == b \o Unlock
             e == d \o <<"find next">>
             f == e \o StateCycle
  <2>1. PhaseProgram["complete"] = f \o PruneCycle
    BY DEF PhaseProgram
  <2>2. "complete" \in PhaseCommands \ LateLocking
    BY CommandsAre DEF LateLocking
  <2>3. Runs("complete", <<"find phase">>, "out", "out")
        /\ Runs("complete", <<"find next">>, "out", "out")
    BY <2>2, RunsStep DEF Leads, Loose
  <2>4. Runs("complete", a, "out", "planning")
    BY <2>2, <2>3, WholeCycleRuns, RunsJoin
  <2>5. Runs("complete", b, "out", "planning")
    BY <2>2, <2>4, RequirementsRuns, RunsJoin
  <2>6. Runs("complete", d, "out", "out")
    BY <2>5, UnlockRuns, RunsJoin
  <2>7. Runs("complete", e, "out", "out")
    BY <2>3, <2>6, RunsJoin
  <2>8. Runs("complete", f, "out", "out")
    BY <2>2, <2>7, StateCycleRuns, RunsJoin
  <2> QED
    BY <2>1, <2>8, PruneCycleRuns, RunsJoin
<1>5. Fine("requirements")
  BY CommandsAre, RequirementsRuns DEF PhaseProgram
<1>6. \A c \in {"begin", "advance", "decide", "block", "resolve", "measure", "session"} : Fine(c)
  <2> DEFINE C == {"begin", "advance", "decide", "block", "resolve", "measure", "session"}
  <2>1. /\ PhaseProgram["begin"] = StateCycle /\ PhaseProgram["advance"] = StateCycle
        /\ PhaseProgram["decide"] = StateCycle /\ PhaseProgram["block"] = StateCycle
        /\ PhaseProgram["resolve"] = StateCycle /\ PhaseProgram["measure"] = StateCycle
        /\ PhaseProgram["session"] = StateCycle
    BY DEF PhaseProgram
  <2>2. C \subseteq PhaseCommands \ LateLocking
    BY CommandsAre DEF LateLocking
  <2> QED
    BY <2>1, <2>2, StateCycleRuns
<1>7. Fine("update")
  <2>1. PhaseProgram["update"] = <<"scan">> \o StateCycle
    BY DEF PhaseProgram
  <2>2. "update" \in PhaseCommands \ LateLocking
    BY CommandsAre DEF LateLocking
  <2>3. Runs("update", <<"scan">>, "out", "out")
    BY <2>2, RunsStep DEF Leads, Loose
  <2> QED
    BY <2>1, <2>2, <2>3, StateCycleRuns, RunsJoin
<1>8. Fine("prune")
  BY PruneCycleRuns DEF PhaseProgram
<1>9. \A c \in {"planned", "sync"} : Fine(c)
  <2>1. /\ PhaseProgram["planned"] = <<"read state">> \o LateLock
        /\ PhaseProgram["sync"] = <<"read state">> \o LateLock
    BY DEF PhaseProgram
  <2>2. \A c \in {"planned", "sync"} : c \in LateLocking
    BY DEF LateLocking
  <2>3. \A c \in {"planned", "sync"} : Runs(c, <<"read state">>, "out", "out")
    BY <2>2, RunsStep DEF Leads
  <2> QED
    BY <2>1, <2>2, <2>3, LateLockRuns, RunsJoin
<1>10. Fine("milestone")
  <2> DEFINE a == <<"scan", "read state">> \o LateLock
  <2>1. PhaseProgram["milestone"] = a \o <<"archive directories">>
    BY DEF PhaseProgram
  <2>2. "milestone" \in LateLocking /\ "milestone" \in PhaseCommands
    BY CommandsAre DEF LateLocking
  <2>3. Runs("milestone", <<"scan", "read state">>, "out", "out")
    <3>1. Leads("milestone", "out", "scan", "out") /\ Leads("milestone", "out", "read state", "out")
      BY <2>2 DEF Leads, Loose
    <3> QED
      BY <3>1, RunsTwo
  <2>4. Runs("milestone", a, "out", "out")
    BY <2>2, <2>3, LateLockRuns, RunsJoin
  <2>5. Runs("milestone", <<"archive directories">>, "out", "out")
    BY <2>2, RunsStep DEF Leads, Loose
  <2> QED
    BY <2>1, <2>4, <2>5, RunsJoin
<1>11. Fine("clear") /\ Fine("execute") /\ Fine("manage")
  <2>1. /\ PhaseProgram["clear"] = <<"clear directories">>
        /\ PhaseProgram["execute"] = <<"write summary">>
        /\ PhaseProgram["manage"] = <<"manage">>
    BY DEF PhaseProgram
  <2>2. /\ Leads("clear", "out", "clear directories", "out")
        /\ Leads("execute", "out", "write summary", "out")
        /\ Leads("manage", "out", "manage", "out")
    BY CommandsAre DEF Leads, Loose
  <2> QED
    BY <2>1, <2>2, RunsStep
<1> HIDE DEF Fine
<1>12. \A c \in PhaseCommands : Fine(c)
  BY <1>1, <1>2, <1>3, <1>4, <1>5, <1>6, <1>7, <1>8, <1>9, <1>10, <1>11, CommandsAre
<1> QED
  BY <1>12 DEF Fine

(* The programs of PlanningSpace.                                          *)
LEMMA SpaceProgramsRun == \A c \in SpaceCommands : Runs(c, SpaceProgram[c], "out", "out")
<1> DEFINE Fine(c) == Runs(c, SpaceProgram[c], "out", "out")
<1>1. Fine("create")
  BY CreateRuns
<1>2. Fine("finish")
  <2> DEFINE X == {"look for stream", "unpoint", "pick archive", "make archive",
                   "list entries", "move", "undo", "discard", "point",
                   "remove stream", "drop workstreams"}
  <2>1. SpaceProgram["finish"] \in Seq(X)
    BY DEF SpaceProgram
  <2>2. X \subseteq Loose("finish")
    BY DEF Loose
  <2> HIDE DEF X
  <2> QED
    BY <2>1, <2>2, RunsLoose
<1>3. Fine("switch")
  <2>1. SpaceProgram["switch"] \in Seq({"look for stream", "point"})
    BY DEF SpaceProgram
  <2>2. {"look for stream", "point"} \subseteq Loose("switch")
    BY DEF Loose
  <2> QED
    BY <2>1, <2>2, RunsLoose
<1>4. Fine("ensure")
  <2>1. SpaceProgram["ensure"] = Routing \o MakeConfig
    BY DEF SpaceProgram
  <2> QED
    BY <2>1, CommandsAre, RoutingRuns, MakeConfigRuns, RunsJoin
<1>5. Fine("new")
  <2> DEFINE X == {"look for config", "make scope", "write defaults"}
             s == <<"look for config", "make scope", "write defaults">>
  <2>1. SpaceProgram["new"] = Routing \o s
    BY DEF SpaceProgram
  <2>5. s \in Seq(X)
    OBVIOUS
  <2>2. X \subseteq Loose("new")
    BY DEF Loose
  <2> HIDE DEF X, s
  <2>3. Runs("new", s, "out", "out")
    BY <2>2, <2>5, RunsLoose
  <2> QED
    BY <2>1, <2>3, CommandsAre, RoutingRuns, RunsJoin
<1>6. Fine("profile")
  <2>1. SpaceProgram["profile"] = (Routing \o MakeConfig) \o SetConfig
    BY DEF SpaceProgram
  <2>2. Runs("profile", Routing \o MakeConfig, "out", "out")
    BY CommandsAre, RoutingRuns, MakeConfigRuns, RunsJoin
  <2> QED
    BY <2>1, <2>2, SetConfigRuns, RunsJoin
<1>7. Fine("set")
  <2>1. SpaceProgram["set"] = Routing \o SetConfig
    BY DEF SpaceProgram
  <2> QED
    BY <2>1, CommandsAre, RoutingRuns, SetConfigRuns, RunsJoin
<1>8. Fine("load")
  <2>1. SpaceProgram["load"] = (Routing \o <<"load config">>) \o Rewrite
    BY DEF SpaceProgram
  <2>2. Runs("load", <<"load config">>, "out", "out")
    BY RunsStep DEF Leads, Loose
  <2>3. Runs("load", Routing \o <<"load config">>, "out", "out")
    BY <2>2, CommandsAre, RoutingRuns, RunsJoin
  <2> QED
    BY <2>1, <2>3, RewriteRuns, RunsJoin
<1>9. Fine("health")
  <2> DEFINE s == <<"inspect", "back up state", "lock state", "regenerate state",
                    "unlock state", "repair">>
  <2>1. SpaceProgram["health"] = (Routing \o s) \o Rewrite
    BY DEF SpaceProgram
  <2>2. Runs("health", s, "out", "out")
    BY HealthRuns
  <2> HIDE DEF s
  <2>3. Runs("health", Routing \o s, "out", "out")
    BY <2>2, CommandsAre, RoutingRuns, RunsJoin
  <2> QED
    BY <2>1, <2>3, RewriteRuns, RunsJoin
<1> HIDE DEF Fine
<1>10. \A c \in SpaceCommands : Fine(c)
  BY <1>1, <1>2, <1>3, <1>4, <1>5, <1>6, <1>7, <1>8, <1>9, CommandsAre
<1> QED
  BY <1>10 DEF Fine

(* The programs of ProfileTool.                                            *)
LEMMA ProfileProgramsRun ==
  \A c \in ProfileCommands : Runs(c, ProfileProgram[c], "out", "out")
<1> DEFINE Fine(c) == Runs(c, ProfileProgram[c], "out", "out")
<1>1. Fine("inline")
  <2> DEFINE X == {"fetch catalog", "read profiles"}
             s == <<"fetch catalog", "read profiles">>
  <2>1. ProfileProgram["inline"] = (s \o SaveProfile) \o ApplyProfile
    BY DEF ProfileProgram
  <2>5. s \in Seq(X)
    OBVIOUS
  <2>2. X \subseteq Loose("inline")
    BY CommandsAre DEF Loose
  <2> HIDE DEF X, s
  <2>3. Runs("inline", s, "out", "out")
    BY <2>2, <2>5, RunsLoose
  <2>4. Runs("inline", s \o SaveProfile, "out", "out")
    BY <2>3, CommandsAre, SaveProfileRuns, RunsJoin
  <2> QED
    BY <2>1, <2>4, CommandsAre, ApplyProfileRuns, RunsJoin
<1>2. Fine("pick")
  <2> DEFINE X == {"look at profile", "read profiles", "fetch catalog"}
             s == <<"look at profile", "read profiles", "fetch catalog">>
  <2>1. ProfileProgram["pick"] = (s \o SaveProfile) \o ApplyProfile
    BY DEF ProfileProgram
  <2>5. s \in Seq(X)
    OBVIOUS
  <2>2. X \subseteq Loose("pick")
    BY CommandsAre DEF Loose
  <2> HIDE DEF X, s
  <2>3. Runs("pick", s, "out", "out")
    BY <2>2, <2>5, RunsLoose
  <2>4. Runs("pick", s \o SaveProfile, "out", "out")
    BY <2>3, CommandsAre, SaveProfileRuns, RunsJoin
  <2> QED
    BY <2>1, <2>4, CommandsAre, ApplyProfileRuns, RunsJoin
<1>3. Fine("rewrite")
  <2> DEFINE X == {"look at opencode", "read profiles", "back up opencode"}
             s == <<"look at opencode", "read profiles", "back up opencode">>
  <2>1. ProfileProgram["rewrite"] = s \o ApplyProfile
    BY DEF ProfileProgram
  <2>5. s \in Seq(X)
    OBVIOUS
  <2>2. X \subseteq Loose("rewrite")
    BY CommandsAre DEF Loose
  <2> HIDE DEF X, s
  <2>3. Runs("rewrite", s, "out", "out")
    BY <2>2, <2>5, RunsLoose
  <2> QED
    BY <2>1, <2>3, CommandsAre, ApplyProfileRuns, RunsJoin
<1>4. Fine("allow")
  <2> DEFINE X == {"read permission", "back up opencode", "empty opencode",
                   "fill opencode", "restore"}
  <2>1. ProfileProgram["allow"] \in Seq(X)
    BY DEF ProfileProgram
  <2>2. X \subseteq Loose("allow")
    BY CommandsAre DEF Loose
  <2> HIDE DEF X
  <2> QED
    BY <2>1, <2>2, RunsLoose
<1> HIDE DEF Fine
<1>5. \A c \in ProfileCommands : Fine(c)
  BY <1>1, <1>2, <1>3, <1>4, CommandsAre
<1> QED
  BY <1>5 DEF Fine

(* The programs of KnowledgeStore.                                         *)
LEMMA KnowledgeProgramsRun ==
  \A c \in KnowledgeCommands : Runs(c, KnowledgeProgram[c], "out", "out")
<1> DEFINE Fine(c) == Runs(c, KnowledgeProgram[c], "out", "out")
<1>1. Fine("copy")
  <2> DEFINE X == {"scan library", "read learning", "create learning", "fill learning"}
  <2>1. KnowledgeProgram["copy"] \in Seq(X)
    BY DEF KnowledgeProgram
  <2>2. X \subseteq Loose("copy")
    BY DEF Loose
  <2> HIDE DEF X
  <2> QED
    BY <2>1, <2>2, RunsLoose
<1>2. Fine("purge")
  <2> DEFINE X == {"list old", "look at old", "unlink learning"}
  <2>1. KnowledgeProgram["purge"] \in Seq(X)
    BY DEF KnowledgeProgram
  <2>2. X \subseteq Loose("purge")
    BY DEF Loose
  <2> HIDE DEF X
  <2> QED
    BY <2>1, <2>2, RunsLoose
<1>3. Fine("forget")
  <2> DEFINE X == {"find learning", "unlink learning"}
  <2>1. KnowledgeProgram["forget"] \in Seq(X)
    BY DEF KnowledgeProgram
  <2>2. X \subseteq Loose("forget")
    BY DEF Loose
  <2> HIDE DEF X
  <2> QED
    BY <2>1, <2>2, RunsLoose
<1> HIDE DEF Fine
<1>4. \A c \in KnowledgeCommands : Fine(c)
  BY <1>1, <1>2, <1>3, CommandsAre
<1> QED
  BY <1>4 DEF Fine

(* Every program begins and ends with nothing in hand.                     *)
LEMMA ProgramsRun == \A c \in Commands : Runs(c, Program[c], "out", "out")
<1>1. /\ \A c \in PhaseCommands : Program[c] = PhaseProgram[c]
      /\ \A c \in SpaceCommands : Program[c] = SpaceProgram[c]
      /\ \A c \in ProfileCommands : Program[c] = ProfileProgram[c]
      /\ \A c \in KnowledgeCommands : Program[c] = KnowledgeProgram[c]
  <2>1. /\ SpaceCommands \cap PhaseCommands = {}
        /\ ProfileCommands \cap PhaseCommands = {} /\ ProfileCommands \cap SpaceCommands = {}
    BY CommandsAre
  <2>2. /\ KnowledgeCommands \cap PhaseCommands = {}
        /\ KnowledgeCommands \cap SpaceCommands = {}
        /\ KnowledgeCommands \cap ProfileCommands = {}
    BY CommandsAre
  <2> QED
    BY <2>1, <2>2 DEF Program, Commands
<1> QED
  BY <1>1, PhaseProgramsRun, SpaceProgramsRun, ProfileProgramsRun, KnowledgeProgramsRun
     DEF Commands

Modes(c) ==
  CHOOSE w : w[1] = "out" /\ w[Len(Program[c]) + 1] = "out" /\ Colouring(c, Program[c], w)

Mode(p) == Modes(Cmd(p).name)[run[p].at]

(* The modes chosen for a command are those its steps lead through.        *)
LEMMA ModesAre ==
  ASSUME NEW c \in Commands
  PROVE  /\ Len(Program[c]) \in Nat
         /\ Modes(c)[1] = "out" /\ Modes(c)[Len(Program[c]) + 1] = "out"
         /\ \A i \in 1 .. Len(Program[c]) :
              Leads(c, Modes(c)[i], Program[c][i], Modes(c)[i + 1])
<1>1. Runs(c, Program[c], "out", "out")
  BY ProgramsRun
<1>2. Len(Program[c]) \in Nat
  <2>1. PICK X : Program[c] \in Seq(X)
    BY <1>1 DEF Runs
  <2> QED
    BY <2>1
<1>3. \E w : w[1] = "out" /\ w[Len(Program[c]) + 1] = "out" /\ Colouring(c, Program[c], w)
  BY <1>1 DEF Runs
<1>4. Modes(c)[1] = "out" /\ Modes(c)[Len(Program[c]) + 1] = "out"
      /\ Colouring(c, Program[c], Modes(c))
  BY <1>3 DEF Modes
<1> QED
  BY <1>2, <1>4 DEF Colouring

-----------------------------------------------------------------------------
(***************************************************************************)
(* The calls and the locks as they can be.                                 *)
(***************************************************************************)
Fields == DOMAIN ToCall(Nothing)
Scopes == {"planning"} \cup Streams

CallFormed(p) ==
  /\ DOMAIN run[p] = Fields
  /\ run[p].at \in Nat
  /\ run[p].scope \in Scopes
  /\ Started(p) => Cmd(p) # Nothing /\ run[p].at <= Len(Steps(p)) + 1
  /\ Cmd(p) # Nothing =>
       /\ Cmd(p).name \in Commands
       /\ Cmd(p).name \in PhaseCommands => run[p].scope = "planning"
       /\ Cmd(p).name \in SpaceCommands =>
            /\ Cmd(p).stream \in Streams \cup {Nothing} /\ Cmd(p).key \in DOMAIN pointer
            /\ Cmd(p).into \in Streams \cup {Nothing}
            /\ Cmd(p).name \in Movers => Cmd(p).stream \in Streams

Formed ==
  /\ DOMAIN run = Procs /\ \A p \in Procs : CallFormed(p)
  /\ DOMAIN lock = Locks /\ \A l \in Locks : lock[l] \in Procs \cup {Nobody, Stray}
  /\ \A k \in DOMAIN pointer : pointer[k] \in Streams \cup {Nothing}

(* workstream create moves a file only if there is one left to move.       *)
LooksFirst ==
  \A p \in Procs : Started(p) /\ Mode(p) = "looked" => run[p].todo # <<>>

(* The fields of a process.                                                *)
LEMMA FieldsAre ==
  {"cmd", "at", "tries", "stale", "forced", "text", "dirs", "num", "body", "ticked",
   "cutoff", "cut", "filed", "scope", "copy", "todo", "moved", "was", "kept"} = Fields
BY DEF Fields, ToCall

(* A step of p that goes on at the step i, and keeps what the locks need.  *)
Changes(p, i) ==
  /\ DOMAIN run' = Procs /\ \A q \in Procs \ {p} : run'[q] = run[q]
  /\ DOMAIN run'[p] = Fields
  /\ run'[p].at = i /\ run'[p].cmd = run[p].cmd
  /\ run'[p].forced = run[p].forced

(* What the moves of a process change.  On to the next step.               *)
LEMMA GoChanges ==
  ASSUME Formed, NEW p \in Procs, Go(p)
  PROVE  Changes(p, run[p].at + 1) /\ run'[p].scope = run[p].scope
BY FieldsAre DEF Formed, CallFormed, Go, Changes

(* On, with a result in a field.                                           *)
LEMMA GoWithChanges ==
  ASSUME Formed, NEW p \in Procs, NEW f, NEW v,
         f \in Fields \ {"at", "cmd", "forced", "scope"}, GoWith(p, f, v)
  PROVE  Changes(p, run[p].at + 1) /\ run'[p].scope = run[p].scope /\ run'[p][f] = v
BY FieldsAre DEF Formed, CallFormed, GoWith, Changes

(* To the end of the program.                                              *)
LEMMA StopChanges ==
  ASSUME Formed, NEW p \in Procs, Stop(p)
  PROVE  Changes(p, Len(Steps(p)) + 1) /\ run'[p].scope = run[p].scope
BY FieldsAre DEF Formed, CallFormed, Stop, Changes

(* To a step, by its name.                                                 *)
LEMMA GoToChanges ==
  ASSUME Formed, NEW p \in Procs, NEW x, GoTo(p, x)
  PROVE  Changes(p, StepNo(p, x)) /\ run'[p].scope = run[p].scope
BY FieldsAre DEF Formed, CallFormed, GoTo, Changes

(* The step p is at, and the modes around it.                              *)
LEMMA StepLeads ==
  ASSUME Formed, NEW p \in Procs, Running(p)
  PROVE  /\ Cmd(p).name \in Commands /\ run[p].at \in 1 .. Len(Steps(p))
         /\ Len(Steps(p)) \in Nat
         /\ Leads(Cmd(p).name, Mode(p), Steps(p)[run[p].at],
                  Modes(Cmd(p).name)[run[p].at + 1])
<1> DEFINE c == Cmd(p).name
<1>1. c \in Commands /\ run[p].at \in Nat /\ run[p].at > 0
      /\ run[p].at <= Len(Program[c])
  BY DEF Formed, CallFormed, Running, Started, Steps, Cmd
<1>2. Len(Program[c]) \in Nat
  BY <1>1, ModesAre
<1>3. run[p].at \in 1 .. Len(Program[c])
  BY <1>1, <1>2
<1>4. Leads(c, Modes(c)[run[p].at], Program[c][run[p].at], Modes(c)[run[p].at + 1])
  BY <1>1, <1>3, ModesAre
<1> QED
  BY <1>1, <1>2, <1>3, <1>4 DEF Mode, Steps, Cmd

-----------------------------------------------------------------------------
(***************************************************************************)
(* What a step of a process does to the locks and to where it is.          *)
(***************************************************************************)
LockSteps   == {"lock planning", "unlock planning", "lock state", "unlock state"}
InsideSteps == {"read roadmap", "make directory", "write roadmap", "read requirements",
                "write requirements", "read config", "write config", "read state",
                "write state", "regenerate state"}

Now(p)     == Steps(p)[run[p].at]
NewMode(p) == Modes(Cmd(p).name)[run'[p].at]

(* The call is in the part of its program that wants the lock.             *)
Inside(p, l) ==
  /\ Started(p)
  /\ IF l = "state" THEN Mode(p) \in StateModes
                    ELSE l = run[p].scope /\ Mode(p) \in PlanningModes

(* The locks of workstreams may go, or come back as nobody's; the other    *)
(* two can only come to be nobody's.                                       *)
LocksShrink ==
  /\ DOMAIN lock' = Locks
  /\ \A l \in Locks : lock'[l] \in {lock[l], Nobody, Stray}
  /\ \A l \in {"planning", "state"} : lock[l] # Nobody => lock'[l] = lock[l]

(* It goes on, it moves about outside of the locks, or it ends inside one, *)
(* which it unlinks.                                                       *)
Onward(p) ==
  /\ run'[p].at = run[p].at + 1 /\ run'[p].scope = run[p].scope
  /\ lock' = lock /\ usurped' = usurped /\ Now(p) \notin LockSteps
Outside(p) ==
  /\ Mode(p) \notin Guarded /\ NewMode(p) \notin Guarded
  /\ run'[p].at \in 1 .. Len(Steps(p)) + 1
  /\ run'[p].scope \in Scopes
  /\ Cmd(p).name \in PhaseCommands => run'[p].scope = run[p].scope
  /\ LocksShrink /\ usurped' = usurped
Exit(p) ==
  /\ run'[p].at = Len(Steps(p)) + 1 /\ run'[p].scope = run[p].scope
  /\ \E l \in {"state", run[p].scope} : Inside(p, l) /\ Unlinked(p, l)

Local(p) ==
  /\ Changes(p, run'[p].at)
  /\ Onward(p) \/ Outside(p) \/ Exit(p)
  /\ NewMode(p) = "looked" => run'[p].todo # <<>>
  /\ killed' = killed

(* The modes of a step, from its name.                                     *)
LEMMA StepsInside ==
  ASSUME NEW c \in Commands, NEW m, NEW x, NEW n, Leads(c, m, x, n), x \notin LockSteps
  PROVE  /\ \/ m \in PlanningModes /\ n \in PlanningModes
            \/ m \in StateModes /\ n \in StateModes
            \/ m \notin Guarded /\ n \notin Guarded
         /\ x \notin InsideSteps => m \notin Guarded /\ n \notin Guarded
         /\ n \in {"roadmap"} => x \in {"read roadmap", "make directory"}
         /\ n \in {"body"} => x = "read state"
         /\ n \in {"looked"} => x = "look"
BY DEF Leads, LockSteps, InsideSteps, PlanningModes, StateModes, Guarded

(* A step that leaves the locks alone.                                     *)
LocksStay == lock' = lock /\ killed' = killed /\ usurped' = usurped

(* A step that goes on and leaves the locks alone is local.                *)
LEMMA GoesOn ==
  ASSUME Formed, NEW p \in Procs, Running(p), Now(p) \notin LockSteps, LocksStay,
         Changes(p, run[p].at + 1), run'[p].scope = run[p].scope,
         Now(p) = "look" => run'[p].todo # <<>>
  PROVE  Local(p)
<1>1. Cmd(p).name \in Commands
      /\ Leads(Cmd(p).name, Mode(p), Now(p), Modes(Cmd(p).name)[run[p].at + 1])
  BY StepLeads DEF Now
<1>2. run'[p].at = run[p].at + 1
  BY DEF Changes
<1>3. NewMode(p) = "looked" => Now(p) = "look"
  BY <1>1, <1>2, StepsInside DEF NewMode
<1> QED
  BY <1>2, <1>3 DEF Local, Onward, LocksStay

(* The modes a step outside the locks begins in and leads to.              *)
LEMMA OutsideOf ==
  ASSUME Formed, NEW p \in Procs, Running(p), Now(p) \notin LockSteps \cup InsideSteps
  PROVE  /\ Mode(p) \notin Guarded
         /\ Mode(p) = "looked" => Now(p) = "move"
<1>1. Cmd(p).name \in Commands
      /\ Leads(Cmd(p).name, Mode(p), Now(p), Modes(Cmd(p).name)[run[p].at + 1])
  BY StepLeads DEF Now
<1>2. Mode(p) \notin Guarded
  BY <1>1, StepsInside
<1>3. Mode(p) = "looked" => Now(p) = "move"
  BY <1>1 DEF Leads
<1> QED
  BY <1>2, <1>3

(* Locks that stay are not taken away.                                     *)
LEMMA LocksStayShrunk == Formed /\ LocksStay => LocksShrink
BY DEF Formed, LocksStay, LocksShrink

(* So is one that ends the call outside of the locks,                      *)
LEMMA StopsOutside ==
  ASSUME Formed, NEW p \in Procs, Running(p), LocksShrink, killed' = killed,
         usurped' = usurped, Mode(p) \notin Guarded, Stop(p)
  PROVE  Local(p)
<1>1. Changes(p, Len(Steps(p)) + 1) /\ run'[p].scope = run[p].scope
  BY StopChanges
<1>2. Len(Steps(p)) \in Nat /\ Cmd(p).name \in Commands
  BY StepLeads
<1>3. NewMode(p) = "out" /\ run'[p].at = Len(Steps(p)) + 1
  BY <1>1, <1>2, ModesAre DEF NewMode, Changes, Steps, Cmd
<1>4. Outside(p)
  BY <1>1, <1>2, <1>3
     DEF Outside, Guarded, PlanningModes, StateModes, Formed, CallFormed
<1> QED
  BY <1>1, <1>3, <1>4 DEF Local

(* as any that is not of the steps inside them,                            *)
LEMMA Stops ==
  ASSUME Formed, NEW p \in Procs, Running(p), LocksStay,
         Now(p) \notin LockSteps \cup InsideSteps, Stop(p)
  PROVE  Local(p)
BY OutsideOf, LocksStayShrunk, StopsOutside DEF LocksStay

(* one that ends mark-complete, which takes no lock,                       *)
LEMMA StopsUnlocked ==
  ASSUME Formed, NEW p \in Procs, Running(p), LocksStay,
         Now(p) = "write requirements", Cmd(p).name # "complete", Stop(p)
  PROVE  Local(p)
<1>1. Mode(p) = "out"
  <2>1. Leads(Cmd(p).name, Mode(p), Now(p), Modes(Cmd(p).name)[run[p].at + 1])
    BY StepLeads DEF Now
  <2> QED
    BY <2>1 DEF Leads, Loose
<1>2. Mode(p) \notin Guarded
  BY <1>1 DEF Guarded, PlanningModes, StateModes
<1> QED
  BY <1>2, LocksStayShrunk, StopsOutside DEF LocksStay

(* one that is tried again there,                                          *)
LEMMA Stays ==
  ASSUME Formed, NEW p \in Procs, Running(p), LocksStay,
         Now(p) \notin LockSteps \cup InsideSteps \cup {"move"},
         Changes(p, run[p].at), run'[p].scope = run[p].scope
  PROVE  Local(p)
<1>1. Mode(p) \notin Guarded /\ Mode(p) # "looked" /\ LocksShrink
      /\ run[p].at \in 1 .. Len(Steps(p)) + 1
  BY OutsideOf, LocksStayShrunk, StepLeads
<1>2. run'[p].at = run[p].at /\ NewMode(p) = Mode(p)
  BY DEF Changes, NewMode, Mode
<1> QED
  BY <1>1, <1>2 DEF Outside, Local, LocksStay, Formed, CallFormed

(* one that goes to another step,                                          *)
LEMMA GoesTo ==
  ASSUME Formed, NEW p \in Procs, Running(p), LocksStay,
         Now(p) \notin LockSteps \cup InsideSteps,
         NEW x, x \notin LockSteps \cup InsideSteps \cup {"move"},
         Contains(Steps(p), x),
         Changes(p, StepNo(p, x)), run'[p].scope = run[p].scope
  PROVE  Local(p)
<1> DEFINE c == Cmd(p).name  j == StepNo(p, x)
<1>1. Mode(p) \notin Guarded /\ LocksShrink /\ Len(Steps(p)) \in Nat /\ c \in Commands
  BY OutsideOf, LocksStayShrunk, StepLeads
<1>2. j \in 1 .. Len(Steps(p)) /\ Steps(p)[j] = x
  <2>1. DOMAIN Steps(p) = 1 .. Len(Steps(p))
    <3>1. \E X : Steps(p) \in Seq(X)
      BY <1>1, ProgramsRun DEF Runs, Steps, Cmd
    <3> QED
      BY <3>1
  <2> QED
    BY <2>1 DEF StepNo, Contains
<1>3. Leads(c, Modes(c)[j], x, Modes(c)[j + 1])
  BY <1>1, <1>2, ModesAre DEF Steps, Cmd
<1>4. Modes(c)[j] \notin Guarded /\ Modes(c)[j] # "looked"
  <2>1. Modes(c)[j] \notin Guarded
    BY <1>1, <1>3, StepsInside
  <2>2. Modes(c)[j] # "looked"
    BY <1>3 DEF Leads
  <2> QED
    BY <2>1, <2>2
<1>5. run'[p].at = j /\ NewMode(p) = Modes(c)[j]
  BY DEF Changes, NewMode
<1>6. Outside(p)
  BY <1>1, <1>2, <1>4, <1>5 DEF Outside, Formed, CallFormed, LocksStay
<1> QED
  BY <1>4, <1>5, <1>6 DEF Local, LocksStay

(* The step after the next one, and the one before.                        *)
LEMMA StepAround ==
  ASSUME Formed, NEW p \in Procs, Running(p)
  PROVE  LET c == Cmd(p).name  i == run[p].at  w == Modes(c) IN
         /\ w[i + 1] \in {"stateless", "configless", "routed"} =>
              i + 2 \in 1 .. Len(Steps(p)) + 1 /\ w[i + 2] = "out"
         /\ w[i] \in {"looked", "emptied"} =>
              i - 1 \in 1 .. Len(Steps(p)) + 1 /\ w[i - 1] = "out"
<1> DEFINE c == Cmd(p).name  i == run[p].at  w == Modes(c)  n == Len(Steps(p))
<1>1. c \in Commands /\ i \in 1 .. n /\ n \in Nat
  BY StepLeads
<1>2. w[1] = "out" /\ w[n + 1] = "out"
      /\ \A k \in 1 .. n : Leads(c, w[k], Steps(p)[k], w[k + 1])
  BY <1>1, ModesAre DEF Steps, Cmd
<1> HIDE DEF c, i, w, n
<1>3. ASSUME w[i + 1] \in {"stateless", "configless", "routed"}
      PROVE  i + 2 \in 1 .. n + 1 /\ w[i + 2] = "out"
  <2>1. i + 1 \in 1 .. n
    BY <1>1, <1>2, <1>3
  <2>2. Leads(c, w[i + 1], Steps(p)[i + 1], w[(i + 1) + 1])
    BY <1>2, <2>1
  <2>3. (i + 1) + 1 = i + 2
    BY <1>1
  <2>4. w[(i + 1) + 1] = "out"
    BY <1>3, <2>2 DEF Leads
  <2> QED
    BY <1>1, <2>1, <2>3, <2>4
<1>4. ASSUME w[i] \in {"looked", "emptied"}
      PROVE  i - 1 \in 1 .. n + 1 /\ w[i - 1] = "out"
  <2>1. i - 1 \in 1 .. n
    BY <1>1, <1>2, <1>4
  <2>2. Leads(c, w[i - 1], Steps(p)[i - 1], w[(i - 1) + 1]) /\ (i - 1) + 1 = i
    BY <1>1, <1>2, <2>1
  <2>3. w[i - 1] = "out"
    BY <1>4, <2>2 DEF Leads
  <2> QED
    BY <1>1, <2>1, <2>3
<1> QED
  BY <1>3, <1>4 DEF c, i, w, n

(* The lock a step is in, from its name.                                   *)
LEMMA StepIsInside ==
  ASSUME Formed, NEW p \in Procs, Running(p)
  PROVE  /\ (\/ Now(p) \in {"read roadmap", "make directory", "write roadmap",
                           "read config", "write config"}
             \/ Now(p) = "write requirements" /\ Cmd(p).name = "complete")
              => Inside(p, run[p].scope)
         /\ Now(p) = "write state" => Inside(p, "state")
<1>1. Leads(Cmd(p).name, Mode(p), Now(p), Modes(Cmd(p).name)[run[p].at + 1])
  BY StepLeads DEF Now
<1>2. run[p].scope # "state" /\ Started(p)
  BY ProcessAssumption DEF Formed, CallFormed, Scopes, Running
<1>3. (\/ Now(p) \in {"read roadmap", "make directory", "write roadmap", "read config",
                     "write config"}
       \/ Now(p) = "write requirements" /\ Cmd(p).name = "complete")
        => Mode(p) \in PlanningModes
  BY <1>1, CommandsAre DEF Leads, Loose, PlanningModes
<1>4. Now(p) = "write state" => Mode(p) \in StateModes
  BY <1>1, CommandsAre DEF Leads, Loose, StateModes
<1> QED
  BY <1>2, <1>3, <1>4 DEF Inside

(* Who ends inside a lock unlinks it: by the hook on exit, or in a finally *)
(* block.                                                                  *)
LEMMA EndsInTheLock ==
  ASSUME Formed, NEW p \in Procs, Running(p), Stop(p), killed' = killed,
         NEW l \in {"state", run[p].scope}, Inside(p, l), Unlinked(p, l)
  PROVE  Local(p)
<1>1. Changes(p, Len(Steps(p)) + 1) /\ run'[p].scope = run[p].scope
  BY StopChanges
<1>2. run'[p].at = Len(Steps(p)) + 1
  BY <1>1 DEF Changes
<1>3. NewMode(p) = "out"
  BY <1>2, StepLeads, ModesAre DEF NewMode, Steps, Cmd
<1> QED
  BY <1>1, <1>2, <1>3 DEF Local, Exit

(* The hook on exit, after the steps inside withPlanningLock.              *)
LEMMA HookEnds ==
  ASSUME Formed, NEW p \in Procs, Running(p), Stop(p), ExitHook(p), killed' = killed,
         \/ Now(p) \in {"read roadmap", "make directory", "write roadmap", "read config",
                       "write config"}
         \/ Now(p) = "write requirements" /\ Cmd(p).name = "complete"
  PROVE  Local(p)
<1>1. Inside(p, run[p].scope)
  BY StepIsInside
<1>2. Unlinked(p, run[p].scope)
  BY DEF ExitHook
<1> QED
  BY <1>1, <1>2, EndsInTheLock

(* one that takes locks away with a directory,                             *)
LEMMA OutsideMoves ==
  ASSUME Formed, NEW p \in Procs, Running(p), LocksShrink, killed' = killed,
         usurped' = usurped, Now(p) \notin LockSteps \cup InsideSteps,
         Changes(p, run'[p].at), run'[p].at \in 1 .. Len(Steps(p)) + 1,
         NewMode(p) = "out",
         \/ run'[p].scope = run[p].scope
         \/ run'[p].scope \in Scopes /\ Cmd(p).name \notin PhaseCommands
  PROVE  Local(p)
<1>1. Mode(p) \notin Guarded
  BY OutsideOf
<1>2. run'[p].scope \in Scopes
  BY DEF Formed, CallFormed
<1> QED
  BY <1>1, <1>2 DEF Local, Outside, Guarded, PlanningModes, StateModes

(* and one that skips what it was to do with what it looked up.            *)
LEMMA Skips ==
  ASSUME Formed, NEW p \in Procs, Running(p), LocksStay, Skip(p),
         Now(p) \notin LockSteps \cup InsideSteps,
         Modes(Cmd(p).name)[run[p].at + 1] \in {"stateless", "configless", "routed"}
  PROVE  Local(p)
<1>1. Changes(p, run[p].at + 2) /\ run'[p].scope = run[p].scope
  BY FieldsAre DEF Formed, CallFormed, Skip, Changes
<1>2. run[p].at + 2 \in 1 .. Len(Steps(p)) + 1 /\ NewMode(p) = "out"
  BY <1>1, StepAround DEF Changes, NewMode
<1>3. run'[p].at = run[p].at + 2 /\ Changes(p, run'[p].at)
  BY <1>1 DEF Changes
<1> QED
  BY <1>1, <1>2, <1>3, LocksStayShrunk, OutsideMoves DEF LocksStay

-----------------------------------------------------------------------------
(***************************************************************************)
(* The steps of the commands, one by one.                                  *)
(***************************************************************************)
LEMMA AtNow ==
  ASSUME NEW p \in Procs, NEW x, At(p, x)
  PROVE  Running(p) /\ Now(p) = x
BY DEF At, Now

(* The two commonest forms of such a step.                                 *)
LEMMA OnlyGoes ==
  ASSUME Formed, NEW p \in Procs, Running(p), LocksStay,
         Now(p) \notin LockSteps \cup {"look"}, Go(p)
  PROVE  Local(p)
BY GoChanges, GoesOn

(* With a result in a field that no lock is about.                         *)
LEMMA GoesWith ==
  ASSUME Formed, NEW p \in Procs, Running(p), LocksStay,
         Now(p) \notin LockSteps \cup {"look"},
         NEW f, NEW v, f \in Fields \ {"at", "cmd", "forced", "scope"}, GoWith(p, f, v)
  PROVE  Local(p)
BY GoWithChanges, GoesOn

(* The fields a step may set without a lock noticing.                      *)
LEMMA FreeFields ==
  {"text", "dirs", "num", "body", "ticked", "cutoff", "cut", "filed", "copy", "todo",
   "moved", "was", "kept"} \subseteq Fields \ {"at", "cmd", "forced", "scope"}
BY FieldsAre

(* The steps of PlanningTool are local.                                    *)
LEMMA PhaseStepIsLocal ==
  ASSUME Formed, NEW p \in Procs, PhaseStep(p)
  PROVE  Local(p)
<1> USE DEF LockSteps, InsideSteps
<1>1. CASE FindPhaseDir(p)
  <2>1. Running(p) /\ Now(p) = "find phase" /\ LocksStay
    BY <1>1, AtNow DEF FindPhaseDir, locks, history, LocksStay
  <2>2. Stop(p) \/ \E d : GoWith(p, "dirs", d)
    BY <1>1 DEF FindPhaseDir
  <2> QED
    BY <2>1, <2>2, Stops, GoesWith, FreeFields
<1>2. CASE DeleteDirectory(p)
  <2>1. Running(p) /\ Now(p) = "delete directory" /\ LocksStay /\ Go(p)
    BY <1>2, AtNow DEF DeleteDirectory, locks, history, LocksStay
  <2> QED
    BY <2>1, OnlyGoes
<1>3. CASE ListDirectories(p)
  <2>1. Running(p) /\ Now(p) = "list directories" /\ LocksStay
    BY <1>3, AtNow DEF ListDirectories, locks, history, LocksStay
  <2>2. \E v : GoWith(p, "dirs", v)
    BY <1>3 DEF ListDirectories
  <2> QED
    BY <2>1, <2>2, GoesWith, FreeFields
<1>4. CASE RenameDirectory(p)
  <2>1. Running(p) /\ Now(p) = "rename directory" /\ LocksStay
    BY <1>4, AtNow DEF RenameDirectory, locks, history, LocksStay
  <2>2. \/ Go(p) \/ GoWith(p, "dirs", {})
        \/ \E v : run' = [run EXCEPT ![p].dirs = v]
    BY <1>4 DEF RenameDirectory
  <2>3. ASSUME NEW v, run' = [run EXCEPT ![p].dirs = v] PROVE Local(p)
    <3>1. Changes(p, run[p].at) /\ run'[p].scope = run[p].scope
      BY <2>3, FieldsAre DEF Formed, CallFormed, Changes
    <3> QED
      BY <2>1, <3>1, Stays
  <2> QED
    BY <2>1, <2>2, <2>3, OnlyGoes, GoesWith, FreeFields
<1>5. CASE MakeDirectory(p)
  <2>1. Running(p) /\ Now(p) = "make directory" /\ LocksStay
    BY <1>5, AtNow DEF MakeDirectory, locks, history, LocksStay
  <2>2. \E v : GoWith(p, "num", v)
    BY <1>5 DEF MakeDirectory
  <2> QED
    BY <2>1, <2>2, GoesWith, FreeFields
<1>6. CASE ClearDirectories(p)
  <2>1. Running(p) /\ Now(p) = "clear directories" /\ LocksStay /\ Go(p)
    BY <1>6, AtNow DEF ClearDirectories, locks, history, LocksStay
  <2> QED
    BY <2>1, OnlyGoes
<1>7. CASE ArchiveDirectories(p)
  <2>1. Running(p) /\ Now(p) = "archive directories" /\ LocksStay /\ Go(p)
    BY <1>7, AtNow DEF ArchiveDirectories, locks, calm, LocksStay
  <2> QED
    BY <2>1, OnlyGoes
<1>8. CASE WriteSummary(p)
  <2>1. Running(p) /\ Now(p) = "write summary" /\ LocksStay /\ Go(p)
    BY <1>8, AtNow DEF WriteSummary, locks, history, LocksStay
  <2> QED
    BY <2>1, OnlyGoes
<1>9. CASE Manage(p)
  <2>1. Running(p) /\ Now(p) = "manage" /\ LocksStay /\ (Go(p) \/ UNCHANGED run)
    BY <1>9, AtNow DEF Manage, locks, history, LocksStay
  <2>2. ASSUME UNCHANGED run PROVE Local(p)
    <3>1. Changes(p, run[p].at) /\ run'[p].scope = run[p].scope
      BY <2>2 DEF Formed, CallFormed, Changes
    <3> QED
      BY <2>1, <3>1, Stays
  <2> QED
    BY <2>1, <2>2, OnlyGoes
<1>10. CASE ReadRoadmap(p)
  <2>1. Running(p) /\ Now(p) = "read roadmap" /\ killed' = killed
    BY <1>10, AtNow DEF ReadRoadmap
  <2>3. (Stop(p) /\ ExitHook(p))
        \/ (GoWith(p, "text", roadmap) /\ UNCHANGED <<locks, usurped>>)
    BY <1>10 DEF ReadRoadmap
  <2>2. ASSUME Stop(p), ExitHook(p) PROVE Local(p)
    BY <2>1, <2>2, HookEnds
  <2> QED
    BY <2>1, <2>2, <2>3, GoesWith, FreeFields DEF locks, LocksStay
<1>11. CASE WriteRoadmap(p)
  <2>1. Running(p) /\ Now(p) = "write roadmap" /\ LocksStay
    BY <1>11, AtNow DEF WriteRoadmap, locks, history, LocksStay
  <2>2. \E v : GoWith(p, "text", v)
    BY <1>11 DEF WriteRoadmap
  <2> QED
    BY <2>1, <2>2, GoesWith, FreeFields
<1>12. CASE ReadRequirements(p)
  <2>1. Running(p) /\ Now(p) = "read requirements" /\ LocksStay
    BY <1>12, AtNow DEF ReadRequirements, locks, history, LocksStay
  <2>2. \E v : GoWith(p, "ticked", v)
    BY <1>12 DEF ReadRequirements
  <2> QED
    BY <2>1, <2>2, GoesWith, FreeFields
<1>13. CASE WriteRequirements(p)
  <2>1. Running(p) /\ Now(p) = "write requirements" /\ LocksStay /\ Go(p)
    BY <1>13, AtNow DEF WriteRequirements, locks, history, LocksStay
  <2> QED
    BY <2>1, OnlyGoes
<1>14. CASE Scan(p)
  <2>1. Running(p) /\ Now(p) = "scan" /\ LocksStay
    BY <1>14, AtNow DEF Scan, locks, history, LocksStay
  <2>2. Changes(p, run[p].at + 1) /\ run'[p].scope = run[p].scope
    BY <1>14, FieldsAre DEF Scan, Formed, CallFormed, Changes
  <2> QED
    BY <2>1, <2>2, GoesOn
<1>15. CASE FindNext(p)
  <2>1. Running(p) /\ Now(p) = "find next" /\ LocksStay
    BY <1>15, AtNow DEF FindNext, locks, history, LocksStay
  <2>2. \E v : GoWith(p, "num", v)
    BY <1>15 DEF FindNext
  <2> QED
    BY <2>1, <2>2, GoesWith, FreeFields
<1>16. CASE ReadState(p)
  <2>1. Running(p) /\ Now(p) = "read state" /\ LocksStay
    BY <1>16, AtNow DEF ReadState, locks, history, LocksStay
  <2>2. \E v : GoWith(p, "body", v)
    BY <1>16 DEF ReadState
  <2> QED
    BY <2>1, <2>2, GoesWith, FreeFields
<1>17. CASE ReadCutoff(p)
  <2>1. Running(p) /\ Now(p) = "read cutoff" /\ LocksStay
    BY <1>17, AtNow DEF ReadCutoff, locks, history, LocksStay
  <2>2. \/ Stop(p)
        \/ run' = [run EXCEPT ![p].at = @ + 1, ![p].cutoff = Cutoff(state, Cmd(p).n)]
    BY <1>17 DEF ReadCutoff
  <2>3. CASE run' = [run EXCEPT ![p].at = @ + 1, ![p].cutoff = Cutoff(state, Cmd(p).n)]
    <3>1. Changes(p, run[p].at + 1) /\ run'[p].scope = run[p].scope
      BY <2>3, FieldsAre DEF Formed, CallFormed, Changes
    <3> QED
      BY <2>1, <3>1, GoesOn
  <2> QED
    BY <2>1, <2>2, <2>3, Stops
<1>18. CASE DeriveState(p)
  <2>1. Running(p) /\ Now(p) = "derive state" /\ LocksStay
    BY <1>18, AtNow DEF DeriveState, locks, history, LocksStay
  <2>2. \E v : GoWith(p, "body", v)
    BY <1>18 DEF DeriveState
  <2> QED
    BY <2>1, <2>2, GoesWith, FreeFields
<1>19. CASE WriteState(p)
  <2>1. Running(p) /\ Now(p) = "write state" /\ LocksStay
    BY <1>19, AtNow DEF WriteState, locks, history, LocksStay
  <2>2. \E v : GoWith(p, "cut", v)
    BY <1>19 DEF WriteState
  <2> QED
    BY <2>1, <2>2, GoesWith, FreeFields
<1>20. CASE ReadArchive(p)
  <2>1. Running(p) /\ Now(p) = "read archive" /\ LocksStay
    BY <1>20, AtNow DEF ReadArchive, locks, history, LocksStay
  <2>2. Stop(p) \/ \E v : GoWith(p, "filed", v)
    BY <1>20 DEF ReadArchive
  <2> QED
    BY <2>1, <2>2, GoesWith, Stops, FreeFields
<1>21. CASE WriteArchive(p)
  <2>1. Running(p) /\ Now(p) = "write archive" /\ LocksStay /\ Go(p)
    BY <1>21, AtNow DEF WriteArchive, locks, history, LocksStay
  <2> QED
    BY <2>1, OnlyGoes
<1>22. CASE RenameFails(p)
  <2>1. Running(p) /\ Now(p) = "rename directory" /\ LocksStay /\ GoWith(p, "dirs", {})
    BY <1>22, AtNow DEF RenameFails, locks, calm, LocksStay
  <2> QED
    BY <2>1, GoesWith, FreeFields
<1>23. CASE MakeDirectoryFails(p) \/ WriteRoadmapFails(p)
  <2>1. /\ Running(p) /\ Now(p) \in {"make directory", "write roadmap"} /\ killed' = killed
        /\ Stop(p) /\ ExitHook(p)
    BY <1>23, AtNow DEF MakeDirectoryFails, WriteRoadmapFails
  <2> QED
    BY <2>1, HookEnds
<1>24. CASE WriteRequirementsFails(p)
  <2>1. /\ Running(p) /\ Now(p) = "write requirements" /\ killed' = killed /\ Stop(p)
        /\ IF Is(p, {"complete"}) THEN ExitHook(p) ELSE UNCHANGED <<locks, usurped>>
    BY <1>24, AtNow DEF WriteRequirementsFails
  <2>2. CASE Is(p, {"complete"})
    <3>1. Cmd(p).name = "complete" /\ ExitHook(p)
      BY <2>1, <2>2 DEF Is
    <3> QED
      BY <2>1, <3>1, HookEnds
  <2>3. CASE ~Is(p, {"complete"})
    <3>1. Cmd(p).name # "complete" /\ LocksStay
      BY <2>1, <2>3 DEF Is, Running, locks, LocksStay
    <3> QED
      BY <2>1, <3>1, StopsUnlocked
  <2> QED
    BY <2>2, <2>3
<1>25. CASE WriteStateFails(p)
  <2>1. Running(p) /\ Now(p) = "write state" /\ killed' = killed /\ Stop(p)
        /\ Unlinked(p, "state")
    BY <1>25, AtNow DEF WriteStateFails
  <2> QED
    BY <2>1, StepIsInside, EndsInTheLock
<1>26. CASE WriteArchiveFails(p)
  <2>1. Running(p) /\ Now(p) = "write archive" /\ LocksStay /\ Stop(p)
    BY <1>26, AtNow DEF WriteArchiveFails, locks, LocksStay
  <2> QED
    BY <2>1, Stops
<1> QED
  BY <1>1, <1>2, <1>3, <1>4, <1>5, <1>6, <1>7, <1>8, <1>9, <1>10, <1>11, <1>12, <1>13,
     <1>14, <1>15, <1>16, <1>17, <1>18, <1>19, <1>20, <1>21, <1>22, <1>23, <1>24, <1>25,
     <1>26 DEF PhaseStep

(* A workstream call's pointers stay pointers.                             *)
PointersStay ==
  /\ DOMAIN pointer' = DOMAIN pointer
  /\ \A k \in DOMAIN pointer' : pointer'[k] \in Streams \cup {Nothing}

(* The steps of PlanningSpace see to that.                                 *)
LEMMA PointersAreKept ==
  ASSUME Formed, NEW p \in Procs, Is(p, SpaceCommands), SpaceStep(p)
  PROVE  PointersStay
<1>1. Cmd(p).stream \in Streams \cup {Nothing} /\ Key(p) \in DOMAIN pointer
  BY DEF Formed, CallFormed, Is, Started, Key
<1>2. \A k \in DOMAIN pointer : pointer[k] \in Streams \cup {Nothing}
  BY DEF Formed
<1>3. CASE UNCHANGED pointer
  BY <1>2, <1>3 DEF PointersStay
<1>4. CASE Heal(p)
  BY <1>1, <1>2, <1>4 DEF Heal, PointersStay
<1>5. CASE Point(p)
  BY <1>1, <1>2, <1>5 DEF Point, PointersStay
<1>6. CASE Unpoint(p)
  BY <1>1, <1>2, <1>6 DEF Unpoint, PointersStay
<1>7. UNCHANGED pointer \/ Heal(p) \/ Point(p) \/ Unpoint(p)
  <2> USE DEF Idle, OnlyTree, space
  <2>1. CASE \/ Route(p) \/ LookForStream(p) \/ LookForMode(p) \/ LookForWork(p)
             \/ LookForTarget(p) \/ MakeTarget(p) \/ PickArchive(p) \/ MakeArchive(p)
             \/ ListEntries(p) \/ Look(p)
    BY <2>1 DEF Route, LookForStream, LookForMode, LookForWork, LookForTarget, MakeTarget,
                PickArchive, MakeArchive, ListEntries, Look
  <2>2. CASE \/ Moved(p) \/ MoveFails(p) \/ AllMoved(p) \/ Undo(p) \/ AllUndone(p)
             \/ Discard(p) \/ RemoveStream(p) \/ DropWorkstreams(p) \/ MakeStream(p)
             \/ LookForState(p) \/ WriteNewState(p)
    BY <2>2 DEF Moved, MoveFails, AllMoved, Undo, AllUndone, Discard, RemoveStream,
                DropWorkstreams, MakeStream, LookForState, WriteNewState
  <2>3. CASE \/ MakeScope(p) \/ LookForConfig(p) \/ WriteDefaults(p) \/ ReadConfig(p)
             \/ WriteConfig(p) \/ ConfigFails(p) \/ LoadConfig(p) \/ TruncateConfig(p)
             \/ FillConfig(p) \/ RewriteFails(p)
             \/ Inspect(p) \/ Repair(p) \/ BackUpState(p) \/ RegenerateState(p)
             \/ StateFails(p) \/ LockInVain(p)
    BY <2>3 DEF MakeScope, LookForConfig, WriteDefaults, ReadConfig, WriteConfig, ConfigFails,
                LoadConfig, TruncateConfig, FillConfig, RewriteFails, Inspect, Repair,
                BackUpState, RegenerateState, StateFails, LockInVain
  <2> QED
    BY <2>1, <2>2, <2>3 DEF SpaceStep
<1> QED
  BY <1>3, <1>4, <1>5, <1>6, <1>7

(* A step some call goes back or on to.                                    *)
Occurs(c, x) == Contains(Program[c], x)

(* What the last block ends in occurs,                                     *)
LEMMA LastOccurs ==
  ASSUME NEW X, NEW s \in Seq(X), NEW t \in Seq(X), NEW x, Len(t) > 0, t[Len(t)] = x
  PROVE  Contains(s \o t, x)
<1>1. Len(s \o t) = Len(s) + Len(t) /\ (s \o t)[Len(s) + Len(t)] = x
  OBVIOUS
<1>2. Len(s) + Len(t) \in 1 .. Len(s \o t)
  BY <1>1
<1> QED
  BY <1>1, <1>2 DEF Contains

(* what it begins with,                                                    *)
LEMMA NextOccurs ==
  ASSUME NEW X, NEW s \in Seq(X), NEW t \in Seq(X), NEW x, Len(t) > 0, t[1] = x
  PROVE  Contains(s \o t, x)
<1>1. Len(s) \in Nat /\ Len(t) \in Nat /\ Len(s \o t) = Len(s) + Len(t)
      /\ (s \o t)[Len(s) + 1] = x
  OBVIOUS
<1>2. Len(s) + 1 \in 1 .. Len(s \o t)
  BY <1>1
<1> QED
  BY <1>1, <1>2 DEF Contains

(* and what occurs in the first block.                                     *)
LEMMA FirstOccurs ==
  ASSUME NEW X, NEW s \in Seq(X), NEW t \in Seq(X), NEW x, Contains(s, x)
  PROVE  Contains(s \o t, x)
<1>1. PICK i \in 1 .. Len(s) : s[i] = x
  BY DEF Contains
<1>2. i \in 1 .. Len(s \o t) /\ (s \o t)[i] = x
  BY <1>1
<1> QED
  BY <1>2 DEF Contains

(* The steps calls jump to are steps of their programs.                    *)
LEMMA Targets ==
  /\ \A x \in {"make stream", "undo"} : Occurs("create", x)
  /\ \A x \in {"discard", "undo", "remove stream"} : Occurs("finish", x)
  /\ Occurs("health", "repair")
  /\ \A c \in {"load", "health"} : Occurs(c, "truncate config")
  /\ \A c \in ProfileCommands : Occurs(c, "restore")
  /\ Occurs("copy", "scan library") /\ Occurs("purge", "look at old")
<1>1. /\ Program["create"] = SpaceProgram["create"]
      /\ Program["finish"] = SpaceProgram["finish"]
      /\ Program["health"] = SpaceProgram["health"]
      /\ Program["load"] = SpaceProgram["load"]
      /\ Program["copy"] = KnowledgeProgram["copy"]
      /\ Program["purge"] = KnowledgeProgram["purge"]
      /\ \A c \in ProfileCommands : Program[c] = ProfileProgram[c]
  BY CommandsAre DEF Program, Commands
<1>2. /\ Len(SpaceProgram["create"]) = 14 /\ SpaceProgram["create"][11] = "make stream"
      /\ SpaceProgram["create"][8] = "undo"
  BY DEF SpaceProgram
<1>3. /\ Len(SpaceProgram["finish"]) = 11 /\ SpaceProgram["finish"][8] = "discard"
      /\ SpaceProgram["finish"][7] = "undo" /\ SpaceProgram["finish"][10] = "remove stream"
  BY DEF SpaceProgram
<1>4. /\ Len(KnowledgeProgram["copy"]) = 4 /\ KnowledgeProgram["copy"][1] = "scan library"
      /\ Len(KnowledgeProgram["purge"]) = 3 /\ KnowledgeProgram["purge"][2] = "look at old"
  BY DEF KnowledgeProgram
<1>5. /\ \A x \in {"make stream", "undo"} : Occurs("create", x)
      /\ \A x \in {"discard", "undo", "remove stream"} : Occurs("finish", x)
  <2>1. 8 \in 1 .. 14 /\ 11 \in 1 .. 14 /\ 7 \in 1 .. 11 /\ 8 \in 1 .. 11 /\ 10 \in 1 .. 11
    OBVIOUS
  <2> QED
    BY <1>1, <1>2, <1>3, <2>1 DEF Occurs, Contains
<1>6. Occurs("copy", "scan library") /\ Occurs("purge", "look at old")
  <2>1. 1 \in 1 .. 4 /\ 2 \in 1 .. 3
    OBVIOUS
  <2> QED
    BY <1>1, <1>4, <2>1 DEF Occurs, Contains
<1>7. Occurs("health", "repair")
  <2> DEFINE a == <<"inspect", "back up state", "lock state", "regenerate state",
                    "unlock state", "repair">>
             X == {"route", "heal", "inspect", "back up state", "lock state",
                   "regenerate state", "unlock state", "repair", "truncate config",
                   "fill config"}
  <2>1. Routing \in Seq(X) /\ a \in Seq(X) /\ Rewrite \in Seq(X) /\ Len(a) = 6
        /\ a[6] = "repair"
    BY DEF Routing, Rewrite
  <2>2. SpaceProgram["health"] = (Routing \o a) \o Rewrite
    BY DEF SpaceProgram
  <2> HIDE DEF a, X
  <2>3. Contains(Routing \o a, "repair")
    <3>1. Len(a) > 0 /\ a[Len(a)] = "repair"
      BY <2>1
    <3> QED
      BY <2>1, <3>1, LastOccurs
  <2>4. Routing \o a \in Seq(X)
    BY <2>1
  <2>5. Contains((Routing \o a) \o Rewrite, "repair")
    BY <2>1, <2>3, <2>4, FirstOccurs
  <2> QED
    BY <1>1, <2>2, <2>5 DEF Occurs
<1>8. \A c \in ProfileCommands : Occurs(c, "restore")
  <2> DEFINE X == {"fetch catalog", "read profiles", "look at profile", "look at opencode",
                   "back up opencode", "read permission", "back up oc", "empty oc",
                   "fill oc", "read profile", "read opencode", "empty opencode",
                   "fill opencode", "restore"}
             a == <<"fetch catalog", "read profiles">>
             b == <<"look at profile", "read profiles", "fetch catalog">>
             d == <<"look at opencode", "read profiles", "back up opencode">>
             e == <<"read permission", "back up opencode", "empty opencode",
                    "fill opencode", "restore">>
  <2>1. /\ ProfileProgram["inline"] = (a \o SaveProfile) \o ApplyProfile
        /\ ProfileProgram["pick"] = (b \o SaveProfile) \o ApplyProfile
        /\ ProfileProgram["rewrite"] = d \o ApplyProfile
        /\ ProfileProgram["allow"] = e
    BY DEF ProfileProgram
  <2>2. a \in Seq(X) /\ b \in Seq(X) /\ d \in Seq(X)
    OBVIOUS
  <2>3. SaveProfile \in Seq(X) /\ ApplyProfile \in Seq(X) /\ Len(ApplyProfile) = 5
        /\ ApplyProfile[5] = "restore"
    BY DEF SaveProfile, ApplyProfile
  <2>4. Len(e) = 5 /\ e[5] = "restore"
    OBVIOUS
  <2> HIDE DEF X, a, b, d, e
  <2>5. a \o SaveProfile \in Seq(X) /\ b \o SaveProfile \in Seq(X)
    BY <2>2, <2>3
  <2>6. 5 \in 1 .. Len(e)
    BY <2>4
  <2>7. ASSUME NEW s \in Seq(X)
        PROVE  Contains(s \o ApplyProfile, "restore")
    <3>1. Len(ApplyProfile) > 0 /\ ApplyProfile[Len(ApplyProfile)] = "restore"
      BY <2>3
    <3> QED
      BY <2>3, <3>1, LastOccurs
  <2>10. /\ Program["inline"] = ProfileProgram["inline"]
         /\ Program["pick"] = ProfileProgram["pick"]
         /\ Program["rewrite"] = ProfileProgram["rewrite"]
         /\ Program["allow"] = ProfileProgram["allow"]
    BY <1>1, CommandsAre
  <2>8. Occurs("inline", "restore") /\ Occurs("pick", "restore")
        /\ Occurs("rewrite", "restore")
    BY <2>1, <2>2, <2>5, <2>7, <2>10 DEF Occurs
  <2>9. Occurs("allow", "restore")
    BY <2>1, <2>4, <2>6, <2>10 DEF Occurs, Contains
  <2> QED
    BY <2>8, <2>9, CommandsAre
<1>9. \A c \in {"load", "health"} : Occurs(c, "truncate config")
  <2> DEFINE a == <<"inspect", "back up state", "lock state", "regenerate state",
                    "unlock state", "repair">>
             X == {"route", "heal", "load config", "inspect", "back up state", "lock state",
                   "regenerate state", "unlock state", "repair", "truncate config",
                   "fill config"}
           b == <<"load config">>
  <2>1. Routing \in Seq(X) /\ a \in Seq(X) /\ b \in Seq(X) /\ Rewrite \in Seq(X)
    BY DEF Routing, Rewrite
  <2>2. /\ SpaceProgram["health"] = (Routing \o a) \o Rewrite
        /\ SpaceProgram["load"] = (Routing \o b) \o Rewrite
    BY DEF SpaceProgram
  <2> HIDE DEF a, b, X
  <2>3. ASSUME NEW s \in Seq(X) PROVE Contains(s \o Rewrite, "truncate config")
    <3>1. Len(Rewrite) > 0 /\ Rewrite[1] = "truncate config"
      BY DEF Rewrite
    <3> QED
      BY <2>1, <3>1, NextOccurs
  <2>4. Routing \o a \in Seq(X) /\ Routing \o b \in Seq(X)
    BY <2>1
  <2> QED
    BY <1>1, <2>2, <2>3, <2>4 DEF Occurs
<1> QED
  BY <1>5, <1>6, <1>7, <1>8, <1>9

(* Which command takes a step, where it matters.                           *)
LEMMA Takers ==
  ASSUME Formed, NEW p \in Procs, Running(p)
  PROVE  /\ Now(p) \in {"look for mode", "look for work", "look", "look for state"} =>
              Cmd(p).name = "create"
         /\ Now(p) = "move" => Cmd(p).name \in {"create", "finish"}
         /\ Now(p) \in {"list entries"} => Cmd(p).name = "finish"
         /\ Now(p) \in {"inspect", "back up state"} => Cmd(p).name = "health"
         /\ Now(p) \in {"read learning", "fill learning"} => Cmd(p).name = "copy"
<1>1. Leads(Cmd(p).name, Mode(p), Now(p), Modes(Cmd(p).name)[run[p].at + 1])
  BY StepLeads DEF Now
<1> QED
  BY <1>1 DEF Leads, Loose

(* A lock file that moves with a directory is that of a workstream.        *)
LEMMA LockRenamed ==
  ASSUME Formed, NEW p \in Procs, Running(p), Now(p) \in {"move", "undo"}, NEW f,
         \/ LockAfterRename(Source(p), Target(p), f)
         \/ LockAfterRename(Target(p), Source(p), f)
  PROVE  LocksShrink
<1>1. Cmd(p).name \in {"create", "finish"}
  <2>1. Leads(Cmd(p).name, Mode(p), Now(p), Modes(Cmd(p).name)[run[p].at + 1])
    BY StepLeads DEF Now
  <2> QED
    BY <2>1 DEF Leads, Loose
<1>2. {Cmd(p).stream, Cmd(p).into} \subseteq Streams \cup {Nothing}
  BY <1>1, CommandsAre DEF Formed, CallFormed, Running, Started
<1>3. ASSUME NEW d \in {Source(p), Target(p)}, d.kind = "workstream"
      PROVE  d.stream \notin {"planning", "state"}
  <2>1. \/ d = Root \/ d = ArchiveOf(Cmd(p).stream, run[p].num)
        \/ d = Workstream(Cmd(p).stream) \/ d = Workstream(Cmd(p).into)
    BY DEF Source, Target, Mine
  <2>2. d.stream \in Streams \cup {Nothing}
    BY <1>2, <1>3, <2>1 DEF Root, ArchiveOf, Workstream, Place
  <2> QED
    BY <2>2, ProcessAssumption DEF Locks
<1>4. PICK x, v :
        /\ x \notin {"planning", "state"} /\ v \in {Nobody, Stray}
        /\ lock' = lock \/ lock' = [lock EXCEPT ![x] = v]
  <2>1. ASSUME NEW from \in {Source(p), Target(p)}, NEW to \in {Source(p), Target(p)},
               LockAfterRename(from, to, f)
        PROVE  \E x, v : /\ x \notin {"planning", "state"} /\ v \in {Nobody, Stray}
                         /\ lock' = lock \/ lock' = [lock EXCEPT ![x] = v]
    <3>1. CASE IsLock(from, f)
      <4>1. lock' = [lock EXCEPT ![from.stream] = Nobody]
        BY <2>1, <3>1 DEF LockAfterRename
      <4>2. from.stream \notin {"planning", "state"}
        BY <1>3, <3>1 DEF IsLock
      <4> QED
        BY <4>1, <4>2
    <3>2. CASE ~IsLock(from, f) /\ IsLock(to, f)
      <4>1. lock' = [lock EXCEPT ![to.stream] = Stray]
        BY <2>1, <3>2 DEF LockAfterRename
      <4>2. to.stream \notin {"planning", "state"}
        BY <1>3, <3>2 DEF IsLock
      <4> QED
        BY <4>1, <4>2
    <3>3. CASE ~IsLock(from, f) /\ ~IsLock(to, f)
      <4>1. lock' = lock
        BY <2>1, <3>3 DEF LockAfterRename, locks
      <4>2. Nothing \notin {"planning", "state"}
        BY ProcessAssumption DEF Locks
      <4> QED
        BY <4>1, <4>2
    <3> QED
      BY <3>1, <3>2, <3>3
  <2> QED
    BY <2>1
<1>5. CASE lock' = lock
  BY <1>5 DEF LocksShrink, Formed
<1>6. CASE lock' = [lock EXCEPT ![x] = v]
  <2>1. DOMAIN lock' = Locks /\ \A l \in Locks : lock'[l] = IF l = x THEN v ELSE lock[l]
    BY <1>6 DEF Formed
  <2>2. {"planning", "state"} \subseteq Locks
    BY DEF Locks
  <2> QED
    BY <1>4, <2>1, <2>2 DEF LocksShrink
<1> QED
  BY <1>4, <1>5, <1>6

(* The lock cannot be created: the call ends before it.                    *)
LEMMA EndsBeforeLock ==
  ASSUME Formed, NEW p \in Procs, Running(p), Now(p) = "lock planning", Stop(p),
         LocksShrink, killed' = killed, usurped' = usurped
  PROVE  Local(p)
<1>1. Mode(p) = "out"
  <2>1. Leads(Cmd(p).name, Mode(p), "lock planning", Modes(Cmd(p).name)[run[p].at + 1])
    BY StepLeads DEF Now
  <2> QED
    BY <2>1 DEF Leads, Loose
<1>2. Mode(p) \notin Guarded
  BY <1>1 DEF Guarded, PlanningModes, StateModes
<1> QED
  BY <1>2, StopsOutside

(* A rewrite, or one that fails, is followed by the next, or ends.         *)
LEMMA RewritesOn ==
  ASSUME Formed, NEW p \in Procs, Running(p), LocksStay, Rewritten(p),
         Now(p) \in {"truncate config", "fill config"}
  PROVE  Local(p)
<1> USE DEF LockSteps, InsideSteps
<1>1. Cmd(p).name \in {"load", "health"}
  <2>1. Leads(Cmd(p).name, Mode(p), Now(p), Modes(Cmd(p).name)[run[p].at + 1])
    BY StepLeads DEF Now
  <2> QED
    BY <2>1 DEF Leads, Loose
<1>2. Contains(Steps(p), "truncate config")
  BY <1>1, Targets DEF Steps, Cmd, Occurs
<1>3. CASE GoTo(p, "repair") /\ Is(p, {"health"})
  <2>1. Contains(Steps(p), "repair")
    BY <1>3, Targets DEF Is, Steps, Cmd, Occurs
  <2> QED
    BY <1>3, <2>1, GoToChanges, GoesTo
<1>4. CASE run' = [run EXCEPT ![p].at = StepNo(p, "truncate config"),
                              ![p].copy = Todo(p), ![p].todo = <<>>]
  <2>1. Changes(p, StepNo(p, "truncate config")) /\ run'[p].scope = run[p].scope
    BY <1>4, FieldsAre DEF Formed, CallFormed, Changes
  <2> QED
    BY <1>2, <2>1, GoesTo
<1>5. CASE Stop(p)
  BY <1>5, Stops
<1> QED
  BY <1>3, <1>4, <1>5 DEF Rewritten

(* The steps of PlanningSpace are local.                                   *)
LEMMA SpaceStepIsLocal ==
  ASSUME Formed, LooksFirst, NEW p \in Procs, SpaceStep(p)
  PROVE  Local(p)
<1> USE DEF LockSteps, InsideSteps
<1>1. CASE \/ Heal(p) \/ MakeArchive(p) \/ RemoveStream(p) \/ MakeStream(p) \/ MakeScope(p)
           \/ TruncateConfig(p) \/ BackUpState(p) \/ RegenerateState(p)
  <2>1. Running(p) /\ Go(p) /\ LocksStay
    BY <1>1, AtNow DEF Heal, MakeArchive, RemoveStream, MakeStream, MakeScope, TruncateConfig,
          BackUpState, RegenerateState, OnlyTree, locks, history, LocksStay
  <2>2. Now(p) \in {"heal", "make archive", "remove stream", "make stream", "make scope",
                    "truncate config", "back up state", "regenerate state"}
    BY <1>1, AtNow DEF Heal, MakeArchive, RemoveStream, MakeStream, MakeScope, TruncateConfig,
          BackUpState, RegenerateState
  <2> QED
    BY <2>1, <2>2, OnlyGoes
<1>2. CASE \/ Point(p) \/ DropWorkstreams(p) \/ LookForStream(p) \/ LookForTarget(p)
           \/ WriteNewState(p) \/ WriteDefaults(p)
  <2>1. Running(p) /\ (Go(p) \/ Stop(p)) /\ LocksStay
    BY <1>2, AtNow DEF Point, DropWorkstreams, LookForStream, LookForTarget, WriteNewState,
          WriteDefaults, OnlyTree, Idle, locks, history, LocksStay
  <2>2. Now(p) \in {"point", "drop workstreams", "look for stream", "look for target",
                    "write new state", "write defaults"}
    BY <1>2, AtNow DEF Point, DropWorkstreams, LookForStream, LookForTarget, WriteNewState,
          WriteDefaults
  <2> QED
    BY <2>1, <2>2, OnlyGoes, Stops
<1>3. CASE Unpoint(p) \/ MakeTarget(p) \/ PickArchive(p)
  <2>1. Running(p) /\ LocksStay
    BY <1>3, AtNow DEF Unpoint, MakeTarget, PickArchive, OnlyTree, Idle, locks, history,
          LocksStay
  <2>2. Now(p) \in {"unpoint", "make target", "pick archive"}
    BY <1>3, AtNow DEF Unpoint, MakeTarget, PickArchive
  <2>3. Go(p) \/ \E f \in {"was", "todo", "num"} : \E v : GoWith(p, f, v)
    BY <1>3 DEF Unpoint, MakeTarget, PickArchive
  <2> QED
    BY <2>1, <2>2, <2>3, OnlyGoes, GoesWith, FreeFields
<1>4. CASE Route(p)
  <2>1. Running(p) /\ Now(p) = "route" /\ LocksStay
    BY <1>4, AtNow DEF Route, Idle, locks, history, LocksStay
  <2>2. CASE Go(p)
    BY <2>1, <2>2, OnlyGoes
  <2>3. CASE run' = [run EXCEPT ![p].at = @ + 2,
                          ![p].scope = IF Pointed(p) = Nothing THEN "planning"
                                                               ELSE Pointed(p)]
    <3>1. Leads(Cmd(p).name, Mode(p), "route", Modes(Cmd(p).name)[run[p].at + 1])
      BY <2>1, StepLeads DEF Now
    <3>2. Cmd(p).name \in SpaceCommands
          /\ Modes(Cmd(p).name)[run[p].at + 1] = "routed"
      BY <3>1 DEF Leads, Loose
    <3>3. Pointed(p) \in Streams \cup {Nothing}
      BY <2>1, <3>2 DEF Formed, CallFormed, Running, Started, Pointed, Key
    <3>4. Changes(p, run[p].at + 2) /\ run'[p].scope \in Scopes
      BY <2>3, <3>3, FieldsAre DEF Formed, CallFormed, Changes, Scopes
    <3>5. run[p].at + 2 \in 1 .. Len(Steps(p)) + 1 /\ NewMode(p) = "out"
      BY <2>1, <3>2, <3>4, StepAround DEF Changes, NewMode
    <3>6. Cmd(p).name \notin PhaseCommands
      BY <3>2, CommandsAre
    <3>7. run'[p].at = run[p].at + 2 /\ LocksShrink
      BY <2>1, <3>4, LocksStayShrunk DEF Changes
    <3> QED
      BY <2>1, <3>4, <3>5, <3>6, <3>7, OutsideMoves DEF LocksStay
  <2> QED
    BY <1>4, <2>2, <2>3 DEF Route
<1>5. CASE LookForMode(p) \/ LookForWork(p)
  <2>1. Running(p) /\ LocksStay
    BY <1>5, AtNow DEF LookForMode, LookForWork, OnlyTree, Idle, locks, history, LocksStay
  <2>2. Now(p) \in {"look for mode", "look for work"}
    BY <1>5, AtNow DEF LookForMode, LookForWork
  <2>3. Go(p) \/ GoTo(p, "make stream")
    BY <1>5 DEF LookForMode, LookForWork
  <2>4. Contains(Steps(p), "make stream")
    BY <2>1, <2>2, Takers, Targets DEF Steps, Cmd, Occurs
  <2> QED
    BY <2>1, <2>2, <2>3, <2>4, OnlyGoes, GoToChanges, GoesTo
<1>6. CASE ListEntries(p)
  <2>1. Running(p) /\ Now(p) = "list entries" /\ LocksStay
    BY <1>6, AtNow DEF ListEntries, Idle, locks, history, LocksStay
  <2>2. GoTo(p, "discard") \/ \E v : GoWith(p, "todo", v)
    BY <1>6 DEF ListEntries
  <2>3. Contains(Steps(p), "discard")
    BY <2>1, Takers, Targets DEF Steps, Cmd, Occurs
  <2> QED
    BY <2>1, <2>2, <2>3, GoesWith, FreeFields, GoToChanges, GoesTo
<1>7. CASE Look(p)
  <2>1. Running(p) /\ Now(p) = "look" /\ LocksStay
    BY <1>7, AtNow DEF Look, Idle, locks, history, LocksStay
  <2>2. Contains(Steps(p), "make stream")
    BY <2>1, Takers, Targets DEF Steps, Cmd, Occurs
  <2>3. CASE GoTo(p, "make stream")
    BY <2>1, <2>2, <2>3, GoToChanges, GoesTo
  <2>4. CASE run[p].todo # <<>> /\ Go(p)
    <3>1. Changes(p, run[p].at + 1) /\ run'[p].scope = run[p].scope
      BY <2>4, GoChanges
    <3>2. run'[p].todo # <<>>
      BY <2>4, FieldsAre DEF Formed, CallFormed, Go
    <3> QED
      BY <2>1, <3>1, <3>2, GoesOn
  <2>5. CASE run' = [run EXCEPT ![p].todo = Tail(@)]
    <3>1. Changes(p, run[p].at) /\ run'[p].scope = run[p].scope
      BY <2>5, FieldsAre DEF Formed, CallFormed, Changes
    <3> QED
      BY <2>1, <3>1, Stays
  <2> QED
    BY <1>7, <2>3, <2>4, <2>5 DEF Look
<1>8. CASE Moved(p)
  <2>1. Running(p) /\ Now(p) = "move" /\ killed' = killed /\ usurped' = usurped
    BY <1>8, AtNow DEF Moved, history
  <2>2. LocksShrink
    <3>1. LockAfterRename(Source(p), Target(p), Todo(p))
      BY <1>8 DEF Moved
    <3> QED
      BY <2>1, <3>1, LockRenamed
  <2>3. CASE Is(p, {"create"})
    <3>1. run' = [run EXCEPT ![p].todo = Tail(@), ![p].moved = Append(@, Todo(p)),
                             ![p].at = @ - 1]
      BY <1>8, <2>3 DEF Moved
    <3>2. Changes(p, run[p].at - 1) /\ run'[p].scope = run[p].scope
      BY <3>1, FieldsAre DEF Formed, CallFormed, Changes
    <3>3. Mode(p) = "looked"
      BY <2>1, <2>3, StepLeads, CommandsAre DEF Now, Is, Leads, Loose
    <3>4. run[p].at - 1 \in 1 .. Len(Steps(p)) + 1 /\ NewMode(p) = "out"
      BY <2>1, <3>2, <3>3, StepAround DEF Changes, NewMode, Mode
    <3>5. Changes(p, run'[p].at) /\ run'[p].at \in 1 .. Len(Steps(p)) + 1
      BY <3>2, <3>4 DEF Changes
    <3> QED
      BY <2>1, <2>2, <3>2, <3>4, <3>5, OutsideMoves
  <2>4. CASE ~Is(p, {"create"})
    <3>1. run' = [run EXCEPT ![p].todo = Tail(@), ![p].moved = Append(@, Todo(p)),
                             ![p].at = @]
      BY <1>8, <2>4 DEF Moved
    <3>2. Changes(p, run[p].at) /\ run'[p].scope = run[p].scope
      BY <3>1, FieldsAre DEF Formed, CallFormed, Changes
    <3>3. Mode(p) = "out"
      BY <2>1, <2>4, StepLeads DEF Now, Is, Running, Leads
    <3>4. run[p].at \in 1 .. Len(Steps(p)) + 1 /\ NewMode(p) = "out"
      BY <2>1, <3>2, <3>3, StepLeads DEF Changes, NewMode, Mode
    <3>5. Changes(p, run'[p].at) /\ run'[p].at \in 1 .. Len(Steps(p)) + 1
      BY <3>2, <3>4 DEF Changes
    <3> QED
      BY <2>1, <2>2, <3>2, <3>4, <3>5, OutsideMoves
  <2> QED
    BY <2>3, <2>4
<1>9. CASE MoveFails(p)
  <2>1. Running(p) /\ Now(p) = "move" /\ LocksStay /\ GoTo(p, "undo")
    BY <1>9, AtNow DEF MoveFails, locks, LocksStay
  <2>2. Contains(Steps(p), "undo")
    BY <2>1, Takers, Targets DEF Steps, Cmd, Occurs
  <2> QED
    BY <2>1, <2>2, GoToChanges, GoesTo
<1>10. CASE AllMoved(p)
  <2>1. Running(p) /\ Now(p) = "move" /\ LocksStay /\ GoTo(p, "remove stream")
    BY <1>10, AtNow DEF AllMoved, Idle, locks, history, LocksStay
  <2>2. Mode(p) # "looked"
    BY <1>10, <2>1 DEF AllMoved, LooksFirst, Running
  <2>3. Cmd(p).name = "finish"
    BY <2>1, <2>2, StepLeads, CommandsAre DEF Now, Leads, Loose
  <2>4. Contains(Steps(p), "remove stream")
    BY <2>3, Targets DEF Steps, Cmd, Occurs
  <2> QED
    BY <2>1, <2>4, GoToChanges, GoesTo
<1>11. CASE Undo(p)
  <2>1. Running(p) /\ Now(p) = "undo" /\ killed' = killed /\ usurped' = usurped
    BY <1>11, AtNow DEF Undo
  <2>2. LocksShrink
    <3>1. UNCHANGED locks \/ \E f : LockAfterRename(Target(p), Source(p), f)
      BY <1>11 DEF Undo
    <3>2. CASE UNCHANGED locks
      BY <2>1, <3>2, LocksStayShrunk DEF locks, LocksStay
    <3> QED
      BY <2>1, <3>1, <3>2, LockRenamed
  <2>3. run' = [run EXCEPT ![p].moved = Tail(@)]
    BY <1>11 DEF Undo
  <2>4. Changes(p, run[p].at) /\ run'[p].scope = run[p].scope
    BY <2>3, FieldsAre DEF Formed, CallFormed, Changes
  <2>5. Leads(Cmd(p).name, Mode(p), "undo", Modes(Cmd(p).name)[run[p].at + 1])
        /\ run[p].at \in 1 .. Len(Steps(p)) + 1
    BY <2>1, StepLeads DEF Now
  <2>6. NewMode(p) = "out" /\ run'[p].at = run[p].at
    BY <2>4, <2>5 DEF Changes, NewMode, Mode, Leads
  <2> QED
    BY <2>1, <2>2, <2>4, <2>5, <2>6, OutsideMoves
<1>21. CASE AllUndone(p)
  <2>1. Running(p) /\ Now(p) = "undo" /\ LocksStay /\ Go(p)
    BY <1>21, AtNow DEF AllUndone, Idle, locks, history, LocksStay
  <2> QED
    BY <2>1, OnlyGoes
<1>12. CASE Discard(p)
  <2>1. Running(p) /\ Now(p) = "discard" /\ Go(p) /\ killed' = killed /\ usurped' = usurped
    BY <1>12, AtNow DEF Discard, history
  <2>2. LocksShrink
    BY <1>12, ProcessAssumption DEF Discard, LocksShrink, Formed, Locks
  <2>3. Changes(p, run[p].at + 1) /\ run'[p].scope = run[p].scope
    BY <2>1, GoChanges
  <2>4. run[p].at + 1 \in 1 .. Len(Steps(p)) + 1
        /\ Leads(Cmd(p).name, Mode(p), "discard", Modes(Cmd(p).name)[run[p].at + 1])
    BY <2>1, StepLeads DEF Now
  <2>5. NewMode(p) = "out" /\ run'[p].at = run[p].at + 1
    BY <2>3, <2>4 DEF Changes, NewMode, Leads
  <2>6. Changes(p, run'[p].at) /\ run'[p].at \in 1 .. Len(Steps(p)) + 1
    BY <2>3, <2>4, <2>5
  <2> QED
    BY <2>1, <2>2, <2>3, <2>5, <2>6, OutsideMoves
<1>13. CASE LookForState(p)
  <2>1. Running(p) /\ Now(p) = "look for state" /\ LocksStay /\ (Go(p) \/ Skip(p))
    BY <1>13, AtNow DEF LookForState, Idle, locks, history, LocksStay
  <2>2. CASE Skip(p)
    <3>1. Cmd(p).name = "create"
          /\ Leads("create", Mode(p), "look for state", Modes(Cmd(p).name)[run[p].at + 1])
      BY <2>1, StepLeads, Takers DEF Now
    <3>2. Modes(Cmd(p).name)[run[p].at + 1] = "stateless"
      BY <3>1, CommandsAre DEF Leads, Loose
    <3> QED
      BY <2>1, <2>2, <3>2, Skips
  <2> QED
    BY <2>1, <2>2, OnlyGoes
<1>14. CASE LookForConfig(p)
  <2>1. Running(p) /\ Now(p) = "look for config" /\ LocksStay
    BY <1>14, AtNow DEF LookForConfig, Idle, locks, history, LocksStay
  <2>2. CASE Skip(p) /\ ~Is(p, {"new"})
    <3>1. Cmd(p).name # "new"
          /\ Leads(Cmd(p).name, Mode(p), "look for config", Modes(Cmd(p).name)[run[p].at + 1])
      BY <2>1, <2>2, StepLeads DEF Now, Is, Running
    <3>2. Modes(Cmd(p).name)[run[p].at + 1] = "configless"
      BY <3>1, CommandsAre DEF Leads, Loose
    <3> QED
      BY <2>1, <2>2, <3>2, Skips
  <2>3. Go(p) \/ Stop(p) \/ (Skip(p) /\ ~Is(p, {"new"}))
    BY <1>14 DEF LookForConfig
  <2> QED
    BY <2>1, <2>2, <2>3, OnlyGoes, Stops
<1>15. CASE ReadConfig(p) \/ WriteConfig(p)
  <2>1. Running(p) /\ Now(p) \in {"read config", "write config"} /\ killed' = killed
    BY <1>15, AtNow DEF ReadConfig, WriteConfig
  <2>2. \/ Stop(p) /\ ExitHook(p)
        \/ (Go(p) \/ \E v : GoWith(p, "copy", v)) /\ UNCHANGED <<locks, usurped>>
    BY <1>15 DEF ReadConfig, WriteConfig
  <2>3. ASSUME Stop(p), ExitHook(p) PROVE Local(p)
    BY <2>1, <2>3, HookEnds
  <2> QED
    BY <2>1, <2>2, <2>3, OnlyGoes, GoesWith, FreeFields DEF locks, LocksStay
<1>22. CASE ConfigFails(p)
  <2>1. /\ Running(p) /\ Now(p) \in {"write defaults", "write config"}
        /\ killed' = killed /\ Stop(p)
        /\ IF Now(p) = "write config" THEN ExitHook(p) ELSE UNCHANGED <<locks, usurped>>
    BY <1>22, AtNow DEF ConfigFails, At, Now
  <2>2. CASE Now(p) = "write config"
    BY <2>1, <2>2, HookEnds
  <2>3. CASE Now(p) = "write defaults"
    BY <2>1, <2>3, Stops DEF locks, LocksStay
  <2> QED
    BY <2>1, <2>2, <2>3
<1>16. CASE LoadConfig(p)
  <2>1. Running(p) /\ Now(p) = "load config" /\ LocksStay
    BY <1>16, AtNow DEF LoadConfig, Idle, locks, history, LocksStay
  <2>2. CASE \E v, c : run' = [run EXCEPT ![p].at = @ + 1, ![p].todo = v, ![p].copy = c]
    <3>1. Changes(p, run[p].at + 1) /\ run'[p].scope = run[p].scope
      BY <2>2, FieldsAre DEF Formed, CallFormed, Changes
    <3> QED
      BY <2>1, <3>1, GoesOn
  <2> QED
    BY <1>16, <2>1, <2>2, Stops DEF LoadConfig
<1>17. CASE FillConfig(p) \/ RewriteFails(p)
  <2>1. Running(p) /\ Now(p) \in {"truncate config", "fill config"} /\ Rewritten(p)
    BY <1>17, AtNow DEF FillConfig, RewriteFails
  <2>2. LocksStay
    BY <1>17 DEF FillConfig, RewriteFails, OnlyTree, locks, history, LocksStay
  <2> QED
    BY <2>1, <2>2, RewritesOn
<1>23. CASE StateFails(p)
  <2>1. Running(p) /\ LocksStay
    BY <1>23, AtNow DEF StateFails, locks, LocksStay
  <2>2. \/ Now(p) = "write new state" /\ Stop(p)
        \/ Now(p) = "back up state" /\ GoTo(p, "repair")
        \/ Now(p) = "regenerate state" /\ Go(p)
    BY <1>23, AtNow DEF StateFails
  <2>3. Now(p) = "back up state" => Contains(Steps(p), "repair")
    BY <2>1, Takers, Targets DEF Steps, Cmd, Occurs
  <2> QED
    BY <2>1, <2>2, <2>3, Stops, OnlyGoes, GoToChanges, GoesTo
<1>18. CASE Inspect(p)
  <2>1. Running(p) /\ Now(p) = "inspect" /\ LocksStay
    BY <1>18, AtNow DEF Inspect, Idle, locks, history, LocksStay
  <2>2. PICK i \in {Len(Steps(p)) + 1, StepNo(p, "repair"), run[p].at + 1} :
          run' = [run EXCEPT ![p].at = i, ![p].todo = Repairs(Here(p))]
    BY <1>18 DEF Inspect
  <2>3. Changes(p, i) /\ run'[p].scope = run[p].scope
    BY <2>2, FieldsAre DEF Formed, CallFormed, Changes
  <2>4. Contains(Steps(p), "repair")
    BY <2>1, Takers, Targets DEF Steps, Cmd, Occurs
  <2>5. CASE i = Len(Steps(p)) + 1
    <3>1. i \in 1 .. Len(Steps(p)) + 1 /\ run'[p].at = i /\ NewMode(p) = "out"
      BY <2>1, <2>3, <2>5, StepLeads, ModesAre DEF NewMode, Changes, Steps, Cmd
    <3> QED
      BY <2>1, <2>3, <3>1, LocksStayShrunk, OutsideMoves DEF LocksStay
  <2> QED
    BY <2>1, <2>2, <2>3, <2>4, <2>5, GoesOn, GoesTo
<1>19. CASE Repair(p)
  <2>1. Running(p) /\ Now(p) = "repair" /\ LocksStay
    BY <1>19, AtNow DEF Repair, Idle, locks, history, LocksStay
  <2>2. \/ Stop(p)
        \/ \E c : run' = [run EXCEPT ![p].at = @ + 1, ![p].todo = Tail(@), ![p].copy = c]
        \/ run' = [run EXCEPT ![p].todo = Tail(@)]
    BY <1>19 DEF Repair
  <2>3. CASE \E c : run' = [run EXCEPT ![p].at = @ + 1, ![p].todo = Tail(@), ![p].copy = c]
    <3>1. Changes(p, run[p].at + 1) /\ run'[p].scope = run[p].scope
      BY <2>3, FieldsAre DEF Formed, CallFormed, Changes
    <3> QED
      BY <2>1, <3>1, GoesOn
  <2>4. CASE run' = [run EXCEPT ![p].todo = Tail(@)]
    <3>1. Changes(p, run[p].at) /\ run'[p].scope = run[p].scope
      BY <2>4, FieldsAre DEF Formed, CallFormed, Changes
    <3> QED
      BY <2>1, <3>1, Stays
  <2> QED
    BY <2>1, <2>2, <2>3, <2>4, Stops
<1>20. CASE LockInVain(p)
  <2>1. Running(p) /\ Now(p) = "lock planning" /\ LocksStay /\ Stop(p)
    BY <1>20, AtNow DEF LockInVain, InVain, Idle, locks, history, LocksStay
  <2> QED
    BY <2>1, EndsBeforeLock, LocksStayShrunk DEF LocksStay
<1> QED
  BY <1>1, <1>2, <1>3, <1>4, <1>5, <1>6, <1>7, <1>8, <1>9, <1>10, <1>11, <1>12, <1>13,
     <1>14, <1>15, <1>16, <1>17, <1>18, <1>19, <1>20, <1>21, <1>22, <1>23 DEF SpaceStep

(* The steps of ProfileTool are local.                                     *)
LEMMA ProfileStepIsLocal ==
  ASSUME Formed, NEW p \in Procs, Is(p, ProfileCommands), ProfileStep(p)
  PROVE  Local(p)
<1> USE DEF LockSteps, InsideSteps
<1> Contains(Steps(p), "restore")
  BY Targets DEF Is, Steps, Cmd, Occurs
<1>1. CASE LookAtProfile(p) \/ FetchCatalog(p) \/ LookAtOpencode(p) \/ ReadPermission(p)
           \/ ReadProfile(p) \/ ReadOpencode(p) \/ Restore(p)
  <2>1. Running(p) /\ LocksStay
    BY <1>1, AtNow DEF LookAtProfile, FetchCatalog, LookAtOpencode, ReadPermission,
          ReadProfile, ReadOpencode, Restore, Quietly, locks, history, LocksStay
  <2>2. Now(p) \in {"look at profile", "fetch catalog", "look at opencode",
                    "read permission", "read profile", "read opencode", "restore"}
    BY <1>1, AtNow DEF LookAtProfile, FetchCatalog, LookAtOpencode, ReadPermission,
          ReadProfile, ReadOpencode, Restore
  <2>3. \/ Go(p) \/ Stop(p) \/ GoTo(p, "restore")
        \/ \E f \in {"was", "text", "body"} : \E v : GoWith(p, f, v)
    BY <1>1 DEF LookAtProfile, FetchCatalog, LookAtOpencode, ReadPermission, ReadProfile,
          ReadOpencode, Restore
  <2> QED
    BY <2>1, <2>2, <2>3, OnlyGoes, GoesWith, FreeFields, Stops, GoToChanges, GoesTo
<1>2. CASE ReadProfiles(p)
  <2>1. Running(p) /\ Now(p) = "read profiles" /\ LocksStay
    BY <1>2, AtNow DEF ReadProfiles, Quietly, locks, history, LocksStay
  <2>2. CASE \E v, c : run' = [run EXCEPT ![p].at = @ + 1, ![p].was = v, ![p].copy = c]
    <3>1. Changes(p, run[p].at + 1) /\ run'[p].scope = run[p].scope
      BY <2>2, FieldsAre DEF Formed, CallFormed, Changes
    <3> QED
      BY <2>1, <3>1, GoesOn
  <2> QED
    BY <1>2, <2>1, <2>2, Stops DEF ReadProfiles
<1>3. ASSUME NEW file \in {"oc", "opencode"},
             \/ CreateBackup(p, file) \/ Empty(p, file) \/ Fill(p, file)
             \/ WriteFails(p, file)
      PROVE  Local(p)
  <2>1. StepsOn(file).backup \in {"back up oc", "back up opencode"}
        /\ StepsOn(file).empty \in {"empty oc", "empty opencode"}
        /\ StepsOn(file).fill \in {"fill oc", "fill opencode"}
    BY DEF StepsOn
  <2>2. Running(p) /\ LocksStay
    BY <1>3, AtNow DEF CreateBackup, Empty, Fill, WriteFails, locks, history, LocksStay
  <2>3. Now(p) \in {"back up oc", "back up opencode", "empty oc", "empty opencode",
                    "fill oc", "fill opencode"}
    BY <1>3, <2>1, AtNow DEF CreateBackup, Empty, Fill, WriteFails
  <2>4. \/ Go(p) \/ Stop(p) \/ GoTo(p, "restore")
        \/ \E v : GoWith(p, "kept", v)
    BY <1>3 DEF CreateBackup, Empty, Fill, WriteFails
  <2> QED
    BY <2>2, <2>3, <2>4, OnlyGoes, GoesWith, FreeFields, Stops, GoToChanges, GoesTo
<1> QED
  BY <1>1, <1>2, <1>3 DEF ProfileStep

(* The steps of KnowledgeStore are local.                                  *)
LEMMA KnowledgeStepIsLocal ==
  ASSUME Formed, NEW p \in Procs, KnowledgeStep(p)
  PROVE  Local(p)
<1> USE DEF LockSteps, InsideSteps
<1>1. CASE ListLibrary(p)
  <2>1. Running(p) /\ Now(p) \in {"scan library", "list old"} /\ LocksStay
    BY <1>1, AtNow DEF ListLibrary, locks, history, LocksStay
  <2>2. Changes(p, run[p].at + 1) /\ run'[p].scope = run[p].scope
    BY <1>1, FieldsAre DEF ListLibrary, Formed, CallFormed, Changes
  <2> QED
    BY <2>1, <2>2, GoesOn
<1>2. ASSUME Running(p), LocksStay, NextSection(p),
             Now(p) \in {"read learning", "fill learning"}
      PROVE  Local(p)
  <2>1. \E i \in {Len(Steps(p)) + 1, StepNo(p, "scan library")} :
          Changes(p, i) /\ run'[p].scope = run[p].scope
    BY <1>2, FieldsAre DEF NextSection, Formed, CallFormed, Changes
  <2>2. Contains(Steps(p), "scan library")
    BY <1>2, Takers, Targets DEF Steps, Cmd, Occurs
  <2>3. ASSUME Changes(p, Len(Steps(p)) + 1), run'[p].scope = run[p].scope
        PROVE  Local(p)
    <3>1. run'[p].at = Len(Steps(p)) + 1
      BY <2>3 DEF Changes
    <3>4. Len(Steps(p)) \in Nat
      BY <1>2, StepLeads
    <3>2. run'[p].at \in 1 .. Len(Steps(p)) + 1
      BY <3>1, <3>4
    <3>3. NewMode(p) = "out"
      BY <1>2, <3>1, StepLeads, ModesAre DEF NewMode, Steps, Cmd
    <3> QED
      BY <1>2, <2>3, <3>1, <3>2, <3>3, LocksStayShrunk, OutsideMoves DEF LocksStay
  <2> QED
    BY <1>2, <2>1, <2>2, <2>3, GoesTo
<1>3. CASE ReadLearning(p)
  <2>1. Running(p) /\ Now(p) = "read learning" /\ LocksStay
    BY <1>3, AtNow DEF ReadLearning, locks, history, LocksStay
  <2>2. \/ Go(p) \/ NextSection(p)
        \/ \E v : run' = [run EXCEPT ![p].dirs = v]
    BY <1>3 DEF ReadLearning
  <2>3. ASSUME NEW v, run' = [run EXCEPT ![p].dirs = v] PROVE Local(p)
    <3>1. Changes(p, run[p].at) /\ run'[p].scope = run[p].scope
      BY <2>3, FieldsAre DEF Formed, CallFormed, Changes
    <3> QED
      BY <2>1, <3>1, Stays
  <2> QED
    BY <1>2, <2>1, <2>2, <2>3, OnlyGoes
<1>4. CASE CreateLearning(p)
  <2>1. Running(p) /\ Now(p) = "create learning" /\ LocksStay /\ Go(p)
    BY <1>4, AtNow DEF CreateLearning, locks, history, LocksStay
  <2> QED
    BY <2>1, OnlyGoes
<1>5. CASE FillLearning(p)
  <2>1. Running(p) /\ Now(p) = "fill learning" /\ LocksStay /\ NextSection(p)
    BY <1>5, AtNow DEF FillLearning, locks, history, LocksStay
  <2> QED
    BY <1>2, <2>1
<1>6. CASE LearningFails(p)
  <2>1. Running(p) /\ Now(p) \in {"create learning", "fill learning"} /\ LocksStay /\ Stop(p)
    BY <1>6, AtNow DEF LearningFails, locks, LocksStay
  <2> QED
    BY <2>1, Stops
<1>7. CASE LookAtOld(p)
  <2>1. Running(p) /\ Now(p) = "look at old" /\ LocksStay
    BY <1>7, AtNow DEF LookAtOld, locks, history, LocksStay
  <2>2. \/ Stop(p)
        \/ \E f : run' = [run EXCEPT ![p].at = @ + 1, ![p].kept = f]
        \/ \E v : run' = [run EXCEPT ![p].dirs = v]
    BY <1>7 DEF LookAtOld
  <2>3. ASSUME NEW f, run' = [run EXCEPT ![p].at = @ + 1, ![p].kept = f] PROVE Local(p)
    <3>1. Changes(p, run[p].at + 1) /\ run'[p].scope = run[p].scope
      BY <2>3, FieldsAre DEF Formed, CallFormed, Changes
    <3> QED
      BY <2>1, <3>1, GoesOn
  <2>4. ASSUME NEW v, run' = [run EXCEPT ![p].dirs = v] PROVE Local(p)
    <3>1. Changes(p, run[p].at) /\ run'[p].scope = run[p].scope
      BY <2>4, FieldsAre DEF Formed, CallFormed, Changes
    <3> QED
      BY <2>1, <3>1, Stays
  <2> QED
    BY <2>1, <2>2, <2>3, <2>4, Stops
<1>8. CASE FindLearning(p)
  <2>1. Running(p) /\ Now(p) = "find learning" /\ LocksStay
    BY <1>8, AtNow DEF FindLearning, locks, history, LocksStay
  <2>2. Stop(p) \/ \E v : GoWith(p, "kept", v)
    BY <1>8 DEF FindLearning
  <2> QED
    BY <2>1, <2>2, Stops, GoesWith, FreeFields
<1>9. CASE UnlinkLearning(p)
  <2>1. Running(p) /\ Now(p) = "unlink learning" /\ LocksStay
    BY <1>9, AtNow DEF UnlinkLearning, locks, history, LocksStay
  <2>2. CASE Is(p, {"purge"}) /\ \E v : run' = [run EXCEPT ![p].at = StepNo(p, "look at old"),
                                                           ![p].dirs = v]
    <3>1. Changes(p, StepNo(p, "look at old")) /\ run'[p].scope = run[p].scope
      BY <2>2, FieldsAre DEF Formed, CallFormed, Changes
    <3>2. Contains(Steps(p), "look at old")
      BY <2>2, Targets DEF Is, Steps, Cmd, Occurs
    <3> QED
      BY <2>1, <3>1, <3>2, GoesTo
  <2>3. \/ Go(p) \/ Stop(p)
        \/ Is(p, {"purge"}) /\ \E v : run' = [run EXCEPT ![p].at = StepNo(p, "look at old"),
                                                         ![p].dirs = v]
    BY <1>9 DEF UnlinkLearning
  <2> QED
    BY <2>1, <2>2, <2>3, OnlyGoes, Stops
<1> QED
  BY <1>1, <1>3, <1>4, <1>5, <1>6, <1>7, <1>8, <1>9 DEF KnowledgeStep

-----------------------------------------------------------------------------
(***************************************************************************)
(* Who has locked what.                                                    *)
(***************************************************************************)
(* A lock file is that of a call inside the lock, or of a killed one.      *)
OwnerInside ==
  \A l \in Locks : \A p \in Procs : lock[l] = p => p \in killed \/ Inside(p, l)

(* Who went on without the lock is inside it, and has no lock file to      *)
(* leave behind when it leaves the others' alone.                          *)
ForcedLockless ==
  \A p \in Procs :
    run[p].forced =>
      Started(p) /\ (Running(p) => Mode(p) \in PlanningModes /\ lock[run[p].scope] # p)

(* Whoever is inside a lock that was never usurped has locked it.  (The    *)
(* lock of a workstream may be moved away with its directory.)             *)
InsideOwns ==
  \A p \in Procs : \A l \in {"planning", "state"} :
    Running(p) /\ Inside(p, l) /\ l \notin usurped => lock[l] = p

LockInv == Formed /\ LooksFirst /\ OwnerInside /\ ForcedLockless /\ InsideOwns

(* Nothing moves a process but its own steps.                              *)
LEMMA OthersStay ==
  ASSUME NEW p \in Procs, NEW q \in Procs, run'[q] = run[q]
  PROVE  /\ Started(q)' = Started(q) /\ Mode(q)' = Mode(q)
         /\ \A l : Inside(q, l)' = Inside(q, l)
         /\ killed' = killed => Running(q)' = Running(q)
BY DEF Started, Mode, Inside, Running, Steps, Cmd

(* The steps of a process that are not about locks keep all of this.       *)
LEMMA LocalMoves ==
  ASSUME Formed, NEW p \in Procs, Running(p), Local(p)
  PROVE  /\ run'[p].at \in 1 .. Len(Steps(p)) + 1
         /\ Mode(p)' = NewMode(p) /\ Steps(p)' = Steps(p)
         /\ run'[p].scope \in Scopes
         /\ Cmd(p).name \in PhaseCommands => run'[p].scope = run[p].scope
         /\ DOMAIN lock' = Locks /\ \A l \in Locks : lock'[l] \in {lock[l], Nobody, Stray}
<1>1. Changes(p, run'[p].at) /\ Cmd(p).name \in Commands /\ run[p].at \in 1 .. Len(Steps(p))
      /\ Len(Steps(p)) \in Nat
  BY StepLeads DEF Local
<1>2. run'[p].cmd = run[p].cmd
  BY <1>1 DEF Changes
<1>3. Mode(p)' = NewMode(p) /\ Steps(p)' = Steps(p)
  BY <1>2 DEF Mode, NewMode, Steps, Cmd
<1>4. run[p].scope \in Scopes /\ DOMAIN lock = Locks
  BY DEF Formed, CallFormed
<1>5. CASE Onward(p)
  BY <1>1, <1>3, <1>4, <1>5 DEF Onward
<1>6. CASE Outside(p)
  BY <1>3, <1>6 DEF Outside, LocksShrink
<1>7. CASE Exit(p)
  <2>1. DOMAIN lock' = Locks /\ \A l \in Locks : lock'[l] \in {lock[l], Nobody}
    BY <1>4, <1>7 DEF Exit, Unlinked, locks
  <2> QED
    BY <1>1, <1>3, <1>4, <1>7, <2>1 DEF Exit
<1> QED
  BY <1>5, <1>6, <1>7 DEF Local

(* A local step keeps the shape of the state.                              *)
LEMMA LocalStaysFormed ==
  ASSUME Formed, NEW p \in Procs, Running(p), Local(p), PointersStay
  PROVE  Formed'
<1>1. /\ run'[p].at \in 1 .. Len(Steps(p)) + 1 /\ Steps(p)' = Steps(p)
      /\ run'[p].scope \in Scopes
      /\ Cmd(p).name \in PhaseCommands => run'[p].scope = run[p].scope
      /\ DOMAIN lock' = Locks /\ \A l \in Locks : lock'[l] \in {lock[l], Nobody, Stray}
  BY LocalMoves
<1>2. Changes(p, run'[p].at) /\ Len(Steps(p)) \in Nat
  BY StepLeads DEF Local
<1>3. CallFormed(p)'
  <2>1. CallFormed(p) /\ run'[p].cmd = run[p].cmd /\ DOMAIN run'[p] = Fields
        /\ DOMAIN pointer' = DOMAIN pointer
    BY <1>2 DEF Formed, Changes, PointersStay
  <2>2. run'[p].at \in Nat /\ run'[p].at <= Len(Steps(p)) + 1
    BY <1>1, <1>2
  <2>3. Cmd(p)' = Cmd(p) /\ Cmd(p) # Nothing
    BY <2>1 DEF Cmd, CallFormed, Running
  <2> QED
    BY <1>1, <2>1, <2>2, <2>3 DEF CallFormed
<1>4. ASSUME NEW q \in Procs \ {p} PROVE CallFormed(q)'
  <2>1. run'[q] = run[q] /\ CallFormed(q) /\ DOMAIN pointer' = DOMAIN pointer
    BY <1>2 DEF Formed, Changes, PointersStay
  <2> QED
    BY <2>1 DEF CallFormed, Started, Steps, Cmd
<1>5. DOMAIN run' = Procs /\ \A k \in DOMAIN pointer' : pointer'[k] \in Streams \cup {Nothing}
  BY <1>2 DEF Changes, PointersStay
<1>6. \A l \in Locks : lock'[l] \in Procs \cup {Nobody, Stray}
  BY <1>1 DEF Formed
<1>7. \A q \in Procs : CallFormed(q)'
  BY <1>3, <1>4
<1> QED
  BY <1>1, <1>5, <1>6, <1>7 DEF Formed

(* A local step keeps each part of the invariant.                          *)
LEMMA LocalKeepsLooking ==
  ASSUME Formed, LooksFirst, NEW p \in Procs, Running(p), Local(p)
  PROVE  LooksFirst'
<1>1. ASSUME NEW q \in Procs, Started(q)', Mode(q)' = "looked" PROVE run'[q].todo # <<>>
  <2>1. CASE q = p
    BY <1>1, <2>1, LocalMoves DEF Local
  <2>2. CASE q # p
    <3>1. run'[q] = run[q]
      BY <2>2 DEF Local, Changes
    <3> QED
      BY <1>1, <3>1, OthersStay DEF LooksFirst
  <2> QED
    BY <2>1, <2>2
<1> QED
  BY <1>1 DEF LooksFirst

(* Inside a lock, a process that takes a local step stays inside or ends.  *)
LEMMA LocalInside ==
  ASSUME Formed, NEW p \in Procs, Running(p), Local(p), NEW l
  PROVE  \/ Exit(p) /\ ~Running(p)'
         \/ /\ Inside(p, l)' = Inside(p, l)
            /\ Mode(p) \in PlanningModes <=> Mode(p)' \in PlanningModes
            /\ lock' = lock /\ usurped' = usurped /\ run'[p].scope = run[p].scope
         \/ /\ Mode(p) \notin Guarded /\ Mode(p)' \notin Guarded
            /\ LocksShrink /\ usurped' = usurped
<1>1. Mode(p)' = NewMode(p) /\ Steps(p)' = Steps(p) /\ Len(Steps(p)) \in Nat
      /\ run[p].at \in 1 .. Len(Steps(p)) /\ Cmd(p).name \in Commands
      /\ Leads(Cmd(p).name, Mode(p), Now(p), Modes(Cmd(p).name)[run[p].at + 1])
  BY LocalMoves, StepLeads DEF Now
<1>2. CASE Onward(p)
  <2>1. NewMode(p) = Modes(Cmd(p).name)[run[p].at + 1]
    BY <1>2 DEF Onward, NewMode
  <2>2. \/ Mode(p) \in PlanningModes /\ NewMode(p) \in PlanningModes
        \/ Mode(p) \in StateModes /\ NewMode(p) \in StateModes
        \/ Mode(p) \notin Guarded /\ NewMode(p) \notin Guarded
    <3>1. Leads(Cmd(p).name, Mode(p), Now(p), NewMode(p)) /\ Now(p) \notin LockSteps
      BY <1>1, <1>2, <2>1 DEF Onward
    <3> QED
      BY <1>1, <3>1, StepsInside
  <2>3. /\ Mode(p) \in PlanningModes <=> NewMode(p) \in PlanningModes
        /\ Mode(p) \in StateModes <=> NewMode(p) \in StateModes
    BY <2>2 DEF Guarded, PlanningModes, StateModes
  <2>4. Started(p) /\ Started(p)'
    BY <1>1, <1>2 DEF Onward, Started
  <2> QED
    BY <1>1, <1>2, <2>3, <2>4 DEF Onward, Inside
<1>3. CASE Outside(p)
  BY <1>1, <1>3 DEF Outside
<1>4. CASE Exit(p)
  BY <1>1, <1>4 DEF Exit, Running
<1> QED
  BY <1>2, <1>3, <1>4 DEF Local

(* Who ends inside a lock leaves no lock file of its own, and takes away   *)
(* no other that is in use, unless the lock counts as usurped then.        *)
LEMMA ExitFrees ==
  ASSUME LockInv, NEW p \in Procs, Running(p), Exit(p), NEW l \in Locks
  PROVE  /\ lock'[l] # p /\ usurped \subseteq usurped'
         /\ \/ lock'[l] = lock[l]
            \/ lock'[l] = Nobody /\ (lock[l] = p \/ ~Live(lock[l]) \/ l \in usurped')
<1> USE DEF LockInv
<1>1. PICK k \in {"state", run[p].scope} : Inside(p, k) /\ Unlinked(p, k)
  BY DEF Exit
<1>2. DOMAIN lock = Locks /\ run[p].scope # "state" /\ p # Nobody
  BY ProcessAssumption DEF Formed, CallFormed, Scopes
<1>3. \/ /\ k # "state" /\ run[p].forced /\ lock' = lock /\ usurped' = usurped
      \/ /\ lock' = [lock EXCEPT ![k] = Nobody] /\ usurped \subseteq usurped'
         /\ lock[k] = p \/ ~Live(lock[k]) \/ k \in usurped'
  BY <1>1 DEF Unlinked, locks
<1>4. lock[l] = p => l = k
  <2>1. ASSUME lock[l] = p PROVE Inside(p, l)
    BY <2>1 DEF OwnerInside, Running
  <2> QED
    BY <1>1, <1>2, <2>1 DEF Inside, PlanningModes, StateModes
<1>5. CASE k # "state" /\ run[p].forced /\ lock' = lock /\ usurped' = usurped
  <2>1. k = run[p].scope /\ lock[k] # p
    BY <1>5 DEF ForcedLockless
  <2> QED
    BY <1>4, <1>5, <2>1
<1>6. CASE /\ lock' = [lock EXCEPT ![k] = Nobody] /\ usurped \subseteq usurped'
           /\ lock[k] = p \/ ~Live(lock[k]) \/ k \in usurped'
  BY <1>2, <1>4, <1>6
<1> QED
  BY <1>3, <1>5, <1>6

(* A lock that was usurped once counts as usurped for good.                *)
LEMMA UsurpedStays ==
  ASSUME LockInv, NEW p \in Procs, Running(p), Local(p)
  PROVE  usurped \subseteq usurped'
<1>1. PICK l \in Locks : TRUE
  BY DEF Locks
<1> QED
  BY <1>1, ExitFrees DEF Local, Onward, Outside

(* A local step takes a lock away from nobody who is inside it.            *)
LEMMA LocalKeepsLocks ==
  ASSUME LockInv, NEW p \in Procs, Running(p), Local(p)
  PROVE  OwnerInside' /\ ForcedLockless' /\ InsideOwns'
<1> USE DEF LockInv
<1>1. /\ \A l \in Locks : lock'[l] \in {lock[l], Nobody, Stray}
      /\ killed' = killed /\ p \notin killed
      /\ \A q \in Procs \ {p} : run'[q] = run[q]
      /\ run'[p].forced = run[p].forced /\ run'[p].at \in Nat /\ run'[p].at > 0
  BY LocalMoves DEF Local, Changes, Formed, Running
<1>2. \A q \in Procs \ {p} :
        /\ Started(q)' = Started(q) /\ Mode(q)' = Mode(q) /\ Running(q)' = Running(q)
        /\ \A l : Inside(q, l)' = Inside(q, l)
  BY <1>1, OthersStay
<1>6. usurped \subseteq usurped'
  BY UsurpedStays
<1>3. ASSUME NEW l \in Locks, NEW q \in Procs, lock'[l] = q
      PROVE  q \in killed' \/ Inside(q, l)'
  <2>1. lock[l] = q /\ (q \in killed \/ Inside(q, l))
    BY <1>1, <1>3, ProcessAssumption DEF OwnerInside
  <2>2. CASE q # p
    BY <1>1, <1>2, <2>1, <2>2
  <2>3. CASE q = p
    <3>1. Inside(p, l) /\ Mode(p) \in Guarded
      BY <1>1, <2>1, <2>3 DEF Inside, Guarded
    <3>2. ~Exit(p)
      BY <1>3, <2>3, ExitFrees
    <3>3. Inside(p, l)'
      BY <3>1, <3>2, LocalInside
    <3> QED
      BY <2>3, <3>3
  <2> QED
    BY <2>2, <2>3
<1>4. ASSUME NEW q \in Procs, run'[q].forced
      PROVE  Started(q)' /\ (Running(q)' => Mode(q)' \in PlanningModes
                                            /\ lock'[run'[q].scope] # q)
  <2>1. CASE q # p
    <3>1. run'[q] = run[q] /\ run[q].scope \in Locks
      BY <1>1, <2>1 DEF Formed, CallFormed, Scopes, Locks
    <3>2. q \notin {Nobody, Stray}
      BY ProcessAssumption
    <3> QED
      BY <1>1, <1>2, <1>4, <2>1, <3>1, <3>2 DEF ForcedLockless
  <2>2. CASE q = p
    <3>1. Mode(p) \in PlanningModes /\ lock[run[p].scope] # p /\ Mode(p) \in Guarded
      BY <1>1, <1>4, <2>2 DEF ForcedLockless, Guarded
    <3>2. Started(p)'
      BY <1>1 DEF Started
    <3> QED
      BY <2>2, <3>1, <3>2, LocalInside
  <2> QED
    BY <2>1, <2>2
<1>5. ASSUME NEW q \in Procs, NEW l \in {"planning", "state"},
             Running(q)', Inside(q, l)', l \notin usurped'
      PROVE  lock'[l] = q
  <2>1. CASE q # p
    <3>1. lock[l] = q /\ Live(q)
      BY <1>2, <1>5, <1>6, <2>1 DEF InsideOwns, Live
    <3>2. lock'[l] = lock[l]
      <4>1. CASE Exit(p)
        BY <1>5, <2>1, <3>1, <4>1, ExitFrees DEF Locks
      <4>2. CASE ~Exit(p)
        BY <3>1, <4>2, LocalInside, ProcessAssumption DEF LocksShrink
      <4> QED
        BY <4>1, <4>2
    <3> QED
      BY <3>1, <3>2
  <2>2. CASE q = p
    <3>1. Inside(p, l) /\ lock' = lock
      <4>1. Mode(p)' \in Guarded
        BY <1>5, <2>2 DEF Inside, Guarded
      <4> QED
        BY <1>5, <2>2, <4>1, LocalInside
    <3> QED
      BY <1>5, <1>6, <2>2, <3>1 DEF InsideOwns
  <2> QED
    BY <2>1, <2>2
<1> QED
  BY <1>3, <1>4, <1>5 DEF OwnerInside, ForcedLockless, InsideOwns

(* A step on the lock l itself, and what it must see to.                   *)
Handles(p, l) ==
  /\ DOMAIN run' = Procs /\ \A q \in Procs \ {p} : run'[q] = run[q]
  /\ DOMAIN run'[p] = Fields
  /\ run'[p].cmd = run[p].cmd /\ run'[p].scope = run[p].scope
  /\ run'[p].at \in {run[p].at, run[p].at + 1}
  /\ DOMAIN lock' = Locks /\ \A k \in Locks \ {l} : lock'[k] = lock[k]
  /\ lock'[l] \in {lock[l], Nobody, p}
  /\ killed' = killed /\ usurped \subseteq usurped'
Justly(p, l) ==
  /\ Mode(p)' # "looked"
  /\ \A k \in Locks : lock'[k] = p => Inside(p, k)'
  /\ run'[p].forced =>
       Started(p)' /\ Mode(p)' \in PlanningModes /\ lock'[run'[p].scope] # p
  /\ \A k \in Locks : Inside(p, k)' /\ k \notin usurped' => lock'[k] = p
  /\ lock'[l] = lock[l] \/ lock[l] = p \/ ~Live(lock[l]) \/ l \in usurped'

(* A step on a lock that sees to all that keeps the invariant.             *)
LEMMA JustLocking ==
  ASSUME LockInv, NEW p \in Procs, Running(p), NEW l \in Locks, Handles(p, l), Justly(p, l),
         UNCHANGED pointer
  PROVE  LockInv'
<1> USE DEF LockInv
<1>1. /\ \A q \in Procs \ {p} : run'[q] = run[q]
      /\ killed' = killed /\ usurped \subseteq usurped' /\ p # Nobody
      /\ \A k \in Locks : lock'[k] \in {lock[k], Nobody, p}
                           /\ lock[k] \in Procs \cup {Nobody, Stray}
  BY ProcessAssumption DEF Handles, Formed
<1>2. \A q \in Procs \ {p} :
        /\ Started(q)' = Started(q) /\ Mode(q)' = Mode(q) /\ Running(q)' = Running(q)
        /\ \A k : Inside(q, k)' = Inside(q, k)
  BY <1>1, OthersStay
<1>3. Formed'
  <2>1. run[p].at \in 1 .. Len(Steps(p)) /\ Len(Steps(p)) \in Nat /\ CallFormed(p)
    BY StepLeads DEF Formed
  <2>2. CallFormed(p)'
    <3>1. run'[p].at \in Nat /\ run'[p].at <= Len(Steps(p)) + 1
      BY <2>1 DEF Handles
    <3>2. Cmd(p)' = Cmd(p) /\ Cmd(p) # Nothing /\ Steps(p)' = Steps(p)
      BY <2>1 DEF Handles, Cmd, CallFormed, Running, Steps
    <3> QED
      BY <2>1, <3>1, <3>2 DEF Handles, CallFormed
  <2>3. ASSUME NEW q \in Procs \ {p} PROVE CallFormed(q)'
    <3>1. run'[q] = run[q] /\ CallFormed(q)
      BY <1>1 DEF Formed
    <3> QED
      BY <3>1 DEF CallFormed, Started, Steps, Cmd
  <2>4. \A q \in Procs : CallFormed(q)'
    BY <2>2, <2>3
  <2>5. \A k \in Locks : lock'[k] \in Procs \cup {Nobody, Stray}
    BY <1>1
  <2>6. DOMAIN run' = Procs /\ DOMAIN lock' = Locks
        /\ \A k \in DOMAIN pointer' : pointer'[k] \in Streams \cup {Nothing}
    BY DEF Handles, Formed
  <2> QED
    BY <2>4, <2>5, <2>6 DEF Formed
<1>4. LooksFirst'
  <2>1. ASSUME NEW q \in Procs, Started(q)', Mode(q)' = "looked" PROVE run'[q].todo # <<>>
    <3>1. q # p
      BY <2>1 DEF Justly
    <3> QED
      BY <1>1, <1>2, <2>1, <3>1 DEF LooksFirst
  <2> QED
    BY <2>1 DEF LooksFirst
<1>5. OwnerInside'
  <2>1. ASSUME NEW k \in Locks, NEW q \in Procs, lock'[k] = q
        PROVE  q \in killed' \/ Inside(q, k)'
    <3>1. CASE q = p
      BY <2>1, <3>1 DEF Justly
    <3>2. CASE q # p
      <4>1. lock[k] = q
        BY <1>1, <2>1, <3>2, ProcessAssumption
      <4> QED
        BY <1>1, <1>2, <3>2, <4>1 DEF OwnerInside
    <3> QED
      BY <3>1, <3>2
  <2> QED
    BY <2>1 DEF OwnerInside
<1>6. ForcedLockless'
  <2>1. ASSUME NEW q \in Procs, run'[q].forced
        PROVE  Started(q)' /\ (Running(q)' => Mode(q)' \in PlanningModes
                                              /\ lock'[run'[q].scope] # q)
    <3>1. CASE q = p
      BY <2>1, <3>1 DEF Justly
    <3>2. CASE q # p
      <4>1. run'[q] = run[q] /\ run[q].scope \in Locks /\ Nobody # q
        BY <1>1, <3>2, ProcessAssumption DEF Formed, CallFormed, Scopes, Locks
      <4> QED
        BY <1>1, <1>2, <2>1, <3>2, <4>1 DEF ForcedLockless
    <3> QED
      BY <3>1, <3>2
  <2> QED
    BY <2>1 DEF ForcedLockless
<1>7. InsideOwns'
  <2>1. ASSUME NEW q \in Procs, NEW k \in {"planning", "state"},
               Running(q)', Inside(q, k)', k \notin usurped'
        PROVE  lock'[k] = q
    <3>1. CASE q = p
      BY <2>1, <3>1 DEF Justly, Locks
    <3>2. CASE q # p
      <4>1. lock[k] = q /\ Live(q)
        BY <1>1, <1>2, <2>1, <3>2 DEF InsideOwns, Live
      <4>2. CASE k = l
        BY <2>1, <3>2, <4>1, <4>2, ProcessAssumption DEF Justly
      <4>3. CASE k # l
        BY <4>1, <4>3 DEF Handles, Locks
      <4> QED
        BY <4>2, <4>3
    <3> QED
      BY <3>1, <3>2
  <2> QED
    BY <2>1 DEF InsideOwns
<1> QED
  BY <1>3, <1>4, <1>5, <1>6, <1>7

(* Before a lock nothing is held.                                          *)
LEMMA BeforeLock ==
  ASSUME LockInv, NEW p \in Procs, NEW l \in {"state", run[p].scope}, AtLock(p, l)
  PROVE  /\ Running(p) /\ l \in Locks /\ Mode(p) \notin Guarded \cup {"looked"}
         /\ ~run[p].forced /\ \A k \in Locks : lock[k] # p
         /\ Handles(p, l) /\ run'[p].at = run[p].at =>
              Mode(p)' = Mode(p) /\ \A k : ~Inside(p, k)'
         /\ Handles(p, l) /\ run'[p].at = run[p].at + 1 =>
              /\ Started(p)' /\ Mode(p)' # "looked"
              /\ l # "state" => Mode(p)' \in PlanningModes
              /\ \A k : Inside(p, k)' <=> k = l
<1> USE DEF LockInv
<1>1. Running(p) /\ run[p].scope \in Scopes /\ "state" \notin Scopes
  BY ProcessAssumption DEF AtLock, At, Formed, CallFormed, Scopes
<1>2. Now(p) = IF l = "state" THEN "lock state" ELSE "lock planning"
  BY DEF AtLock, At, Now
<1>3. Leads(Cmd(p).name, Mode(p), Now(p), Modes(Cmd(p).name)[run[p].at + 1])
      /\ run[p].at \in 1 .. Len(Steps(p)) /\ Len(Steps(p)) \in Nat
  BY <1>1, StepLeads DEF Now
<1> DEFINE n == Modes(Cmd(p).name)[run[p].at + 1]
<1>4. Mode(p) \in {"out", "derived"} /\ n \in {"planning", "state", "late"}
      /\ (l = "state" <=> n \in {"state", "late"})
  <2>1. CASE l = "state"
    <3>1. Leads(Cmd(p).name, Mode(p), "lock state", n)
      BY <1>2, <1>3, <2>1
    <3> QED
      BY <2>1, <3>1 DEF Leads, Loose
  <2>2. CASE l # "state"
    <3>1. Leads(Cmd(p).name, Mode(p), "lock planning", n)
      BY <1>2, <1>3, <2>2
    <3> QED
      BY <2>2, <3>1 DEF Leads, Loose
  <2> QED
    BY <2>1, <2>2
<1> HIDE DEF n
<1>5. Mode(p) \notin Guarded \cup {"looked"} /\ l \in Locks
  BY <1>1, <1>4 DEF Guarded, PlanningModes, StateModes, Scopes, Locks
<1>6. ~run[p].forced
  BY <1>1, <1>5 DEF ForcedLockless, Guarded
<1>7. \A k \in Locks : lock[k] # p
  <2>1. \A k : ~Inside(p, k)
    BY <1>5 DEF Inside, Guarded
  <2> QED
    BY <1>1, <2>1 DEF OwnerInside, Running
<1>8. ASSUME Handles(p, l), run'[p].at = run[p].at
      PROVE  Mode(p)' = Mode(p) /\ \A k : ~Inside(p, k)'
  <2>1. Mode(p)' = Mode(p)
    BY <1>8 DEF Handles, Mode, Cmd
  <2> QED
    BY <1>5, <2>1 DEF Inside, Guarded
<1>9. ASSUME Handles(p, l), run'[p].at = run[p].at + 1
      PROVE  /\ Started(p)' /\ Mode(p)' # "looked"
             /\ l # "state" => Mode(p)' \in PlanningModes
             /\ \A k : Inside(p, k)' <=> k = l
  <2>1. Mode(p)' = n
    BY <1>9 DEF Handles, Mode, Cmd, n
  <2>2. Started(p)' /\ run'[p].scope = run[p].scope
    BY <1>3, <1>9 DEF Handles, Started
  <2>3. Mode(p)' # "looked" /\ (l = "state" => Mode(p)' \in StateModes \ PlanningModes)
        /\ (l # "state" => Mode(p)' \in PlanningModes \ StateModes)
    BY <1>4, <2>1 DEF PlanningModes, StateModes
  <2>4. l # "state" => l = run[p].scope
    OBVIOUS
  <2>5. run[p].scope # "state"
    BY <1>1
  <2> QED
    BY <2>2, <2>3, <2>4, <2>5 DEF Inside
<1> QED
  BY <1>1, <1>5, <1>6, <1>7, <1>8, <1>9

(* The steps on the locks see to it, or end the call before its lock.      *)
LEMMA LockStepIsJust ==
  ASSUME LockInv, NEW p \in Procs, Running(p), LockStep(p)
  PROVE  Local(p) \/ \E l \in Locks : Handles(p, l) /\ Justly(p, l)
<1> USE DEF history, locks
<1>1. PICK l \in {"state", run[p].scope} :
        \/ CreateLock(p, l) \/ CreateFails(p, l) \/ FindLocked(p, l)
        \/ UnlinkStale(p, l) \/ GiveUp(p, l) \/ ReleaseLock(p, l)
  BY DEF LockStep
<1>2. /\ DOMAIN run = Procs /\ DOMAIN run[p] = Fields /\ run[p].at \in Nat
      /\ DOMAIN lock = Locks /\ run[p].scope \in Scopes /\ p \notin killed
  BY DEF LockInv, Formed, CallFormed, Running
<1>3. CASE CreateLock(p, l)
  <2>1. AtLock(p, l) /\ lock[l] = Nobody /\ run'[p].at = run[p].at + 1
        /\ lock' = [lock EXCEPT ![l] = p] /\ run'[p].forced = run[p].forced
    BY <1>2, <1>3, FieldsAre DEF CreateLock
  <2>2. l \in Locks /\ ~run[p].forced /\ \A k \in Locks : lock[k] # p
    BY <2>1, BeforeLock
  <2>3. Handles(p, l)
    BY <1>2, <1>3, <2>2, FieldsAre DEF CreateLock, Handles
  <2>4. Started(p)' /\ Mode(p)' # "looked" /\ \A k : Inside(p, k)' <=> k = l
    BY <2>1, <2>3, BeforeLock
  <2>5. Justly(p, l)
    BY <1>2, <2>1, <2>2, <2>4, ProcessAssumption DEF Justly, Locks, Live
  <2> QED
    BY <2>2, <2>3, <2>5
<1>8. CASE CreateFails(p, l) /\ l = "state"
  <2>1. AtLock(p, l) /\ lock' = lock /\ run'[p].at = run[p].at + 1
        /\ l \in usurped' /\ run'[p].scope = run[p].scope /\ run'[p].forced = run[p].forced
    BY <1>2, <1>8, FieldsAre DEF CreateFails
  <2>2. l \in Locks /\ ~run[p].forced /\ \A k \in Locks : lock[k] # p
    BY <2>1, BeforeLock
  <2>3. Handles(p, l)
    BY <1>2, <1>8, <2>2, FieldsAre DEF CreateFails, Handles
  <2>4. Started(p)' /\ Mode(p)' # "looked" /\ \A k : Inside(p, k)' <=> k = l
    BY <2>1, <2>3, BeforeLock
  <2>5. Justly(p, l)
    BY <2>1, <2>2, <2>4 DEF Justly
  <2> QED
    BY <2>2, <2>3, <2>5
<1>9. CASE CreateFails(p, l) /\ l # "state"
  <2>1. Now(p) = "lock planning" /\ Stop(p) /\ killed' = killed /\ usurped' = usurped
    BY <1>9 DEF CreateFails, AtLock, At, Now
  <2>2. l \in Locks
    BY <1>2 DEF Scopes, Locks
  <2>3. \/ lock' = lock
        \/ lock[l] = Nobody /\ lock' = [lock EXCEPT ![l] = Stray]
    BY <1>9 DEF CreateFails
  <2>4. LocksShrink
    BY <1>2, <2>2, <2>3 DEF LocksShrink, Locks
  <2> QED
    BY <2>1, <2>4, EndsBeforeLock DEF LockInv
<1>4. CASE FindLocked(p, l)
  <2>1. AtLock(p, l) /\ run'[p].at = run[p].at /\ lock' = lock
        /\ run'[p].forced = run[p].forced
    BY <1>2, <1>4, FieldsAre DEF FindLocked
  <2>2. l \in Locks /\ ~run[p].forced /\ Mode(p) \notin Guarded \cup {"looked"}
        /\ \A k \in Locks : lock[k] # p
    BY <2>1, BeforeLock
  <2>3. Handles(p, l)
    BY <1>2, <1>4, <2>2, FieldsAre DEF FindLocked, Handles
  <2>4. Mode(p)' = Mode(p) /\ \A k : ~Inside(p, k)'
    BY <2>1, <2>3, BeforeLock
  <2>5. Justly(p, l)
    BY <2>1, <2>2, <2>4 DEF Justly
  <2> QED
    BY <2>2, <2>3, <2>5
<1>5. CASE UnlinkStale(p, l)
  <2>1. AtLock(p, l) /\ lock' = [lock EXCEPT ![l] = Nobody]
        /\ run'[p].at \in {run[p].at, run[p].at + 1}
        /\ run'[p].forced = run[p].forced
        /\ (run'[p].at # run[p].at \/ Live(lock[l]) => l \in usurped')
    BY <1>2, <1>5, FieldsAre DEF UnlinkStale
  <2>2. l \in Locks /\ ~run[p].forced /\ Mode(p) \notin Guarded \cup {"looked"}
        /\ \A k \in Locks : lock[k] # p
    BY <2>1, BeforeLock
  <2>3. Handles(p, l)
    BY <1>2, <1>5, <2>1, <2>2, FieldsAre DEF UnlinkStale, Handles
  <2>4. Mode(p)' # "looked"
        /\ \A k : Inside(p, k)' => k = l /\ run'[p].at # run[p].at
    <3>1. CASE run'[p].at = run[p].at
      BY <2>1, <2>2, <2>3, <3>1, BeforeLock
    <3>2. CASE run'[p].at = run[p].at + 1
      BY <1>2, <2>1, <2>3, <3>2, BeforeLock
    <3> QED
      BY <2>1, <3>1, <3>2
  <2>5. ~Live(lock[l]) \/ l \in usurped'
    BY <2>1
  <2>6. \A k \in Locks : lock'[k] # p
    BY <1>2, <2>1, <2>2, ProcessAssumption
  <2>7. Justly(p, l)
    BY <2>1, <2>2, <2>4, <2>5, <2>6 DEF Justly
  <2> QED
    BY <2>2, <2>3, <2>7
<1>6. CASE GiveUp(p, l)
  <2>1. AtLock(p, l) /\ lock' = [lock EXCEPT ![l] = Nobody] /\ run'[p].at = run[p].at + 1
        /\ l \in usurped' /\ run'[p].scope = run[p].scope
        /\ (run'[p].forced <=> l # "state")
    BY <1>2, <1>6, FieldsAre DEF GiveUp
  <2>2. l \in Locks /\ \A k \in Locks : lock[k] # p
    BY <2>1, BeforeLock
  <2>3. Handles(p, l)
    BY <1>2, <1>6, <2>2, FieldsAre DEF GiveUp, Handles
  <2>4. /\ Started(p)' /\ Mode(p)' # "looked" /\ \A k : Inside(p, k)' <=> k = l
        /\ l # "state" => Mode(p)' \in PlanningModes
    BY <2>1, <2>3, BeforeLock
  <2>5. \A k \in Locks : lock'[k] # p
    BY <1>2, <2>1, <2>2, ProcessAssumption
  <2>6. run[p].scope \in Locks
    BY <1>2 DEF Scopes, Locks
  <2>7. Justly(p, l)
    BY <2>1, <2>4, <2>5, <2>6 DEF Justly
  <2> QED
    BY <2>2, <2>3, <2>7
<1>7. CASE ReleaseLock(p, l)
  <2>1. /\ AtUnlock(p, l) /\ run'[p].at = run[p].at + 1 /\ run'[p].forced = FALSE
        /\ run'[p].scope = run[p].scope /\ run'[p].cmd = run[p].cmd
        /\ \/ lock' = lock /\ run[p].forced
           \/ lock' = [lock EXCEPT ![l] = Nobody]
              /\ (lock[l] = p \/ ~Live(lock[l]) \/ l \in usurped')
    BY <1>2, <1>7, FieldsAre DEF ReleaseLock, Unlinked, GoWith
  <2>2. l \in Locks /\ "state" \notin Scopes
    BY <1>2, ProcessAssumption DEF Scopes, Locks
  <2>3. Handles(p, l)
    BY <1>2, <1>7, <2>2, FieldsAre DEF ReleaseLock, Unlinked, GoWith, Handles
  <2>4. Mode(p)' = "out"
    <3>1. Now(p) \in {"unlock state", "unlock planning"}
      BY <2>1 DEF AtUnlock, At, Now
    <3>2. Leads(Cmd(p).name, Mode(p), Now(p), Modes(Cmd(p).name)[run[p].at + 1])
      BY StepLeads DEF LockInv, Now
    <3>3. Modes(Cmd(p).name)[run[p].at + 1] = "out"
      BY <3>1, <3>2 DEF Leads
    <3> QED
      BY <2>1, <3>3 DEF Mode, Cmd
  <2>5. \A k : ~Inside(p, k)'
    BY <2>4 DEF Inside, PlanningModes, StateModes
  <2>6. ASSUME NEW k \in Locks, lock[k] = p PROVE k = l /\ ~run[p].forced
    <3>1. Inside(p, k) /\ (run[p].forced => Mode(p) \in PlanningModes
                                             /\ lock[run[p].scope] # p)
      BY <1>2, <2>6 DEF LockInv, OwnerInside, ForcedLockless
    <3>2. Leads(Cmd(p).name, Mode(p), Now(p), Modes(Cmd(p).name)[run[p].at + 1])
      BY StepLeads DEF LockInv, Now
    <3>3. CASE l = "state"
      <4>1. Now(p) = "unlock state"
        BY <2>1, <3>3 DEF AtUnlock, At, Now
      <4>2. Mode(p) \notin PlanningModes
        BY <3>2, <4>1 DEF Leads, Loose, PlanningModes
      <4> QED
        BY <3>1, <3>3, <4>2 DEF Inside
    <3>4. CASE l # "state"
      <4>1. Now(p) = "unlock planning" /\ l = run[p].scope
        BY <2>1, <3>4 DEF AtUnlock, At, Now
      <4>2. Mode(p) \notin StateModes
        BY <3>2, <4>1 DEF Leads, Loose, StateModes
      <4>3. k = run[p].scope
        BY <3>1, <4>2 DEF Inside
      <4> QED
        BY <2>6, <3>1, <4>1, <4>3
    <3> QED
      BY <3>3, <3>4
  <2>7. \A k \in Locks : lock'[k] # p
    BY <1>2, <2>1, <2>2, <2>6, ProcessAssumption
  <2>8. Justly(p, l)
    BY <2>1, <2>2, <2>4, <2>5, <2>7 DEF Justly
  <2> QED
    BY <2>2, <2>3, <2>8
<1> QED
  BY <1>1, <1>3, <1>4, <1>5, <1>6, <1>7, <1>8, <1>9

(* So every step keeps the invariant.                                      *)
LEMMA LocalKeeps ==
  ASSUME LockInv, NEW p \in Procs, Running(p), Local(p), PointersStay
  PROVE  LockInv'
BY LocalStaysFormed, LocalKeepsLooking, LocalKeepsLocks DEF LockInv

(* Those on the locks do.                                                  *)
LEMMA LockStepKeeps ==
  ASSUME LockInv, NEW p \in Procs, Running(p), LockStep(p), UNCHANGED pointer
  PROVE  LockInv'
<1>1. PointersStay
  BY DEF PointersStay, LockInv, Formed
<1> QED
  BY <1>1, LockStepIsJust, JustLocking, LocalKeeps

(* A call begins with nothing in hand.                                     *)
LEMMA CallKeeps ==
  ASSUME LockInv, NEW p \in Procs, Call(p), UNCHANGED pointer
  PROVE  LockInv'
<1> USE DEF LockInv
<1>1. /\ \A q \in Procs \ {p} : run'[q] = run[q]
      /\ DOMAIN run' = Procs /\ run[p].at = 0 /\ run' = [run EXCEPT ![p].at = 1]
      /\ lock' = lock /\ killed' = killed /\ usurped' = usurped
      /\ Cmd(p) # Nothing /\ Cmd(p).name \in Commands /\ DOMAIN run[p] = Fields
  <2>1. CallFormed(p) /\ DOMAIN run = Procs
    BY DEF Formed
  <2>2. run[p].at = 0 /\ Cmd(p) # Nothing /\ Go(p)
    BY <2>1 DEF Call, CallFormed, Started
  <2>3. run' = [run EXCEPT ![p].at = 1]
    BY <2>2 DEF Go
  <2>4. lock' = lock /\ killed' = killed /\ usurped' = usurped
    BY DEF Call, locks
  <2> QED
    BY <2>1, <2>2, <2>3, <2>4 DEF CallFormed
<1>2. /\ run'[p].at = 1 /\ run'[p].cmd = run[p].cmd /\ run'[p].scope = run[p].scope
      /\ run'[p].forced = run[p].forced /\ DOMAIN run'[p] = Fields
  BY <1>1, FieldsAre DEF Formed
<1>3. Mode(p)' = "out" /\ Len(Steps(p)) \in Nat /\ Steps(p)' = Steps(p)
  BY <1>1, <1>2, ModesAre DEF Mode, Steps, Cmd
<1>4. \A k : ~Inside(p, k)'
  BY <1>3 DEF Inside, PlanningModes, StateModes
<1>5. \A q \in Procs \ {p} :
        /\ Started(q)' = Started(q) /\ Mode(q)' = Mode(q) /\ Running(q)' = Running(q)
        /\ \A k : Inside(q, k)' = Inside(q, k)
  BY <1>1, OthersStay
<1>6. ~Started(p) /\ ~run[p].forced
  BY <1>1 DEF Started, ForcedLockless
<1>7. Formed'
  <2>1. CallFormed(p)'
    <3>1. CallFormed(p) /\ Cmd(p)' = Cmd(p) /\ 1 <= Len(Steps(p)) + 1
      BY <1>2, <1>3 DEF Formed, Cmd
    <3> QED
      BY <1>1, <1>2, <1>3, <3>1 DEF CallFormed
  <2>2. ASSUME NEW q \in Procs \ {p} PROVE CallFormed(q)'
    <3>1. run'[q] = run[q] /\ CallFormed(q)
      BY <1>1 DEF Formed
    <3> QED
      BY <3>1 DEF CallFormed, Started, Steps, Cmd
  <2>3. \A q \in Procs : CallFormed(q)'
    BY <2>1, <2>2
  <2> QED
    BY <1>1, <2>3 DEF Formed
<1>8. LooksFirst'
  BY <1>1, <1>3, <1>5 DEF LooksFirst
<1>9. OwnerInside'
  BY <1>1, <1>5, <1>6 DEF OwnerInside, Inside
<1>10. ForcedLockless'
  BY <1>1, <1>2, <1>5, <1>6 DEF ForcedLockless
<1>11. InsideOwns'
  BY <1>1, <1>4, <1>5 DEF InsideOwns
<1> QED
  BY <1>7, <1>8, <1>9, <1>10, <1>11

(* A kill and the age of a lock change nothing of this.                    *)
LEMMA KillKeeps ==
  ASSUME LockInv, killed \subseteq killed', UNCHANGED <<lock, run, usurped, pointer>>
  PROVE  LockInv'
<1> USE DEF LockInv
<1>1. \A q \in Procs :
        /\ Started(q)' = Started(q) /\ Mode(q)' = Mode(q) /\ (Running(q)' => Running(q))
        /\ CallFormed(q)' = CallFormed(q) /\ \A k : Inside(q, k)' = Inside(q, k)
  BY DEF Started, Mode, Running, CallFormed, Inside, Steps, Cmd
<1>2. Formed' /\ LooksFirst'
  BY <1>1 DEF Formed, LooksFirst
<1>3. OwnerInside' /\ ForcedLockless' /\ InsideOwns'
  BY <1>1 DEF OwnerInside, ForcedLockless, InsideOwns
<1> QED
  BY <1>2, <1>3

(* All of it holds before anything is called,                              *)
LEMMA LockInvInit == Init => LockInv
<1> SUFFICES ASSUME Init PROVE LockInv
  OBVIOUS
<1>1. PICK w \in Sessions : SpaceInit(w.space) /\ ProcessInit(w.calls)
  BY DEF Init
<1>2. /\ run = [p \in Procs |-> ToCall(w.calls[p])]
      /\ lock = [l \in Locks |-> Nobody] /\ pointer = w.space.pointer
  BY <1>1 DEF ProcessInit, SpaceInit
<1>3. ASSUME NEW p \in Procs
      PROVE  /\ run[p].cmd = w.calls[p] /\ run[p].at = 0 /\ run[p].forced = FALSE
             /\ run[p].scope = "planning" /\ DOMAIN run[p] = Fields
  BY <1>2, FieldsAre DEF ToCall
<1>4. ASSUME NEW p \in Procs PROVE ~Started(p) /\ CallFormed(p)
  <2>1. w.calls[p] # Nothing =>
           /\ w.calls[p].name \in Commands
           /\ w.calls[p].name \in SpaceCommands =>
                /\ w.calls[p].stream \in Streams \cup {Nothing}
                /\ w.calls[p].into \in Streams \cup {Nothing}
                /\ w.calls[p].key \in DOMAIN w.space.pointer
           /\ w.calls[p].name \in Movers => w.calls[p].stream \in Streams
    BY SessionsAssumption
  <2>2. /\ run[p].cmd = w.calls[p] /\ run[p].at = 0 /\ run[p].scope = "planning"
        /\ DOMAIN run[p] = Fields
    BY <1>3
  <2>3. ~Started(p)
    BY <2>2 DEF Started
  <2>4. Cmd(p) = w.calls[p] /\ run[p].scope \in Scopes /\ run[p].at \in Nat
    BY <2>2 DEF Cmd, Scopes
  <2> QED
    BY <1>2, <2>1, <2>2, <2>3, <2>4 DEF CallFormed
<1>5. Formed
  BY <1>2, <1>4, SessionsAssumption DEF Formed
<1>6. LooksFirst /\ OwnerInside /\ ForcedLockless /\ InsideOwns
  BY <1>2, <1>3, <1>4, ProcessAssumption
     DEF LooksFirst, OwnerInside, ForcedLockless, InsideOwns, Inside
<1> QED
  BY <1>5, <1>6 DEF LockInv

(* and every step keeps it.                                                *)
LEMMA LockInvStep ==
  ASSUME LockInv, [Next]_vars
  PROVE  LockInv'
<1>1. CASE UNCHANGED vars
  BY <1>1, KillKeeps DEF vars, locks, history, layoutVars, space
<1>2. ASSUME NEW p \in Procs, Step(p) PROVE LockInv'
  <2>1. Running(p) /\ Formed /\ LooksFirst
    BY <1>2 DEF Step, LockInv
  <2>2. CASE LockStep(p) /\ UNCHANGED layoutVars
    BY <2>1, <2>2, LockStepKeeps DEF layoutVars, space
  <2>3. ASSUME Local(p), PointersStay PROVE LockInv'
    BY <2>1, <2>3, LocalKeeps
  <2>4. CASE PhaseStep(p) /\ UNCHANGED layoutVars
    BY <2>1, <2>3, <2>4, PhaseStepIsLocal DEF layoutVars, space, PointersStay, Formed
  <2>5. CASE Is(p, SpaceCommands) /\ SpaceStep(p)
    BY <2>1, <2>3, <2>5, SpaceStepIsLocal, PointersAreKept
  <2>6. CASE Is(p, ProfileCommands) /\ ProfileStep(p) /\ UNCHANGED layoutVars
    BY <2>1, <2>3, <2>6, ProfileStepIsLocal DEF layoutVars, space, PointersStay, Formed
  <2>7. CASE KnowledgeStep(p) /\ UNCHANGED layoutVars
    BY <2>1, <2>3, <2>7, KnowledgeStepIsLocal DEF layoutVars, space, PointersStay, Formed
  <2> QED
    BY <1>2, <2>2, <2>4, <2>5, <2>6, <2>7 DEF Step
<1>3. ASSUME NEW p \in Procs, Call(p) \/ Kill(p), UNCHANGED layoutVars PROVE LockInv'
  BY <1>3, CallKeeps, KillKeeps DEF Kill, locks, layoutVars, space
<1>4. ASSUME NEW l \in Locks, Age(l), UNCHANGED layoutVars PROVE LockInv'
  BY <1>4, KillKeeps DEF Age, history, layoutVars, space
<1> QED
  BY <1>1, <1>2, <1>3, <1>4 DEF Next

(* Whatever is called, whoever waits, gives up or is killed: who is inside *)
(* a lock nobody usurped has locked it, and a lock file that is there is   *)
(* that of a call inside the lock, of a killed process, or of nobody that  *)
(* runs: one that could be created and not be filled, or that a rollback   *)
(* has put back (Stray).                                                   *)
THEOREM LocksAreOwned == Spec => []LockInv
<1>1. Init => LockInv
  BY LockInvInit
<1>2. LockInv /\ [Next]_vars => LockInv'
  BY LockInvStep
<1> QED
  BY <1>1, <1>2, PTL DEF Spec

-----------------------------------------------------------------------------
(***************************************************************************)
(* What the locks are for.                                                 *)
(***************************************************************************)
(* A set of numbers has a least one.                                       *)
LEMMA LeastNumber ==
    ASSUME NEW T, T \subseteq Nat, T # {}
    PROVE  \E m \in T : \A k \in T : m <= k
<1> DEFINE R == OpToRel(<, Nat)
<1>1. IsWellFoundedOn(R, Nat)
  BY NatLessThanWellFounded
<1>2. \A k, m \in Nat : <<k, m>> \in R <=> k < m
  BY DEF OpToRel
<1> HIDE DEF R
<1>3. PICK m \in T : \A k \in T : ~(<<k, m>> \in R)
  BY <1>1, WFMin
<1>4. ASSUME NEW k \in T PROVE m <= k
  <2>1. k \in Nat /\ m \in Nat
    OBVIOUS
  <2>2. ~(k < m)
    BY <1>2, <1>3, <2>1
  <2> QED
    BY <2>1, <2>2
<1> QED
  BY <1>3, <1>4

(* Before a step inside the lock comes the last one before the section.    *)
LEMMA SectionBegins ==
  ASSUME NEW n \in Nat, n > 0, NEW w, NEW K, w[1] \notin K, w[n] \in K
  PROVE  \E i \in 1 .. n - 1 : w[i] \notin K /\ \A k \in i + 1 .. n : w[k] \in K
<1> DEFINE S == {d \in Nat : d < n /\ w[n - d] \notin K}
<1>1. n - 1 \in S /\ n - 1 \in Nat
  OBVIOUS
<1>2. PICK d \in S : \A e \in S : d <= e
  BY <1>1, LeastNumber
<1>3. n - d \in 1 .. n - 1 /\ w[n - d] \notin K
  BY <1>2
<1>4. ASSUME NEW k \in n - d + 1 .. n PROVE w[k] \in K
  <2>1. n - k \in Nat /\ n - k < d /\ n - (n - k) = k
    BY <1>2, <1>4
  <2>2. n - k \notin S
    BY <1>2, <2>1
  <2> QED
    BY <1>2, <2>1, <2>2
<1> QED
  BY <1>3, <1>4

(* Whoever is inside a lock has passed the step that locks, and not the    *)
(* one that unlocks.                                                       *)
LEMMA InsideHolds ==
  ASSUME LockInv, NEW p \in Procs, NEW l \in Locks, Inside(p, l), p \notin killed
  PROVE  Holding(p, l)
<1> DEFINE c == Cmd(p).name  w == Modes(c)  n == run[p].at
           K == IF l = "state" THEN StateModes ELSE PlanningModes
           Locking   == IF l = "state" THEN "lock state" ELSE "lock planning"
           Unlocking == IF l = "state" THEN "unlock state" ELSE "unlock planning"
<1>1. w[n] \in K /\ "out" \notin K /\ l \in {"state", run[p].scope}
  BY DEF Inside, Mode, StateModes, PlanningModes
<1>2. c \in Commands /\ n \in Nat /\ n > 0 /\ n <= Len(Steps(p)) + 1
  BY DEF LockInv, Formed, CallFormed, Inside, Started
<1>3. w[1] = "out" /\ w[Len(Steps(p)) + 1] = "out" /\ Len(Steps(p)) \in Nat
      /\ \A i \in 1 .. Len(Steps(p)) : Leads(c, w[i], Steps(p)[i], w[i + 1])
  BY <1>2, ModesAre DEF Steps, Cmd
<1>4. n <= Len(Steps(p)) /\ Running(p)
  BY <1>1, <1>2, <1>3 DEF Running, Inside
<1>5. PICK i \in 1 .. n - 1 : w[i] \notin K /\ \A k \in i + 1 .. n : w[k] \in K
  <2>1. n \in Nat /\ n > 0 /\ w[1] \notin K /\ w[n] \in K
    BY <1>1, <1>2, <1>3
  <2> HIDE DEF w, n, K
  <2> QED
    BY <2>1, SectionBegins
<1>6. Steps(p)[i] = Locking
  <2>1. Leads(c, w[i], Steps(p)[i], w[i + 1]) /\ w[i + 1] \in K
    BY <1>2, <1>3, <1>4, <1>5
  <2> HIDE DEF w, c
  <2> QED
    BY <1>5, <2>1 DEF Leads, StateModes, PlanningModes
<1>7. ASSUME NEW k \in i + 1 .. n - 1 PROVE Steps(p)[k] # Unlocking
  <2>1. Leads(c, w[k], Steps(p)[k], w[k + 1]) /\ w[k + 1] \in K
    BY <1>2, <1>3, <1>4, <1>5
  <2> HIDE DEF w, c
  <2> QED
    BY <2>1 DEF Leads, Loose, StateModes, PlanningModes
<1> QED
  BY <1>1, <1>4, <1>6, <1>7 DEF Holding

(* LockFileHasOwner: every lock file is that of a call inside the lock, or *)
(* of a process that was killed, or is Stray: no return, no error(), no    *)
(* failing write inside the lock and no wait that ends leaves one behind;  *)
(* only a creation that fails halfway and the rollback of a completion do, *)
(* for any number of processes, calls, tries and faults.                   *)
THEOREM LockFilesAreOwned == Spec => []LockFileHasOwner
<1>1. LockInv => LockFileHasOwner
  <2> SUFFICES ASSUME LockInv, NEW l \in Locks, lock[l] \notin {Nobody, Stray}
               PROVE  lock[l] \in killed \/ Holding(lock[l], l)
    BY DEF LockFileHasOwner
  <2>1. lock[l] \in Procs /\ (lock[l] \in killed \/ Inside(lock[l], l))
    BY DEF LockInv, Formed, OwnerInside
  <2> QED
    BY <2>1, InsideHolds
<1> QED
  BY <1>1, LocksAreOwned, PTL

-----------------------------------------------------------------------------
(***************************************************************************)
(* What a call has read under the lock stays as it was read.               *)
(***************************************************************************)
ReadStands(p) ==
  /\ Running(p) /\ Mode(p) = "roadmap" /\ "planning" \notin usurped => run[p].text = roadmap
  /\ Running(p) /\ Mode(p) = "body" /\ "state" \notin usurped => run[p].body = state

ReadsStand == \A p \in Procs : ReadStands(p)

(* Two processes in one lock: it has been usurped.                         *)
LEMMA TwoInside ==
  ASSUME LockInv, NEW p \in Procs, NEW q \in Procs \ {p}, Running(p), Running(q)
  PROVE  /\ Mode(p) = "roadmap" /\ Mode(q) = "roadmap" => "planning" \in usurped
         /\ Mode(p) \in StateModes /\ Mode(q) \in StateModes => "state" \in usurped
<1> USE DEF LockInv
<1>1. ASSUME NEW r \in Procs, Running(r), Mode(r) = "roadmap" PROVE Inside(r, "planning")
  <2>1. Leads(Cmd(r).name, "roadmap", Now(r), Modes(Cmd(r).name)[run[r].at + 1])
    BY <1>1, StepLeads DEF Now
  <2>2. Cmd(r).name \in PhaseCommands
    BY <2>1 DEF Leads
  <2>3. run[r].scope = "planning"
    BY <1>1, <2>2 DEF Formed, CallFormed, Running
  <2> QED
    BY <1>1, <2>3 DEF Inside, Running, PlanningModes
<1>2. \A r \in Procs : Running(r) /\ Mode(r) \in StateModes => Inside(r, "state")
  BY DEF Inside, Running
<1> QED
  BY <1>1, <1>2 DEF InsideOwns

(* Where the modes after a read come from.                                 *)
LEMMA LeadsToRead ==
  ASSUME NEW c, NEW m, NEW x, NEW n, Leads(c, m, x, n), n \in {"roadmap", "body"}
  PROVE  /\ c \in PhaseCommands
         /\ n = "roadmap" => x = "read roadmap" \/ (x = "make directory" /\ m = "roadmap")
         /\ n = "body" => x = "read state"
BY DEF Leads

(* The same, for a process that takes a local step.                        *)
LEMMA ReadsBefore ==
  ASSUME Formed, NEW p \in Procs, Running(p), Local(p), Mode(p)' \in {"roadmap", "body"}
  PROVE  /\ Cmd(p).name \in PhaseCommands
         /\ Mode(p)' = "roadmap" =>
              Now(p) = "read roadmap" \/ (Now(p) = "make directory" /\ Mode(p) = "roadmap")
         /\ Mode(p)' = "body" => Now(p) = "read state"
<1>1. Cmd(p).name \in Commands /\ Len(Steps(p)) \in Nat
      /\ Leads(Cmd(p).name, Mode(p), Now(p), Modes(Cmd(p).name)[run[p].at + 1])
  BY StepLeads DEF Now
<1>2. Mode(p)' = NewMode(p) /\ Modes(Cmd(p).name)[Len(Steps(p)) + 1] = "out"
  BY <1>1, LocalMoves, ModesAre DEF Steps, Cmd
<1>3. Onward(p)
  BY <1>2 DEF Local, Outside, Exit, NewMode, Guarded, PlanningModes, StateModes
<1>4. Leads(Cmd(p).name, Mode(p), Now(p), Mode(p)')
  BY <1>1, <1>2, <1>3 DEF Onward, NewMode
<1> QED
  BY <1>4, LeadsToRead

(* The steps of a phase command that read or write those files.            *)
LEMMA PhaseStepTouches ==
  ASSUME NEW p \in Procs, PhaseStep(p)
  PROVE  \/ ReadRoadmap(p) \/ MakeDirectory(p) \/ WriteRoadmap(p)
         \/ ReadState(p) \/ WriteState(p)
         \/ MakeDirectoryFails(p) \/ WriteRoadmapFails(p) \/ WriteStateFails(p)
         \/ /\ Now(p) \notin {"read roadmap", "make directory", "read state"}
            /\ UNCHANGED <<roadmap, state>>
<1>1. CASE FindPhaseDir(p) \/ DeleteDirectory(p) \/ ListDirectories(p) \/ RenameDirectory(p)
  BY <1>1 DEF FindPhaseDir, DeleteDirectory, ListDirectories, RenameDirectory, files, At, Now
<1>2. CASE ClearDirectories(p) \/ ArchiveDirectories(p) \/ WriteSummary(p) \/ Manage(p)
  BY <1>2 DEF ClearDirectories, ArchiveDirectories, WriteSummary, Manage, files, At, Now
<1>3. CASE ReadRequirements(p) \/ WriteRequirements(p) \/ Scan(p) \/ FindNext(p)
  BY <1>3 DEF ReadRequirements, WriteRequirements, Scan, FindNext, files, At, Now
<1>4. CASE ReadCutoff(p) \/ DeriveState(p) \/ ReadArchive(p) \/ WriteArchive(p)
  BY <1>4 DEF ReadCutoff, DeriveState, ReadArchive, WriteArchive, files, At, Now
<1>5. CASE RenameFails(p) \/ WriteRequirementsFails(p) \/ WriteArchiveFails(p)
  BY <1>5 DEF RenameFails, WriteRequirementsFails, WriteArchiveFails, files, At, Now
<1> QED
  BY <1>1, <1>2, <1>3, <1>4, <1>5 DEF PhaseStep

(* What others have read stands, unless someone else writes it in the lock. *)
LEMMA OthersReadsStand ==
  ASSUME ReadsStand, NEW q \in Procs, run'[q] = run[q], killed \subseteq killed',
         usurped \subseteq usurped',
         Running(q) /\ Mode(q) = "roadmap" /\ roadmap' # roadmap => "planning" \in usurped,
         Running(q) /\ Mode(q) = "body" /\ state' # state => "state" \in usurped
  PROVE  ReadStands(q)'
<1>1. Mode(q)' = Mode(q) /\ (Running(q)' => Running(q))
  BY DEF Mode, Running, Started, Steps, Cmd
<1> QED
  BY <1>1 DEF ReadsStand, ReadStands

(* A phase command's own step.                                             *)
LEMMA PhaseReadsStand ==
  ASSUME LockInv, ReadsStand, NEW p \in Procs, Running(p), PhaseStep(p), Local(p)
  PROVE  ReadsStand'
<1> USE DEF LockInv
<1>1. /\ \A q \in Procs \ {p} : run'[q] = run[q]
      /\ killed' = killed /\ usurped \subseteq usurped' /\ DOMAIN run[p] = Fields
      /\ DOMAIN run = Procs
  BY UsurpedStays DEF Local, Changes, Formed, CallFormed
<1>8. Stop(p) => Mode(p)' = "out"
  <2>1. ASSUME Stop(p) PROVE run'[p].at = Len(Steps(p)) + 1 /\ Cmd(p).name \in Commands
    BY <2>1, StopChanges, StepLeads DEF Changes
  <2> QED
    BY <2>1, LocalMoves, ModesAre DEF NewMode, Steps, Cmd
<1>2. Leads(Cmd(p).name, Mode(p), Now(p), Modes(Cmd(p).name)[run[p].at + 1])
  BY StepLeads DEF Now
<1>3. (roadmap' # roadmap => Mode(p) = "roadmap")
      /\ (state' # state => Mode(p) \in StateModes)
  <2>1. CASE UNCHANGED <<roadmap, state>>
    BY <2>1
  <2>2. CASE WriteRoadmap(p) \/ WriteRoadmapFails(p)
    <3>1. Now(p) = "write roadmap" /\ state' = state
      BY <2>2 DEF WriteRoadmap, WriteRoadmapFails, At, Now
    <3>2. Leads(Cmd(p).name, Mode(p), "write roadmap", Modes(Cmd(p).name)[run[p].at + 1])
      BY <1>2, <3>1
    <3> QED
      BY <3>1, <3>2 DEF Leads, Loose
  <2>3. CASE WriteState(p) \/ WriteStateFails(p)
    <3>1. Now(p) = "write state" /\ roadmap' = roadmap
      BY <2>3 DEF WriteState, WriteStateFails, At, Now
    <3>2. Leads(Cmd(p).name, Mode(p), "write state", Modes(Cmd(p).name)[run[p].at + 1])
      BY <1>2, <3>1
    <3> QED
      BY <3>1, <3>2 DEF Leads, Loose, StateModes
  <2>4. CASE ReadRoadmap(p) \/ MakeDirectory(p) \/ MakeDirectoryFails(p) \/ ReadState(p)
    BY <2>4 DEF ReadRoadmap, MakeDirectory, MakeDirectoryFails, ReadState, files
  <2> QED
    BY <2>1, <2>2, <2>3, <2>4, PhaseStepTouches
<1>4. ASSUME NEW q \in Procs \ {p} PROVE ReadStands(q)'
  <2>1. Running(q) /\ Mode(q) = "roadmap" /\ roadmap' # roadmap => "planning" \in usurped
    BY <1>3, TwoInside
  <2>2. Running(q) /\ Mode(q) = "body" /\ state' # state => "state" \in usurped
    BY <1>3, TwoInside DEF StateModes
  <2> QED
    BY <1>1, <2>1, <2>2, OthersReadsStand
<1>5. ASSUME Mode(p)' = "roadmap", "planning" \notin usurped PROVE run'[p].text = roadmap'
  <2>1. Now(p) = "read roadmap" \/ (Now(p) = "make directory" /\ Mode(p) = "roadmap")
    BY <1>5, ReadsBefore
  <2>2. ReadRoadmap(p) \/ MakeDirectory(p)
    <3>1. ~Stop(p)
      BY <1>5, <1>8
    <3> QED
      BY <2>1, <3>1, PhaseStepTouches
         DEF WriteRoadmap, ReadState, WriteState, MakeDirectoryFails, WriteRoadmapFails,
             WriteStateFails, At, Now
  <2>3. CASE ReadRoadmap(p)
    <3>1. roadmap' = roadmap
      BY <2>3 DEF ReadRoadmap, files
    <3>2. CASE GoWith(p, "text", roadmap)
      BY <1>1, <3>1, <3>2, FieldsAre DEF GoWith
    <3> QED
      BY <1>5, <1>8, <2>3, <3>2 DEF ReadRoadmap
  <2>4. CASE MakeDirectory(p)
    <3>1. Now(p) = "make directory" /\ roadmap' = roadmap
      BY <2>4 DEF MakeDirectory, At, Now
    <3>2. run[p].text = roadmap
      BY <1>5, <2>1, <3>1 DEF ReadsStand, ReadStands
    <3>3. \E v : GoWith(p, "num", v)
      BY <2>4 DEF MakeDirectory
    <3>4. run'[p].text = run[p].text
      BY <1>1, <3>3, FieldsAre DEF GoWith
    <3> QED
      BY <3>1, <3>2, <3>4
  <2> QED
    BY <2>2, <2>3, <2>4
<1>6. ASSUME Mode(p)' = "body" PROVE run'[p].body = state'
  <2>1. Now(p) = "read state"
    BY <1>6, ReadsBefore
  <2>2. ReadState(p)
    BY <2>1, PhaseStepTouches
       DEF ReadRoadmap, MakeDirectory, WriteRoadmap, WriteState, MakeDirectoryFails,
           WriteRoadmapFails, WriteStateFails, At, Now
  <2> QED
    BY <1>1, <2>2, FieldsAre DEF ReadState, GoWith, files
<1>7. ReadStands(p)'
  BY <1>1, <1>5, <1>6 DEF ReadStands
<1> QED
  BY <1>4, <1>7 DEF ReadsStand

(* A step that touches neither file, of a process that has read neither.   *)
LEMMA AwayReadsStand ==
  ASSUME ReadsStand, NEW p \in Procs, \A q \in Procs \ {p} : run'[q] = run[q],
         killed \subseteq killed', usurped \subseteq usurped', UNCHANGED <<roadmap, state>>,
         Mode(p)' \notin {"roadmap", "body"}
  PROVE  ReadsStand'
<1>1. \A q \in Procs \ {p} : ReadStands(q)'
  BY OthersReadsStand
<1>2. ReadStands(p)'
  BY DEF ReadStands
<1> QED
  BY <1>1, <1>2 DEF ReadsStand

(* A step on a lock: nothing is in hand before it or after it.             *)
LEMMA LockReadsStand ==
  ASSUME LockInv, ReadsStand, NEW p \in Procs, Running(p), LockStep(p),
         UNCHANGED <<roadmap, state>>
  PROVE  ReadsStand'
<1> USE DEF LockInv
<1>1. PICK l \in {"state", run[p].scope} :
        \/ CreateLock(p, l) \/ CreateFails(p, l) \/ FindLocked(p, l)
        \/ UnlinkStale(p, l) \/ GiveUp(p, l) \/ ReleaseLock(p, l)
  BY DEF LockStep
<1>2. DOMAIN run = Procs /\ DOMAIN run[p] = Fields
  BY DEF Formed, CallFormed
<1>3. Now(p) \in LockSteps
  BY <1>1 DEF CreateLock, CreateFails, FindLocked, UnlinkStale, GiveUp, ReleaseLock, AtLock,
              AtUnlock, At, Now, LockSteps
<1>4. /\ \A q \in Procs \ {p} : run'[q] = run[q]
      /\ run'[p].cmd = run[p].cmd
      /\ run'[p].at \in {run[p].at, run[p].at + 1, Len(Steps(p)) + 1}
      /\ killed' = killed /\ usurped \subseteq usurped'
  <2>1. CASE CreateLock(p, l)
    BY <1>2, <2>1, FieldsAre DEF CreateLock, history
  <2>2. CASE FindLocked(p, l)
    BY <1>2, <2>2, FieldsAre DEF FindLocked, history
  <2>3. CASE UnlinkStale(p, l)
    BY <1>2, <2>3, FieldsAre DEF UnlinkStale, history
  <2>4. CASE GiveUp(p, l)
    BY <1>2, <2>4, FieldsAre DEF GiveUp, history
  <2>5. CASE ReleaseLock(p, l)
    BY <1>2, <2>5, FieldsAre DEF ReleaseLock, Unlinked, GoWith
  <2>6. CASE CreateFails(p, l) /\ l = "state"
    BY <1>2, <2>6, FieldsAre DEF CreateFails
  <2>7. CASE CreateFails(p, l) /\ l # "state"
    <3>1. Stop(p) /\ killed' = killed /\ usurped' = usurped
      BY <2>7 DEF CreateFails
    <3> QED
      BY <3>1, StopChanges DEF Changes
  <2> QED
    BY <1>1, <2>1, <2>2, <2>3, <2>4, <2>5, <2>6, <2>7
<1>5. /\ Leads(Cmd(p).name, Mode(p), Now(p), Modes(Cmd(p).name)[run[p].at + 1])
      /\ Modes(Cmd(p).name)[Len(Steps(p)) + 1] = "out"
  BY StepLeads, ModesAre DEF Now, Steps, Cmd
<1>6. {Mode(p), Modes(Cmd(p).name)[run[p].at + 1]} \cap {"roadmap", "body"} = {}
  BY <1>3, <1>5 DEF Leads, Loose, LockSteps
<1>7. Mode(p)' \notin {"roadmap", "body"}
  <2>1. Mode(p)' \in {Mode(p), Modes(Cmd(p).name)[run[p].at + 1], "out"}
    BY <1>4, <1>5 DEF Mode, Cmd
  <2> QED
    BY <1>6, <2>1
<1> QED
  BY <1>4, <1>7, AwayReadsStand

(* Every step keeps what has been read under a lock.                       *)
LEMMA ReadsStandStep ==
  ASSUME LockInv, ReadsStand, [Next]_vars
  PROVE  ReadsStand'
<1> USE DEF LockInv
<1>1. CASE UNCHANGED vars
  BY <1>1, OthersReadsStand DEF vars, locks, history, phaseVars, files, ReadsStand
<1>2. ASSUME NEW p \in Procs, Step(p) PROVE ReadsStand'
  <2>1. Running(p) /\ Formed /\ LooksFirst
    BY <1>2 DEF Step
  <2>2. ASSUME Local(p), Cmd(p).name \notin PhaseCommands, UNCHANGED phaseVars
        PROVE ReadsStand'
    <3>1. Mode(p)' \notin {"roadmap", "body"}
      BY <2>1, <2>2, ReadsBefore
    <3>2. UNCHANGED <<roadmap, state>>
      BY <2>2 DEF phaseVars, files
    <3> QED
      BY <2>1, <2>2, <3>1, <3>2, UsurpedStays, AwayReadsStand DEF Local, Changes
  <2>3. CASE LockStep(p) /\ UNCHANGED phaseVars
    BY <2>1, <2>3, LockReadsStand DEF phaseVars, files
  <2>4. CASE PhaseStep(p)
    BY <2>1, <2>4, PhaseStepIsLocal, PhaseReadsStand
  <2>5. CASE Is(p, SpaceCommands) /\ SpaceStep(p) /\ UNCHANGED phaseVars
    <3>1. Cmd(p).name \notin PhaseCommands
      BY <2>5, CommandsAre DEF Is, Cmd
    <3> QED
      BY <2>1, <2>2, <2>5, <3>1, SpaceStepIsLocal
  <2>6. CASE Is(p, ProfileCommands) /\ ProfileStep(p) /\ UNCHANGED phaseVars
    <3>1. Cmd(p).name \notin PhaseCommands
      BY <2>6, CommandsAre DEF Is, Cmd
    <3> QED
      BY <2>1, <2>2, <2>6, <3>1, ProfileStepIsLocal
  <2>7. CASE Is(p, KnowledgeCommands) /\ KnowledgeStep(p) /\ UNCHANGED phaseVars
    <3>1. Cmd(p).name \notin PhaseCommands
      BY <2>7, CommandsAre DEF Is, Cmd
    <3> QED
      BY <2>1, <2>2, <2>7, <3>1, KnowledgeStepIsLocal
  <2> QED
    BY <1>2, <2>3, <2>4, <2>5, <2>6, <2>7 DEF Step
<1>3. ASSUME NEW p \in Procs, Call(p), UNCHANGED phaseVars PROVE ReadsStand'
  <2>1. /\ \A q \in Procs \ {p} : run'[q] = run[q]
        /\ run'[p].at = 1 /\ run'[p].cmd = run[p].cmd /\ Cmd(p).name \in Commands
        /\ killed' = killed /\ usurped' = usurped
    <3>1. CallFormed(p) /\ DOMAIN run = Procs
      BY DEF Formed
    <3>2. run[p].at = 0 /\ Cmd(p).name \in Commands /\ run' = [run EXCEPT ![p].at = @ + 1]
      BY <1>3, <3>1 DEF Call, CallFormed, Started, Go
    <3> QED
      BY <1>3, <3>1, <3>2, FieldsAre DEF Call, CallFormed, locks, history
  <2>2. Mode(p)' = "out"
    BY <2>1, ModesAre DEF Mode, Cmd
  <2> QED
    BY <1>3, <2>1, <2>2, AwayReadsStand DEF phaseVars, files
<1>4. ASSUME NEW p \in Procs, Kill(p), UNCHANGED phaseVars PROVE ReadsStand'
  BY <1>4, OthersReadsStand DEF Kill, locks, phaseVars, files, ReadsStand
<1>5. ASSUME NEW l \in Locks, Age(l), UNCHANGED phaseVars PROVE ReadsStand'
  BY <1>5, OthersReadsStand DEF Age, history, phaseVars, files, ReadsStand
<1> QED
  BY <1>1, <1>2, <1>3, <1>4, <1>5 DEF Next

(* What a call has read under a lock nobody usurped is what is there when  *)
(* it writes, whatever the others do and whoever is killed: no update of   *)
(* ROADMAP.md or STATE.md is lost but through the locks that are taken     *)
(* away, or taken too late.                                                *)
THEOREM UpdatesAreKept == Spec => []NoUpdateIsLost
<1>1. Init => ReadsStand
  <2> SUFFICES ASSUME Init PROVE ReadsStand
    OBVIOUS
  <2>1. \A p \in Procs : ~Started(p)
    BY DEF Init, ProcessInit, ToCall, Started
  <2> QED
    BY <2>1 DEF ReadsStand, ReadStands, Running
<1>2. LockInv /\ ReadsStand /\ [Next]_vars => ReadsStand'
  BY ReadsStandStep
<1>3. LockInv /\ ReadsStand => NoUpdateIsLost
  <2> SUFFICES ASSUME LockInv, ReadsStand, NEW p \in Procs
               PROVE  /\ At(p, "write roadmap") => Running(p) /\ Mode(p) = "roadmap"
                      /\ At(p, "write state") /\ ~Is(p, LateLocking) =>
                           Running(p) /\ Mode(p) = "body"
    BY DEF NoUpdateIsLost, ReadsStand, ReadStands
  <2>1. ASSUME At(p, "write roadmap") PROVE Running(p) /\ Mode(p) = "roadmap"
    <3>1. Running(p) /\ Now(p) = "write roadmap"
      BY <2>1, AtNow
    <3>2. Leads(Cmd(p).name, Mode(p), "write roadmap", Modes(Cmd(p).name)[run[p].at + 1])
      BY <3>1, StepLeads DEF Now, LockInv
    <3> QED
      BY <3>1, <3>2 DEF Leads, Loose
  <2>2. ASSUME At(p, "write state"), ~Is(p, LateLocking) PROVE Running(p) /\ Mode(p) = "body"
    <3>1. Running(p) /\ Now(p) = "write state" /\ Cmd(p).name \notin LateLocking
      BY <2>2, AtNow DEF Is, Cmd, Running
    <3>2. Leads(Cmd(p).name, Mode(p), "write state", Modes(Cmd(p).name)[run[p].at + 1])
      BY <3>1, StepLeads DEF Now, LockInv
    <3> QED
      BY <3>1, <3>2 DEF Leads, Loose
  <2> QED
    BY <2>1, <2>2
<1> QED
  BY <1>1, <1>2, <1>3, LocksAreOwned, PTL DEF Spec

-----------------------------------------------------------------------------
(***************************************************************************)
(* Where the programs come to the steps that throw something away.         *)
(***************************************************************************)
CutSteps    == {"read cutoff", "read archive", "write archive"}
RemoveSteps == {"delete directory"}
Cutters     == {"complete", "prune"}

\* The steps before the pruning.
Before(c) == IF c = "complete" THEN 12 ELSE 0

Avoids(s, X) == (\E Y : s \in Seq(Y)) /\ \A i \in 1 .. Len(s) : s[i] \notin X

(* Blocks that avoid a step make a program that does.                      *)
LEMMA AvoidsJoin ==
  ASSUME NEW s, NEW t, NEW X, Avoids(s, X), Avoids(t, X)
  PROVE  Avoids(s \o t, X)
<1>1. PICK S, T : s \in Seq(S) /\ t \in Seq(T)
  BY DEF Avoids
<1>2. s \in Seq(S \cup T) /\ t \in Seq(S \cup T)
  BY <1>1
<1>3. s \o t \in Seq(S \cup T)
  BY <1>2
<1>4. ASSUME NEW i \in 1 .. Len(s \o t) PROVE (s \o t)[i] \notin X
  <2>1. CASE i <= Len(s)
    BY <1>2, <2>1 DEF Avoids
  <2>2. CASE i > Len(s)
    <3>1. i - Len(s) \in 1 .. Len(t) /\ (s \o t)[i] = t[i - Len(s)]
      BY <1>2, <2>2
    <3> QED
      BY <3>1 DEF Avoids
  <2> QED
    BY <1>2, <2>1, <2>2
<1> QED
  BY <1>3, <1>4 DEF Avoids

(* What is joined keeps its places.                                        *)
LEMMA JoinPlaces ==
  ASSUME NEW s, NEW t, NEW S, NEW T, s \in Seq(S), t \in Seq(T)
  PROVE  /\ s \o t \in Seq(S \cup T) /\ Len(s \o t) = Len(s) + Len(t)
         /\ \A i \in 1 .. Len(s) : (s \o t)[i] = s[i]
         /\ \A i \in 1 .. Len(t) : (s \o t)[Len(s) + i] = t[i]
<1>1. s \in Seq(S \cup T) /\ t \in Seq(S \cup T)
  OBVIOUS
<1>2. s \o t \in Seq(S \cup T) /\ Len(s \o t) = Len(s) + Len(t)
  BY <1>1
<1>3. \A i \in 1 .. Len(s) : (s \o t)[i] = s[i]
  BY <1>1
<1>4. ASSUME NEW i \in 1 .. Len(t) PROVE (s \o t)[Len(s) + i] = t[i]
  BY <1>1
<1> QED
  BY <1>2, <1>3, <1>4

(* What is put together from other steps avoids a step.                    *)
LEMMA AvoidsOthers ==
  ASSUME NEW s, NEW S, NEW X, s \in Seq(S), S \cap X = {}
  PROVE  Avoids(s, X)
<1>1. \A i \in 1 .. Len(s) : s[i] \in S
  OBVIOUS
<1> QED
  BY <1>1 DEF Avoids

(* The blocks, their lengths and what they avoid.                          *)
LEMMA BlocksAvoid ==
  LET X == CutSteps \cup RemoveSteps  W == {"write state"} IN
  /\ Avoids(StateCycle, X) /\ Avoids(LateLock, X)
  /\ Avoids(RoadmapCycle(<<>>), X \cup W) /\ Len(RoadmapCycle(<<>>)) = 3
  /\ Avoids(RoadmapCycle(<<"make directory">>), X \cup W)
  /\ Avoids(Unlock, X \cup W) /\ Len(Unlock) = 1
  /\ Len(StateCycle) = 4
<1> USE DEF CutSteps, RemoveSteps
<1>1. /\ StateCycle \in Seq({"lock state", "read state", "write state", "unlock state"})
      /\ Len(StateCycle) = 4
  BY DEF StateCycle
<1>2. LateLock \in Seq({"derive state", "lock state", "write state", "unlock state"})
  BY DEF LateLock
<1>3. Unlock \in Seq({"unlock planning"}) /\ Len(Unlock) = 1
  BY DEF Unlock
<1> DEFINE a == <<"lock planning", "read roadmap">>  b == <<"write roadmap">>
           d == <<"make directory">>  e == <<>>
<1>4. /\ a \in Seq({"lock planning", "read roadmap"}) /\ b \in Seq({"write roadmap"})
      /\ d \in Seq({"make directory"}) /\ e \in Seq({}) /\ Len(a) = 2 /\ Len(b) = 1
      /\ Len(e) = 0
  OBVIOUS
<1>5. RoadmapCycle(e) = (a \o e) \o b /\ RoadmapCycle(d) = (a \o d) \o b
  BY DEF RoadmapCycle
<1> HIDE DEF a, b, d, e
<1> DEFINE X == CutSteps \cup RemoveSteps \cup {"write state"}
<1>7. Avoids(a, X) /\ Avoids(b, X) /\ Avoids(d, X) /\ Avoids(e, X) /\ Avoids(Unlock, X)
  <2>1. /\ {"lock planning", "read roadmap"} \cap X = {} /\ {"write roadmap"} \cap X = {}
        /\ {"make directory"} \cap X = {} /\ {} \cap X = {} /\ {"unlock planning"} \cap X = {}
    OBVIOUS
  <2> HIDE DEF X
  <2>2. Avoids(a, X) /\ Avoids(b, X)
    BY <1>4, <2>1, AvoidsOthers
  <2>3. Avoids(d, X) /\ Avoids(e, X)
    BY <1>4, <2>1, AvoidsOthers
  <2>4. Avoids(Unlock, X)
    BY <1>3, <2>1, AvoidsOthers
  <2> QED
    BY <2>2, <2>3, <2>4
<1>8. Avoids(RoadmapCycle(e), X) /\ Avoids(RoadmapCycle(d), X)
  <2> HIDE DEF X
  <2>1. Avoids(a \o e, X) /\ Avoids(a \o d, X)
    BY <1>7, AvoidsJoin
  <2> QED
    BY <1>5, <1>7, <2>1, AvoidsJoin
<1>9. Len(RoadmapCycle(e)) = 3
  <2> DEFINE A == {"lock planning", "read roadmap"}  B == {"write roadmap"}
  <2>1. a \in Seq(A) /\ b \in Seq(B) /\ e \in Seq({})
    BY <1>4
  <2> HIDE DEF A, B
  <2>2. a \o e \in Seq(A \cup {}) /\ Len(a \o e) = Len(a) + Len(e)
    BY <2>1, JoinPlaces
  <2>3. Len((a \o e) \o b) = Len(a \o e) + Len(b)
    BY <2>1, <2>2, JoinPlaces
  <2>4. Len(a) = 2 /\ Len(e) = 0 /\ Len(b) = 1
    BY <1>4
  <2>7. Len(a \o e) = 2 + 0
    BY <2>2, <2>4
  <2>5. Len((a \o e) \o b) = 3
    BY <2>7, <2>3, <2>4
  <2>6. RoadmapCycle(e) = (a \o e) \o b
    BY <1>5
  <2> HIDE DEF a, b
  <2> QED
    BY <2>5, <2>6
<1> DEFINE Y == CutSteps \cup RemoveSteps
<1>10. Avoids(StateCycle, Y)
  <2>1. {"lock state", "read state", "write state", "unlock state"} \cap Y = {}
    OBVIOUS
  <2> HIDE DEF Y
  <2> QED
    BY <1>1, <2>1, AvoidsOthers
<1>11. Avoids(LateLock, Y)
  <2>1. {"derive state", "lock state", "write state", "unlock state"} \cap Y = {}
    OBVIOUS
  <2> HIDE DEF Y
  <2> QED
    BY <1>2, <2>1, AvoidsOthers
<1> QED
  BY <1>1, <1>3, <1>7, <1>8, <1>9, <1>10, <1>11 DEF d, e

(* The programs that neither prune nor remove, and the ones that never     *)
(* write STATE.md.                                                         *)
StateReaders == {"add", "insert", "progress", "annotate", "requirements", "clear",
                 "execute", "manage"}

(* The other programs prune and remove nothing, and some leave STATE.md    *)
(* alone.                                                                  *)
LEMMA QuietPrograms ==
  /\ \A c \in PhaseCommands \ {"remove", "complete", "prune"} :
       Avoids(PhaseProgram[c], CutSteps \cup RemoveSteps)
  /\ \A c \in StateReaders : Avoids(PhaseProgram[c], {"write state"})
<1> DEFINE X == CutSteps \cup RemoveSteps
           W == {"write state"}
           Calm(c) == Avoids(PhaseProgram[c], X)
           Reads(c) == Avoids(PhaseProgram[c], X \cup W)
<1>1. /\ Avoids(StateCycle, X) /\ Avoids(LateLock, X)
      /\ Avoids(RoadmapCycle(<<>>), X \cup W)
      /\ Avoids(RoadmapCycle(<<"make directory">>), X \cup W)
      /\ Avoids(Unlock, X \cup W)
  BY BlocksAvoid
<1>2. /\ {"find phase"} \cap (X \cup W) = {} /\ {"scan"} \cap X = {}
      /\ {"read state"} \cap X = {} /\ {"scan", "read state"} \cap X = {}
      /\ {"read requirements", "write requirements"} \cap (X \cup W) = {}
      /\ {"archive directories"} \cap X = {} /\ {"clear directories"} \cap (X \cup W) = {}
      /\ {"write summary"} \cap (X \cup W) = {} /\ {"manage"} \cap (X \cup W) = {}
  BY DEF CutSteps, RemoveSteps
<1> HIDE DEF X, W
<1> DEFINE One(x) == <<x>>
<1>3. \A x : One(x) \in Seq({x})
  OBVIOUS
<1>4. /\ Avoids(One("find phase"), X \cup W) /\ Avoids(One("scan"), X)
      /\ Avoids(One("read state"), X) /\ Avoids(One("archive directories"), X)
      /\ Avoids(One("clear directories"), X \cup W)
      /\ Avoids(One("write summary"), X \cup W) /\ Avoids(One("manage"), X \cup W)
  <2> HIDE DEF One
  <2> QED
    BY <1>2, <1>3, AvoidsOthers
<1>5. /\ Avoids(<<"scan", "read state">>, X)
      /\ Avoids(<<"read requirements", "write requirements">>, X \cup W)
  <2> DEFINE a == <<"scan", "read state">>  A == {"scan", "read state"}
             b == <<"read requirements", "write requirements">>
             B == {"read requirements", "write requirements"}
  <2>1. a \in Seq(A) /\ b \in Seq(B)
    OBVIOUS
  <2>2. A \cap X = {} /\ B \cap (X \cup W) = {}
    BY <1>2
  <2> HIDE DEF a, b, A, B
  <2>3. Avoids(a, X) /\ Avoids(b, X \cup W)
    BY <2>1, <2>2, AvoidsOthers
  <2> QED
    BY <2>3 DEF a, b
<1>6. \A c \in {"add", "insert"} : Reads(c)
  <2>1. /\ PhaseProgram["add"] = RoadmapCycle(<<"make directory">>) \o Unlock
        /\ PhaseProgram["insert"] = RoadmapCycle(<<"make directory">>) \o Unlock
    BY DEF PhaseProgram
  <2> QED
    BY <1>1, <2>1, AvoidsJoin
<1>7. \A c \in {"progress", "annotate"} : Reads(c)
  <2>1. /\ PhaseProgram["progress"] = (One("find phase") \o RoadmapCycle(<<>>)) \o Unlock
        /\ PhaseProgram["annotate"] = (One("find phase") \o RoadmapCycle(<<>>)) \o Unlock
    BY DEF PhaseProgram
  <2> HIDE DEF One
  <2>2. Avoids(One("find phase") \o RoadmapCycle(<<>>), X \cup W)
    BY <1>1, <1>4, AvoidsJoin
  <2> QED
    BY <1>1, <2>1, <2>2, AvoidsJoin
<1>8. Reads("requirements")
  BY <1>5 DEF PhaseProgram
<1>9. Reads("clear") /\ Reads("execute") /\ Reads("manage")
  <2>1. /\ PhaseProgram["clear"] = One("clear directories")
        /\ PhaseProgram["execute"] = One("write summary")
        /\ PhaseProgram["manage"] = One("manage")
    BY DEF PhaseProgram
  <2> QED
    BY <1>4, <2>1
<1>10. \A c \in {"begin", "advance", "decide", "block", "resolve", "measure", "session"} :
         Calm(c)
  <2>1. /\ PhaseProgram["begin"] = StateCycle /\ PhaseProgram["advance"] = StateCycle
        /\ PhaseProgram["decide"] = StateCycle /\ PhaseProgram["block"] = StateCycle
        /\ PhaseProgram["resolve"] = StateCycle /\ PhaseProgram["measure"] = StateCycle
        /\ PhaseProgram["session"] = StateCycle
    BY DEF PhaseProgram
  <2> QED
    BY <1>1, <2>1
<1>11. \A c \in {"update", "planned", "sync"} : Calm(c)
  <2>1. /\ PhaseProgram["update"] = One("scan") \o StateCycle
        /\ PhaseProgram["planned"] = One("read state") \o LateLock
        /\ PhaseProgram["sync"] = One("read state") \o LateLock
    BY DEF PhaseProgram
  <2> HIDE DEF One
  <2> QED
    BY <1>1, <1>4, <2>1, AvoidsJoin
<1>12. Calm("milestone")
  <2> DEFINE a == <<"scan", "read state">> \o LateLock
  <2>1. PhaseProgram["milestone"] = a \o One("archive directories")
    BY DEF PhaseProgram
  <2>2. Avoids(a, X)
    BY <1>1, <1>5, AvoidsJoin
  <2> HIDE DEF a, One
  <2> QED
    BY <1>4, <2>1, <2>2, AvoidsJoin
<1>13. \A s : Avoids(s, X \cup W) => Avoids(s, X) /\ Avoids(s, W)
  BY DEF Avoids
<1> HIDE DEF Calm, Reads
<1>14. \A c \in StateReaders : Reads(c)
  BY <1>6, <1>7, <1>8, <1>9 DEF StateReaders
<1>15. \A c \in StateReaders : Calm(c) /\ Avoids(PhaseProgram[c], W)
  BY <1>13, <1>14 DEF Reads, Calm
<1>16. \A c \in PhaseCommands \ {"remove", "complete", "prune"} : Calm(c)
  BY <1>10, <1>11, <1>12, <1>15, CommandsAre DEF StateReaders
<1> QED
  BY <1>15, <1>16 DEF Calm, X, W

(* A removal looks and then deletes, in that order, and nowhere else.      *)
Removal(t) ==
  /\ \E Y : t \in Seq(Y)
  /\ Len(t) > 0 /\ t[1] = "find phase"
  /\ \A i \in 1 .. Len(t) : t[i] \notin CutSteps /\ (t[i] \in RemoveSteps => i = 2)

(* phase remove looks at its first step and deletes at its second.         *)
LEMMA RemovePlaces ==
  /\ PhaseProgram["remove"][1] = "find phase"
  /\ \A i \in 1 .. Len(PhaseProgram["remove"]) :
       /\ PhaseProgram["remove"][i] \notin CutSteps
       /\ PhaseProgram["remove"][i] \in RemoveSteps => i = 2
<1> DEFINE X == CutSteps \cup RemoveSteps
           s == <<"find phase", "delete directory", "list directories", "rename directory">>
           S == {"find phase", "delete directory", "list directories", "rename directory"}
           b == RoadmapCycle(<<>>)
           T == (s \o b) \o Unlock
<1>1. PhaseProgram["remove"] = T \o StateCycle
  BY DEF PhaseProgram
<1>2. /\ s \in Seq(S) /\ Len(s) = 4 /\ s[1] = "find phase"
      /\ \A i \in 1 .. 4 : s[i] \notin CutSteps /\ (s[i] \in RemoveSteps => i = 2)
  BY DEF CutSteps, RemoveSteps
<1>3. Avoids(b, X) /\ Avoids(Unlock, X) /\ Avoids(StateCycle, X)
  BY BlocksAvoid DEF Avoids
<1>4. ASSUME NEW t, NEW u, Removal(t), Len(t) >= 4, Avoids(u, X)
      PROVE  Removal(t \o u) /\ Len(t \o u) >= 4
  <2> DEFINE w == t \o u
  <2>1. PICK A, B : t \in Seq(A) /\ u \in Seq(B)
    BY <1>4 DEF Avoids, Removal
  <2>2. /\ w \in Seq(A \cup B) /\ Len(w) = Len(t) + Len(u)
        /\ \A i \in 1 .. Len(t) : w[i] = t[i]
        /\ \A i \in 1 .. Len(u) : w[Len(t) + i] = u[i]
    BY <2>1, JoinPlaces
  <2>3. Len(t) \in Nat /\ Len(u) \in Nat
    BY <2>1
  <2> HIDE DEF w
  <2>4. ASSUME NEW i \in 1 .. Len(w)
        PROVE  w[i] \notin CutSteps /\ (w[i] \in RemoveSteps => i = 2)
    <3>1. CASE i <= Len(t)
      <4>1. i \in 1 .. Len(t) /\ w[i] = t[i]
        BY <2>2, <2>3, <3>1
      <4> QED
        BY <1>4, <4>1 DEF Removal
    <3>2. CASE ~(i <= Len(t))
      <4>1. i - Len(t) \in 1 .. Len(u) /\ i = Len(t) + (i - Len(t))
        BY <2>2, <2>3, <3>2
      <4>2. w[i] = u[i - Len(t)]
        BY <2>2, <4>1
      <4> QED
        BY <1>4, <4>1, <4>2 DEF Avoids
    <3> QED
      BY <3>1, <3>2
  <2>8. Len(t) >= 4 /\ Len(w) = Len(t) + Len(u)
    BY <1>4, <2>2
  <2>6. 1 \in 1 .. Len(t) /\ Len(w) >= 4
    BY <2>3, <2>8
  <2>5. w[1] = "find phase" /\ Len(w) > 0
    <3>1. w[1] = t[1] /\ t[1] = "find phase"
      BY <1>4, <2>2, <2>6 DEF Removal
    <3>2. Len(w) > 0
      BY <2>2, <2>3, <2>6
    <3> QED
      BY <3>1, <3>2
  <2>7. Removal(w)
    BY <2>2, <2>4, <2>5 DEF Removal
  <2>9. Removal(w) /\ Len(w) >= 4
    BY <2>6, <2>7
  <2> QED
    BY <2>9 DEF w
<1>5. Removal(s) /\ Len(s) >= 4
  <2> HIDE DEF s, S
  <2>1. s \in Seq(S)
    BY <1>2
  <2>5. Len(s) = 4 /\ s[1] = "find phase"
    BY <1>2
  <2>2. \E Y : s \in Seq(Y)
    BY <2>1
  <2>3. Len(s) > 0 /\ Len(s) >= 4
    <3>1. \A n \in Nat : n = 4 => n > 0 /\ n >= 4
      OBVIOUS
    <3>2. Len(s) \in Nat
      BY <2>1
    <3>3. Len(s) = 4
      BY <2>5
    <3> QED
      BY <3>1, <3>2, <3>3
  <2>4. \A i \in 1 .. Len(s) : s[i] \notin CutSteps /\ (s[i] \in RemoveSteps => i = 2)
    BY <1>2
  <2> QED
    BY <2>2, <2>3, <2>4, <2>5 DEF Removal
<1> HIDE DEF s, b, X
<1>6. Removal(s \o b) /\ Len(s \o b) >= 4
  BY <1>3, <1>4, <1>5
<1>7. Removal(T) /\ Len(T) >= 4
  BY <1>3, <1>4, <1>6
<1> HIDE DEF T
<1>8. Removal(T \o StateCycle)
  BY <1>3, <1>4, <1>7
<1> QED
  BY <1>1, <1>8 DEF Removal

(* The pruning: its seven steps, behind what comes before them.            *)
PruneSteps(s, k) ==
  /\ s[k + 1] = "read cutoff" /\ s[k + 2] = "lock state" /\ s[k + 3] = "read state"
  /\ s[k + 4] = "write state" /\ s[k + 5] = "unlock state"
  /\ s[k + 6] = "read archive" /\ s[k + 7] = "write archive"

(* The steps of a pruning, one by one.                                     *)
LEMMA PruneCycleSteps ==
  /\ Len(PruneCycle) = 7 /\ PruneSteps(PruneCycle, 0)
  /\ \E Y : PruneCycle \in Seq(Y)
<1> DEFINE a == <<"read cutoff">>  b == <<"read archive", "write archive">>
           c == <<"lock state", "read state", "write state", "unlock state">>
           A == {"read cutoff"}  B == {"read archive", "write archive"}
           C == {"lock state", "read state", "write state", "unlock state"}
           d == a \o c
<1>1. PruneCycle = d \o b
  BY DEF PruneCycle, StateCycle
<1>2. a \in Seq(A) /\ b \in Seq(B) /\ c \in Seq(C)
  OBVIOUS
<1>3. /\ a[1] = "read cutoff" /\ b[1] = "read archive" /\ b[2] = "write archive"
      /\ c[1] = "lock state" /\ c[2] = "read state" /\ c[3] = "write state"
      /\ c[4] = "unlock state"
  OBVIOUS
<1>4. Len(a) = 1 /\ Len(b) = 2 /\ Len(c) = 4
  OBVIOUS
<1> HIDE DEF a, b, c, A, B, C
<1>5. /\ d \in Seq(A \cup C) /\ Len(d) = Len(a) + Len(c)
      /\ \A i \in 1 .. Len(a) : d[i] = a[i]
      /\ \A i \in 1 .. Len(c) : d[Len(a) + i] = c[i]
  BY <1>2, JoinPlaces
<1>6. Len(d) = 1 + 4
  BY <1>4, <1>5
<1>7. \A i \in 1 .. 4 : d[1 + i] = c[i]
  BY <1>4, <1>5
<1>8. d[1] = a[1]
  BY <1>4, <1>5
<1>20. d \in Seq(A \cup C)
  BY <1>5
<1> HIDE DEF d
<1>9. /\ d \o b \in Seq((A \cup C) \cup B) /\ Len(d \o b) = Len(d) + Len(b)
      /\ \A i \in 1 .. Len(d) : (d \o b)[i] = d[i]
      /\ \A i \in 1 .. Len(b) : (d \o b)[Len(d) + i] = b[i]
  <2> DEFINE D == A \cup C
  <2>1. d \in Seq(D) /\ b \in Seq(B)
    BY <1>2, <1>20
  <2> HIDE DEF D
  <2>2. /\ d \o b \in Seq(D \cup B) /\ Len(d \o b) = Len(d) + Len(b)
        /\ \A i \in 1 .. Len(d) : (d \o b)[i] = d[i]
        /\ \A i \in 1 .. Len(b) : (d \o b)[Len(d) + i] = b[i]
    BY <2>1, JoinPlaces
  <2> QED
    BY <2>2 DEF D
<1> DEFINE e == d \o b
<1>10. Len(e) = 5 + 2 /\ (\A i \in 1 .. 5 : e[i] = d[i]) /\ (\A i \in 1 .. 2 : e[5 + i] = b[i])
  BY <1>4, <1>6, <1>9
<1>11. \E Y : e \in Seq(Y)
  BY <1>9
<1> HIDE DEF e
<1>12. e[1] = d[1] /\ (\A i \in 1 .. 4 : e[1 + i] = d[1 + i])
  <2>1. \A i \in 1 .. 4 : 1 + i \in 1 .. 5
    OBVIOUS
  <2>2. 1 \in 1 .. 5
    OBVIOUS
  <2> QED
    BY <1>10, <2>1, <2>2
<1>13. \A i \in 1 .. 4 : e[1 + i] = c[i]
  BY <1>7, <1>12
<1>14. e[0 + 1] = "read cutoff"
  <2>1. e[0 + 1] = a[1]
    BY <1>8, <1>12
  <2> QED
    BY <1>3, <2>1, Zenon
<1>15. /\ e[0 + 2] = "lock state" /\ e[0 + 3] = "read state" /\ e[0 + 4] = "write state"
       /\ e[0 + 5] = "unlock state"
  <2>1. e[1 + 1] = c[1] /\ e[1 + 2] = c[2] /\ e[1 + 3] = c[3] /\ e[1 + 4] = c[4]
    BY <1>13
  <2>2. 1 + 1 = 0 + 2 /\ 1 + 2 = 0 + 3 /\ 1 + 3 = 0 + 4 /\ 1 + 4 = 0 + 5
    OBVIOUS
  <2>3. e[0 + 2] = c[1] /\ e[0 + 3] = c[2] /\ e[0 + 4] = c[3] /\ e[0 + 5] = c[4]
    BY <2>1, <2>2
  <2> QED
    BY <1>3, <2>3, Zenon
<1>16. e[0 + 6] = "read archive" /\ e[0 + 7] = "write archive"
  <2>1. e[5 + 1] = b[1] /\ e[5 + 2] = b[2]
    BY <1>10
  <2>2. e[0 + 6] = b[1] /\ e[0 + 7] = b[2]
    BY <2>1
  <2> QED
    BY <1>3, <2>2, Zenon
<1>17. PruneSteps(e, 0)
  BY <1>14, <1>15, <1>16 DEF PruneSteps
<1>18. Len(e) = 7
  BY <1>10
<1>19. PruneCycle = e
  BY <1>1 DEF e
<1> QED
  BY <1>11, <1>17, <1>18, <1>19

(* state prune prunes at once, phase complete behind twelve other steps.   *)
LEMMA PrunePlaces ==
  ASSUME NEW c \in Cutters
  PROVE  /\ Len(PhaseProgram[c]) = Before(c) + 7
         /\ PruneSteps(PhaseProgram[c], Before(c))
         /\ \A i \in 1 .. Before(c) : PhaseProgram[c][i] \notin CutSteps \cup RemoveSteps
<1>1. CASE c = "prune"
  <2>1. PhaseProgram[c] = PruneCycle /\ Before(c) = 0
    BY <1>1 DEF PhaseProgram, Before
  <2> QED
    BY <2>1, PruneCycleSteps
<1>2. CASE c = "complete"
  <2> DEFINE X == CutSteps \cup RemoveSteps
             g == <<"find phase">>  G == {"find phase"}
             r == <<"read requirements", "write requirements">>
             R == {"read requirements", "write requirements"}
             n == <<"find next">>  N == {"find next"}
             a == g \o RoadmapCycle(<<>>)
             b == a \o r
             d == b \o Unlock
             e == d \o n
             f == e \o StateCycle
  <2> DEFINE Part(s, k) == Avoids(s, X) /\ Len(s) = k
  <2>1. PhaseProgram[c] = f \o PruneCycle /\ Before(c) = 12
    BY <1>2 DEF PhaseProgram, Before
  <2>2. g \in Seq(G) /\ r \in Seq(R) /\ n \in Seq(N)
    OBVIOUS
  <2>3. Len(g) = 1 /\ Len(r) = 2 /\ Len(n) = 1
    OBVIOUS
  <2>4. G \cap X = {} /\ R \cap X = {} /\ N \cap X = {}
    BY DEF CutSteps, RemoveSteps
  <2>5. /\ Part(RoadmapCycle(<<>>), 3) /\ Part(Unlock, 1) /\ Part(StateCycle, 4)
    BY BlocksAvoid DEF Avoids
  <2> HIDE DEF X, g, G, r, R, n, N
  <2>6. Part(g, 1) /\ Part(r, 2) /\ Part(n, 1)
    BY <2>2, <2>3, <2>4, AvoidsOthers
  <2>7. ASSUME NEW s, NEW t, NEW j \in Nat, NEW k \in Nat, Part(s, j), Part(t, k)
        PROVE  Part(s \o t, j + k)
    <3>1. PICK S, T : s \in Seq(S) /\ t \in Seq(T)
      BY <2>7 DEF Avoids
    <3>2. Len(s \o t) = Len(s) + Len(t)
      BY <3>1, JoinPlaces
    <3>3. Avoids(s \o t, X)
      BY <2>7, AvoidsJoin
    <3>4. Len(s \o t) = j + k
      BY <2>7, <3>2
    <3> QED
      BY <3>3, <3>4
  <2> HIDE DEF Part
  <2>8. Part(a, 1 + 3)
    BY <2>5, <2>6, <2>7
  <2> HIDE DEF a
  <2>9. Part(b, 4 + 2)
    BY <2>6, <2>7, <2>8
  <2> HIDE DEF b
  <2>10. Part(d, 6 + 1)
    BY <2>5, <2>7, <2>9
  <2> HIDE DEF d
  <2>11. Part(e, 7 + 1)
    BY <2>6, <2>7, <2>10
  <2> HIDE DEF e
  <2>12. Part(f, 8 + 4)
    BY <2>5, <2>7, <2>11
  <2> HIDE DEF f
  <2>13. Avoids(f, X) /\ Len(f) = 12
    BY <2>12 DEF Part
  <2>14. PICK F, P : f \in Seq(F) /\ PruneCycle \in Seq(P)
    BY <2>13, PruneCycleSteps DEF Avoids
  <2> DEFINE w == f \o PruneCycle
  <2>15. /\ Len(w) = Len(f) + Len(PruneCycle)
         /\ \A i \in 1 .. Len(f) : w[i] = f[i]
         /\ \A i \in 1 .. Len(PruneCycle) : w[Len(f) + i] = PruneCycle[i]
    BY <2>14, JoinPlaces
  <2> HIDE DEF w
  <2>16. Len(w) = 12 + 7
    BY <2>13, <2>15, PruneCycleSteps
  <2>17. \A i \in 1 .. 12 : w[i] = f[i] /\ f[i] \notin X
    BY <2>13, <2>15 DEF Avoids
  <2>18. \A i \in 1 .. 7 : w[12 + i] = PruneCycle[0 + i]
    BY <2>13, <2>15, PruneCycleSteps
  <2>19. PruneSteps(w, 12)
    <3>1. /\ w[12 + 1] = PruneCycle[0 + 1] /\ w[12 + 2] = PruneCycle[0 + 2]
          /\ w[12 + 3] = PruneCycle[0 + 3] /\ w[12 + 4] = PruneCycle[0 + 4]
          /\ w[12 + 5] = PruneCycle[0 + 5] /\ w[12 + 6] = PruneCycle[0 + 6]
          /\ w[12 + 7] = PruneCycle[0 + 7]
      BY <2>18
    <3> QED
      BY <3>1, PruneCycleSteps DEF PruneSteps
  <2>20. PhaseProgram[c] = w
    BY <2>1 DEF w
  <2> QED
    BY <2>1, <2>16, <2>17, <2>19, <2>20 DEF X
<1> QED
  BY <1>1, <1>2 DEF Cutters

-----------------------------------------------------------------------------
(***************************************************************************)
(* What the commands make of the entries of STATE.md.                      *)
(***************************************************************************)
(* t has the entries of st, and maybe more.                                *)
Keeps(st, t) ==
  "entries" \in DOMAIN st => "entries" \in DOMAIN t /\ st.entries \subseteq t.entries

(* What keeps the entries keeps them when it goes on,                      *)
LEMMA KeepsOn ==
  ASSUME NEW r, NEW s, NEW t, Keeps(r, s), Keeps(s, t)
  PROVE  Keeps(r, t)
BY DEF Keeps

(* and so does what sets another field.                                    *)
LEMMA SetKeeps ==
  ASSUME NEW st, NEW f, NEW v, f # "entries"
  PROVE  Keeps(st, Set(st, f, v))
BY DEF Keeps, Set

(* The frontmatter is no entry.                                            *)
LEMMA SyncedKeeps ==
  ASSUME NEW st, NEW dirs, NEW text, "entries" \in DOMAIN st
  PROVE  /\ "entries" \in DOMAIN Synced(st, dirs, text)
         /\ Synced(st, dirs, text).entries = st.entries
<1>1. PICK fm : Synced(st, dirs, text) = [st EXCEPT !.fm = fm]
  BY DEF Synced
<1> QED
  BY <1>1

(* So does state begin-phase,                                              *)
LEMMA BegunKeeps == \A st, num, count : Keeps(st, BegunPhase(st, num, count))
<1> TAKE st, num, count
<1> DEFINE a == Set(st, "status", "Executing")  b == Set(a, "phase", num)
           c == Set(b, "plan", 1)  d == Set(c, "total", count)
<1>1. Keeps(st, a) /\ Keeps(a, b) /\ Keeps(b, c) /\ Keeps(c, d)
  <2> HIDE DEF a, b, c
  <2>1. Keeps(c, d)
    BY SetKeeps
  <2>2. Keeps(b, c)
    BY SetKeeps DEF c
  <2>3. Keeps(a, b)
    BY SetKeeps DEF b
  <2>4. Keeps(st, a)
    BY SetKeeps DEF a
  <2> QED
    BY <2>1, <2>2, <2>3, <2>4
<1>2. BegunPhase(st, num, count) \in {c, d}
  BY DEF BegunPhase
<1> HIDE DEF a, b, c, d
<1>3. Keeps(st, c) /\ Keeps(st, d)
  BY <1>1, KeepsOn
<1> QED
  BY <1>2, <1>3

(* state advance-plan,                                                     *)
LEMMA AdvancedKeeps == \A st : Keeps(st, AdvancedPlan(st))
<1> TAKE st
<1> DEFINE a == Set(st, "status", "Phase complete")  b == Set(st, "plan", st.plan + 1)
           c == Set(b, "status", "Ready to execute")
<1>1. Keeps(st, st) /\ Keeps(st, a) /\ Keeps(st, b)
  BY SetKeeps DEF Keeps
<1>2. AdvancedPlan(st) \in {st, a, c}
  BY DEF AdvancedPlan
<1> HIDE DEF a, b
<1>3. Keeps(b, c)
  BY SetKeeps
<1> HIDE DEF c
<1> QED
  BY <1>1, <1>2, <1>3, KeepsOn

(* phase remove,                                                           *)
LEMMA RemovalKeeps == \A st : Keeps(st, StateAfterRemoval(st))
<1> TAKE st
<1>1. Keeps(st, st) /\ Keeps(st, Set(st, "phases", st.phases - 1))
  BY SetKeeps DEF Keeps
<1> QED
  BY <1>1 DEF StateAfterRemoval

(* state update-progress,                                                  *)
LEMMA ProgressKeeps ==
  \A st, dirs, text : Keeps(st, UpdatedProgress(st, dirs, text))
<1> TAKE st, dirs, text
<1>1. PICK v : UpdatedProgress(st, dirs, text) = Set(st, "pct", v)
  BY DEF UpdatedProgress
<1> QED
  BY <1>1, SetKeeps

(* and phase complete, which adds a row.                                   *)
LEMMA CompletionKeeps ==
  \A st, num, next : Keeps(st, StateAfterCompletion(st, num, next))
<1> TAKE st, num, next
<1> DEFINE a == Listed(st, {Entry("phase", num.int)})
           b == Set(a, "phase", IF next = Nothing THEN num ELSE next)
           c == Set(b, "status", IF next = Nothing THEN "Milestone complete"
                                                    ELSE "Ready to plan")
           d == Set(c, "plan", NotStarted)
           e == Set(d, "done", st.done + 1)
           f == Set(e, "pct", Percent(st.done + 1, st.phases))
<1>1. StateAfterCompletion(st, num, next) \in {d, e, f}
  BY DEF StateAfterCompletion
<1>2. Keeps(st, a)
  BY DEF Keeps, Listed
<1> HIDE DEF a
<1>3. Keeps(a, b)
  BY SetKeeps
<1> HIDE DEF b
<1>4. Keeps(b, c)
  BY SetKeeps
<1> HIDE DEF c
<1>5. Keeps(c, d)
  BY SetKeeps
<1> HIDE DEF d
<1>6. Keeps(d, e)
  BY SetKeeps
<1> HIDE DEF e
<1>7. Keeps(e, f)
  BY SetKeeps
<1> HIDE DEF f
<1>8. Keeps(st, d)
  BY <1>2, <1>3, <1>4, <1>5, KeepsOn
<1>9. Keeps(st, e) /\ Keeps(st, f)
  BY <1>6, <1>7, <1>8, KeepsOn
<1> QED
  BY <1>1, <1>8, <1>9

(* A write that does not prune keeps the entries, adds what the command is *)
(* about, and resolves that only.                                          *)
StateWriters == {"complete", "remove", "begin", "advance", "decide", "block", "resolve",
                 "measure", "session", "update"}

\* What p's command adds, if STATE.md has lists.
New(p) == IF run[p].body.lists THEN Subject(Cmd(p)) ELSE {}

(* A command that does not prune loses no entry but the one it resolves.   *)
LEMMA NewStateKeeps ==
  ASSUME NEW p, ~Pruning(p), Cmd(p).name \in StateWriters,
         "entries" \in DOMAIN run[p].body
  PROVE  /\ "entries" \in DOMAIN NewState(p)
         /\ Cmd(p).name # "resolve" => run[p].body.entries \cup New(p) \subseteq NewState(p).entries
         /\ Cmd(p).name = "resolve" =>
              run[p].body.entries \ Subject(Cmd(p)) \subseteq NewState(p).entries
<1> DEFINE c == Cmd(p)  body == run[p].body
<1>1. CASE c.name \in {"decide", "block", "measure"}
  <2>1. NewState(p) = Listed(body, Subject(c))
    BY <1>1 DEF NewState
  <2>2. NewState(p) = IF body.lists THEN [body EXCEPT !.entries = @ \cup Subject(c)] ELSE body
    BY <2>1 DEF Listed
  <2>3. "entries" \in DOMAIN NewState(p) /\ body.entries \cup New(p) \subseteq NewState(p).entries
    BY <2>2 DEF New
  <2> QED
    BY <1>1, <2>3
<1>2. CASE c.name = "resolve"
  <2>1. NewState(p) = [body EXCEPT !.entries = @ \ Subject(c)]
    BY <1>2 DEF NewState
  <2> QED
    BY <1>2, <2>1
<1>3. CASE c.name \in {"complete", "remove", "begin", "advance", "session", "update"}
  <2>1. Subject(c) = {} /\ c.name # "resolve"
    BY <1>3 DEF Subject
  <2>2. Keeps(body, NewState(p))
    <3>1. CASE c.name = "complete"
      <4>1. NewState(p) = StateAfterCompletion(body, c.num, run[p].num)
        BY <3>1 DEF NewState
      <4> QED
        BY <4>1, CompletionKeeps
    <3>2. CASE c.name = "remove"
      <4>1. NewState(p) = StateAfterRemoval(body)
        BY <3>2 DEF NewState
      <4> QED
        BY <4>1, RemovalKeeps
    <3>3. CASE c.name = "begin"
      <4>1. NewState(p) = BegunPhase(body, c.num, c.n)
        BY <3>3 DEF NewState
      <4> QED
        BY <4>1, BegunKeeps
    <3>4. CASE c.name = "advance"
      <4>1. NewState(p) = AdvancedPlan(body)
        BY <3>4 DEF NewState
      <4> QED
        BY <4>1, AdvancedKeeps
    <3>5. CASE c.name = "session"
      <4>1. NewState(p) = body
        BY <3>5 DEF NewState
      <4> QED
        BY <4>1 DEF Keeps
    <3>6. CASE c.name = "update"
      <4>1. NewState(p) = UpdatedProgress(body, run[p].dirs, run[p].text)
        BY <3>6 DEF NewState
      <4> QED
        BY <4>1, ProgressKeeps
    <3> QED
      BY <1>3, <3>1, <3>2, <3>3, <3>4, <3>5, <3>6
  <2> QED
    BY <2>1, <2>2 DEF Keeps, New
<1> QED
  BY <1>1, <1>2, <1>3 DEF StateWriters

-----------------------------------------------------------------------------
(***************************************************************************)
(* The steps of the system, as the phases and their files see them.        *)
(***************************************************************************)
\* Only the call of p changes.
OneMoves(p) ==
  /\ \A q \in Procs \ {p} : run'[q] = run[q]
  /\ run'[p].cmd = run[p].cmd /\ run'[p].at \in Nat \ {0}
  /\ killed' = killed /\ usurped \subseteq usurped' /\ lost \subseteq lost'

SameCuts(p) == run'[p].cut = run[p].cut /\ run'[p].cutoff = run[p].cutoff

\* Nothing moves; a call begins; one is busy elsewhere; one is at a lock;
\* one works on the phases.
Still ==
  /\ run' = run /\ killed \subseteq killed' /\ killed' \subseteq killed \cup Procs
  /\ usurped' = usurped /\ lost' = lost /\ UNCHANGED phaseVars
Begins(p) ==
  /\ run[p].at = 0 /\ run'[p].at = 1 /\ OneMoves(p) /\ SameCuts(p) /\ UNCHANGED phaseVars
Elsewhere(p) ==
  /\ Running(p) /\ Cmd(p).name \notin PhaseCommands /\ OneMoves(p) /\ UNCHANGED phaseVars
AtALock(p) ==
  /\ Running(p) /\ Now(p) \in LockSteps /\ OneMoves(p) /\ SameCuts(p)
  /\ \/ run'[p].at \in {run[p].at, run[p].at + 1}
     \/ run'[p].at = Len(Steps(p)) + 1 /\ Now(p) = "lock planning"
  /\ UNCHANGED phaseVars
OnPhases(p) ==
  Running(p) /\ Cmd(p).name \in PhaseCommands /\ OneMoves(p) /\ PhaseStep(p)

(* A step on a lock stays, goes on, or fails to create the file.           *)
LEMMA LockStepMoves ==
  ASSUME LockInv, NEW p \in Procs, Running(p), LockStep(p), UNCHANGED phaseVars
  PROVE  AtALock(p)
<1>1. PICK l \in {"state", run[p].scope} :
        \/ CreateLock(p, l) \/ CreateFails(p, l) \/ FindLocked(p, l) \/ UnlinkStale(p, l)
        \/ GiveUp(p, l) \/ ReleaseLock(p, l)
  BY DEF LockStep
<1>2. DOMAIN run = Procs /\ DOMAIN run[p] = Fields /\ run[p].at \in Nat /\ run[p].at > 0
      /\ Len(Steps(p)) \in Nat
  BY StepLeads DEF LockInv, Formed, CallFormed, Running, Started
<1>3. Now(p) \in LockSteps
  BY <1>1 DEF CreateLock, CreateFails, FindLocked, UnlinkStale, GiveUp, ReleaseLock, AtLock,
              AtUnlock, At, Now, LockSteps
<1> DEFINE Fine == /\ \A q \in Procs \ {p} : run'[q] = run[q]
                   /\ run'[p].cmd = run[p].cmd
                   /\ \/ run'[p].at \in {run[p].at, run[p].at + 1}
                      \/ run'[p].at = Len(Steps(p)) + 1 /\ Now(p) = "lock planning"
                   /\ run'[p].cut = run[p].cut /\ run'[p].cutoff = run[p].cutoff
                   /\ killed' = killed /\ usurped \subseteq usurped' /\ lost' = lost
<1>4. Fine
  <2>1. CASE CreateLock(p, l)
    BY <1>2, <2>1, FieldsAre DEF CreateLock, history
  <2>2. CASE FindLocked(p, l)
    BY <1>2, <2>2, FieldsAre DEF FindLocked, history
  <2>3. CASE UnlinkStale(p, l)
    BY <1>2, <2>3, FieldsAre DEF UnlinkStale, history
  <2>4. CASE GiveUp(p, l)
    BY <1>2, <2>4, FieldsAre DEF GiveUp, history
  <2>5. CASE ReleaseLock(p, l)
    BY <1>2, <2>5, FieldsAre DEF ReleaseLock, Unlinked, GoWith, history
  <2>6. CASE CreateFails(p, l)
    <3>1. CASE l = "state"
      BY <1>2, <2>6, <3>1, FieldsAre DEF CreateFails, history
    <3>2. CASE l # "state"
      <4>1. Now(p) = "lock planning"
        BY <2>6, <3>2 DEF CreateFails, AtLock, At, Now
      <4>2. Stop(p) /\ killed' = killed /\ usurped' = usurped /\ lost' = lost
        BY <2>6, <3>2 DEF CreateFails
      <4> QED
        BY <1>2, <4>1, <4>2, FieldsAre DEF Stop
    <3> QED
      BY <3>1, <3>2
  <2> QED
    BY <1>1, <2>1, <2>2, <2>3, <2>4, <2>5, <2>6
<1>5. run'[p].at \in Nat \ {0}
  <2>1. run'[p].at \in {run[p].at, run[p].at + 1} \/ run'[p].at = Len(Steps(p)) + 1
    BY <1>4, Zenon
  <2>2. run[p].at \in Nat /\ run[p].at > 0 /\ Len(Steps(p)) \in Nat
    BY <1>2, Zenon
  <2> QED
    BY <2>1, <2>2
<1> QED
  BY <1>3, <1>4, <1>5 DEF AtALock, OneMoves, SameCuts

(* What is lost stays lost: by a step on the phases,                       *)
LEMMA PhaseStepLoses == \A p : PhaseStep(p) => lost \subseteq lost'
<1> SUFFICES ASSUME NEW p, PhaseStep(p) PROVE lost \subseteq lost'
  OBVIOUS
<1>1. CASE FindPhaseDir(p) \/ DeleteDirectory(p) \/ ListDirectories(p) \/ RenameDirectory(p)
           \/ RenameFails(p) \/ MakeDirectory(p) \/ MakeDirectoryFails(p) \/ ClearDirectories(p)
           \/ ArchiveDirectories(p) \/ WriteSummary(p) \/ Manage(p)
  BY <1>1 DEF FindPhaseDir, DeleteDirectory, ListDirectories, RenameDirectory, RenameFails,
              MakeDirectory, MakeDirectoryFails, ClearDirectories, ArchiveDirectories,
              WriteSummary, Manage, history, calm
<1>2. CASE ReadRoadmap(p) \/ WriteRoadmap(p) \/ WriteRoadmapFails(p) \/ ReadRequirements(p)
           \/ WriteRequirements(p) \/ WriteRequirementsFails(p) \/ Scan(p) \/ FindNext(p)
  BY <1>2 DEF ReadRoadmap, WriteRoadmap, WriteRoadmapFails, ReadRequirements,
              WriteRequirements, WriteRequirementsFails, Scan, FindNext, history
<1>3. CASE ReadState(p) \/ ReadCutoff(p) \/ DeriveState(p) \/ WriteState(p)
           \/ WriteStateFails(p) \/ ReadArchive(p) \/ WriteArchive(p) \/ WriteArchiveFails(p)
  BY <1>3 DEF ReadState, ReadCutoff, DeriveState, WriteState, WriteStateFails, ReadArchive,
              WriteArchive, WriteArchiveFails, history
<1> QED
  BY <1>1, <1>2, <1>3 DEF PhaseStep

(* on the layout,                                                          *)
LEMMA SpaceStepLoses == \A p : SpaceStep(p) => lost \subseteq lost'
<1> SUFFICES ASSUME NEW p, SpaceStep(p) PROVE lost \subseteq lost'
  OBVIOUS
<1> USE DEF Idle, OnlyTree, history
<1>1. CASE Route(p) \/ Heal(p) \/ Point(p) \/ Unpoint(p) \/ LookForStream(p) \/ LookForMode(p)
           \/ LookForWork(p) \/ LookForTarget(p) \/ MakeTarget(p) \/ PickArchive(p)
           \/ MakeArchive(p) \/ ListEntries(p) \/ Look(p)
  BY <1>1 DEF Route, Heal, Point, Unpoint, LookForStream, LookForMode, LookForWork,
              LookForTarget, MakeTarget, PickArchive, MakeArchive, ListEntries, Look
<1>2. CASE Moved(p) \/ MoveFails(p) \/ AllMoved(p) \/ Undo(p) \/ AllUndone(p) \/ Discard(p)
           \/ RemoveStream(p) \/ DropWorkstreams(p) \/ MakeStream(p) \/ LookForState(p)
           \/ WriteNewState(p)
  BY <1>2 DEF Moved, MoveFails, AllMoved, Undo, AllUndone, Discard, RemoveStream,
              DropWorkstreams, MakeStream, LookForState, WriteNewState
<1>3. CASE MakeScope(p) \/ LookForConfig(p) \/ WriteDefaults(p) \/ ReadConfig(p)
           \/ WriteConfig(p) \/ ConfigFails(p) \/ LoadConfig(p) \/ TruncateConfig(p)
           \/ FillConfig(p) \/ RewriteFails(p)
  BY <1>3 DEF MakeScope, LookForConfig, WriteDefaults, ReadConfig, WriteConfig, ConfigFails,
              EmptiesConfig, LoadConfig, TruncateConfig, FillConfig, RewriteFails
<1>4. CASE Inspect(p) \/ Repair(p) \/ BackUpState(p) \/ RegenerateState(p) \/ StateFails(p)
           \/ LockInVain(p)
  BY <1>4 DEF Inspect, Repair, BackUpState, RegenerateState, StateFails, LockInVain
<1> QED
  BY <1>1, <1>2, <1>3, <1>4 DEF SpaceStep

(* and on the profiles and the learnings.                                  *)
LEMMA OtherStepLoses == \A p : ProfileStep(p) \/ KnowledgeStep(p) => lost \subseteq lost'
BY DEF ProfileStep, LookAtProfile, ReadProfiles, FetchCatalog, ReadProfile, ReadOpencode,
       ReadPermission, LookAtOpencode, Restore, CreateBackup, Empty, Fill, WriteFails, Quietly,
       KnowledgeStep, ListLibrary, ReadLearning, CreateLearning, FillLearning, LearningFails,
       LookAtOld, FindLearning, UnlinkLearning, history

(* A local step moves one call.                                            *)
LEMMA LocalIsOne ==
  ASSUME LockInv, NEW p \in Procs, Running(p), Local(p), lost \subseteq lost'
  PROVE  OneMoves(p)
<1>1. Formed
  BY DEF LockInv
<1>2. run'[p].at \in 1 .. Len(Steps(p)) + 1 /\ Len(Steps(p)) \in Nat
  BY <1>1, LocalMoves, StepLeads
<1>3. run'[p].at \in Nat \ {0}
  BY <1>2
<1>4. usurped \subseteq usurped'
  BY UsurpedStays
<1> QED
  BY <1>3, <1>4 DEF Local, Changes, OneMoves

(* Every step is one of these.                                             *)
LEMMA NextSteps ==
  ASSUME LockInv, [Next]_vars
  PROVE  \/ Still
         \/ \E p \in Procs : Begins(p) \/ Elsewhere(p) \/ AtALock(p) \/ OnPhases(p)
<1>0. Formed /\ LooksFirst
  BY DEF LockInv
<1>1. CASE UNCHANGED vars
  BY <1>1 DEF vars, locks, history, Still
<1>2. ASSUME NEW p \in Procs, Step(p)
      PROVE  Elsewhere(p) \/ AtALock(p) \/ OnPhases(p)
  <2>1. Running(p)
    BY <1>2 DEF Step
  <2>2. CASE LockStep(p) /\ UNCHANGED phaseVars
    BY <2>1, <2>2, LockStepMoves
  <2>3. CASE Is(p, PhaseCommands) /\ PhaseStep(p)
    BY <1>0, <2>1, <2>3, PhaseStepIsLocal, PhaseStepLoses, LocalIsOne DEF OnPhases, Is
  <2>4. CASE Is(p, SpaceCommands) /\ SpaceStep(p) /\ UNCHANGED phaseVars
    <3>1. Cmd(p).name \notin PhaseCommands
      BY <2>4, CommandsAre DEF Is
    <3> QED
      BY <1>0, <2>1, <2>4, <3>1, SpaceStepIsLocal, SpaceStepLoses, LocalIsOne DEF Elsewhere
  <2>5. CASE Is(p, ProfileCommands) /\ ProfileStep(p) /\ UNCHANGED phaseVars
    <3>1. Cmd(p).name \notin PhaseCommands
      BY <2>5, CommandsAre DEF Is
    <3> QED
      BY <1>0, <2>1, <2>5, <3>1, ProfileStepIsLocal, OtherStepLoses, LocalIsOne DEF Elsewhere
  <2>6. CASE Is(p, KnowledgeCommands) /\ KnowledgeStep(p) /\ UNCHANGED phaseVars
    <3>1. Cmd(p).name \notin PhaseCommands
      BY <2>6, CommandsAre DEF Is
    <3> QED
      BY <1>0, <2>1, <2>6, <3>1, KnowledgeStepIsLocal, OtherStepLoses, LocalIsOne DEF Elsewhere
  <2> QED
    BY <1>2, <2>2, <2>3, <2>4, <2>5, <2>6 DEF Step
<1>3. ASSUME NEW p \in Procs, Call(p), UNCHANGED phaseVars PROVE Begins(p)
  <2>1. CallFormed(p) /\ DOMAIN run = Procs
    BY <1>0 DEF Formed
  <2>2. run[p].at = 0 /\ run' = [run EXCEPT ![p].at = @ + 1]
    BY <1>3, <2>1 DEF Call, CallFormed, Started, Go
  <2>3. run'[p].at = 1 /\ run'[p].cmd = run[p].cmd /\ SameCuts(p)
    BY <2>1, <2>2, FieldsAre DEF CallFormed, SameCuts
  <2>4. killed' = killed /\ usurped' = usurped /\ lost' = lost
    BY <1>3 DEF Call
  <2>5. \A q \in Procs \ {p} : run'[q] = run[q]
    BY <2>1, <2>2
  <2> QED
    BY <1>3, <2>2, <2>3, <2>4, <2>5 DEF Begins, OneMoves
<1>4. ASSUME NEW p \in Procs, Kill(p), UNCHANGED phaseVars PROVE Still
  BY <1>4 DEF Kill, Still
<1>5. ASSUME NEW l \in Locks, Age(l), UNCHANGED phaseVars PROVE Still
  BY <1>5 DEF Age, Still, history
<1> QED
  BY <1>1, <1>2, <1>3, <1>4, <1>5 DEF Next

(* Where a phase command is when it cuts, removes or writes STATE.md.      *)
LEMMA WhereSteps ==
  ASSUME Formed, NEW p \in Procs, Running(p), Cmd(p).name \in PhaseCommands
  PROVE  LET c == Cmd(p).name  k == Before(c)  i == run[p].at IN
         /\ i \in Nat /\ i > 0 /\ k \in Nat /\ Len(Steps(p)) \in Nat
         /\ Now(p) \in CutSteps => c \in Cutters /\ i > k
         /\ c \in Cutters =>
              /\ Len(Steps(p)) = k + 7 /\ i <= k + 7
              /\ i > k =>
                   \/ i = k + 1 /\ Now(p) = "read cutoff"
                   \/ i \in {k + 2, k + 3, k + 5}
                        /\ Now(p) \in {"lock state", "read state", "unlock state"}
                   \/ i = k + 4 /\ Now(p) = "write state"
                   \/ i = k + 6 /\ Now(p) = "read archive"
                   \/ i = k + 7 /\ Now(p) = "write archive"
         /\ Now(p) = "write state" => c \notin StateReaders
         /\ c = "remove" /\ i = 1 => Now(p) = "find phase"
         /\ Now(p) = "delete directory" => c = "remove" /\ i = 2
<1> DEFINE c == Cmd(p).name  k == Before(c)  i == run[p].at  P == PhaseProgram[c]
<1>1. c \in Commands /\ i \in 1 .. Len(Steps(p)) /\ Len(Steps(p)) \in Nat
  BY StepLeads
<1>2. Steps(p) = P /\ Now(p) = P[i] /\ k \in Nat
  BY <1>1 DEF Steps, Cmd, Program, Now, Before
<1>3. i \in 1 .. Len(P) /\ Len(P) \in Nat
  BY <1>1, <1>2
<1> HIDE DEF i, P, k
<1>4. CASE c \in Cutters
  <2>1. /\ Len(P) = k + 7 /\ PruneSteps(P, k)
        /\ \A j \in 1 .. k : P[j] \notin CutSteps \cup RemoveSteps
    BY <1>4, PrunePlaces DEF P, k
  <2>2. i \in 1 .. k \/ i \in {k + 1, k + 2, k + 3, k + 4, k + 5, k + 6, k + 7}
    BY <1>2, <1>3, <2>1
  <2>3. c # "remove" /\ c \notin StateReaders
    BY <1>4 DEF Cutters, StateReaders
  <2>4. CASE i \in 1 .. k
    <3>1. P[i] \notin CutSteps /\ P[i] \notin RemoveSteps /\ ~(i > k) /\ i > 0 /\ i \in Nat
      BY <1>2, <2>1, <2>4
    <3>2. i <= k + 7
      BY <1>2, <2>4
    <3> QED
      BY <1>2, <1>3, <1>4, <2>1, <2>3, <3>1, <3>2 DEF RemoveSteps, i, k
  <2>5. CASE i \in {k + 1, k + 2, k + 3, k + 4, k + 5, k + 6, k + 7}
    <3>1. /\ i = k + 1 => P[i] = "read cutoff"
          /\ i \in {k + 2, k + 3, k + 5} => P[i] \in {"lock state", "read state", "unlock state"}
          /\ i = k + 4 => P[i] = "write state"
          /\ i = k + 6 => P[i] = "read archive"
          /\ i = k + 7 => P[i] = "write archive"
      BY <2>1 DEF PruneSteps
    <3>2. P[i] # "delete directory"
      BY <2>5, <3>1
    <3>3. i > k /\ i > 0 /\ i \in Nat /\ i <= k + 7
      BY <1>2, <2>5
    <3>4. \/ i = k + 1 /\ P[i] = "read cutoff"
          \/ i \in {k + 2, k + 3, k + 5}
               /\ P[i] \in {"lock state", "read state", "unlock state"}
          \/ i = k + 4 /\ P[i] = "write state"
          \/ i = k + 6 /\ P[i] = "read archive"
          \/ i = k + 7 /\ P[i] = "write archive"
      BY <2>5, <3>1
    <3> QED
      BY <1>2, <1>3, <1>4, <2>1, <2>3, <3>2, <3>3, <3>4 DEF i, k
  <2> QED
    BY <2>2, <2>4, <2>5
<1>5. CASE c = "remove"
  <2>1. /\ P[1] = "find phase"
        /\ P[i] \notin CutSteps /\ (P[i] \in RemoveSteps => i = 2)
    BY <1>3, <1>5, RemovePlaces DEF P
  <2>2. c \notin Cutters /\ c \notin StateReaders
    BY <1>5 DEF Cutters, StateReaders
  <2> QED
    <3>1. i \in Nat /\ i > 0
      BY <1>3
    <3>2. P[i] = "delete directory" => i = 2
      BY <2>1 DEF RemoveSteps
    <3>3. i = 1 => P[i] = "find phase"
      BY <2>1
    <3> QED
      BY <1>2, <1>3, <1>5, <2>1, <2>2, <3>1, <3>2, <3>3 DEF i, k
<1>6. CASE c \notin Cutters \cup {"remove"}
  <2>1. c \in PhaseCommands \ {"remove", "complete", "prune"}
    BY <1>6 DEF Cutters
  <2>2. Avoids(P, CutSteps \cup RemoveSteps)
    BY <2>1, QuietPrograms DEF P
  <2>3. P[i] \notin CutSteps /\ P[i] \notin RemoveSteps
    BY <1>3, <2>2 DEF Avoids
  <2>4. c \in StateReaders => P[i] # "write state"
    <3>1. c \in StateReaders => Avoids(P, {"write state"})
      BY QuietPrograms DEF P
    <3> QED
      BY <1>3, <3>1 DEF Avoids
  <2> QED
    <3>1. i \in Nat /\ i > 0
      BY <1>3
    <3>2. P[i] # "delete directory" /\ c # "remove" /\ c \notin Cutters
      BY <1>6, <2>3 DEF RemoveSteps
    <3> QED
      BY <1>2, <1>3, <2>3, <2>4, <3>1, <3>2 DEF i, k
<1> QED
  BY <1>4, <1>5, <1>6

-----------------------------------------------------------------------------
(***************************************************************************)
(* The entries of STATE.md, and what a pruning has in its hands.           *)
(***************************************************************************)
\* A step of p that has nothing to do with them.
Indifferent(p) ==
  /\ Now(p) \notin CutSteps \cup LockSteps \cup {"write state"}
  /\ SameCuts(p) /\ UNCHANGED <<state, pruned, recorded>>
  /\ \/ run'[p].at \in {run[p].at, run[p].at + 1}
     \/ run'[p].at = Len(Steps(p)) + 1 /\ Now(p) # "read state"

\* The ways the call of p goes on in it.
PlainMove(p) ==
  \/ Go(p)
  \/ \E f \in {"dirs", "text", "num", "ticked", "body"} : \E v : GoWith(p, f, v)
  \/ \E v : run' = [run EXCEPT ![p].dirs = v]
  \/ \E v, w : run' = [run EXCEPT ![p].at = @ + 1, ![p].text = v, ![p].dirs = w]
  \/ run' = run
  \/ Stop(p) /\ Now(p) # "read state"

(* A phase command reads its cutoff, writes STATE.md, moves entries to the *)
(* archive, or has nothing to do with them.                                *)
LEMMA PhaseStepCuts ==
  ASSUME Formed, NEW p \in Procs, PhaseStep(p)
  PROVE  \/ Indifferent(p) \/ ReadCutoff(p) \/ ReadArchive(p)
         \/ WriteState(p) \/ WriteStateFails(p) \/ WriteArchive(p) \/ WriteArchiveFails(p)
<1> USE DEF CutSteps, LockSteps
<1>0. DOMAIN run = Procs /\ DOMAIN run[p] = Fields
  BY DEF Formed, CallFormed
<1>1. ASSUME Now(p) \notin CutSteps \cup LockSteps \cup {"write state"},
             UNCHANGED <<state, pruned, recorded>>, PlainMove(p)
      PROVE  Indifferent(p)
  <2>1. CASE Go(p)
    BY <1>0, <1>1, <2>1, FieldsAre DEF Go, Indifferent, SameCuts
  <2>2. CASE \E f \in {"dirs", "text", "num", "ticked", "body"} : \E v : GoWith(p, f, v)
    <3>1. PICK f \in {"dirs", "text", "num", "ticked", "body"} : \E v : GoWith(p, f, v)
      BY <2>2
    <3>2. PICK v : GoWith(p, f, v)
      BY <3>1
    <3>3. f \in Fields \ {"at", "cut", "cutoff"}
      BY FieldsAre
    <3>4. run'[p].at = run[p].at + 1 /\ SameCuts(p)
      BY <1>0, <3>2, <3>3, FieldsAre DEF GoWith, SameCuts
    <3> QED
      BY <1>1, <3>4 DEF Indifferent
  <2>3. CASE \E v : run' = [run EXCEPT ![p].dirs = v]
    <3>1. PICK v : run' = [run EXCEPT ![p].dirs = v]
      BY <2>3
    <3> QED
      BY <1>0, <1>1, <3>1, FieldsAre DEF Indifferent, SameCuts
  <2>4. CASE \E v, w : run' = [run EXCEPT ![p].at = @ + 1, ![p].text = v, ![p].dirs = w]
    <3>1. PICK v, w : run' = [run EXCEPT ![p].at = @ + 1, ![p].text = v, ![p].dirs = w]
      BY <2>4
    <3> QED
      BY <1>0, <1>1, <3>1, FieldsAre DEF Indifferent, SameCuts
  <2>5. CASE run' = run
    BY <1>1, <2>5 DEF Indifferent, SameCuts
  <2>6. CASE Stop(p) /\ Now(p) # "read state"
    BY <1>0, <1>1, <2>6, FieldsAre DEF Stop, Indifferent, SameCuts
  <2> QED
    BY <1>1, <2>1, <2>2, <2>3, <2>4, <2>5, <2>6 DEF PlainMove
<1> DEFINE Calm(x) == Now(p) = x /\ UNCHANGED <<state, pruned, recorded>> /\ PlainMove(p)
<1>10. ASSUME NEW x, Calm(x), x \notin CutSteps \cup LockSteps \cup {"write state"}
       PROVE  Indifferent(p)
  BY <1>1, <1>10
<1>2. CASE FindPhaseDir(p) \/ ListDirectories(p)
  <2>1. CASE FindPhaseDir(p)
    <3>2. Stop(p) \/ \E d : GoWith(p, "dirs", d)
      BY <2>1 DEF FindPhaseDir
    <3>3. Now(p) = "find phase" /\ UNCHANGED <<state, pruned, recorded>>
      BY <2>1, AtNow DEF FindPhaseDir, files
    <3>1. Calm("find phase")
      BY <3>2, <3>3 DEF PlainMove
    <3> QED
      BY <1>10, <3>1
  <2>2. CASE ListDirectories(p)
    <3>1. Calm("list directories")
      BY <2>2, AtNow DEF ListDirectories, PlainMove, files
    <3> QED
      BY <1>10, <3>1
  <2> QED
    BY <1>2, <2>1, <2>2
<1>3. CASE DeleteDirectory(p) \/ ClearDirectories(p) \/ ArchiveDirectories(p)
           \/ WriteSummary(p) \/ WriteRequirements(p)
  <2>1. CASE DeleteDirectory(p)
    <3>1. Calm("delete directory")
      BY <2>1, AtNow DEF DeleteDirectory, PlainMove, files
    <3> QED
      BY <1>10, <3>1
  <2>2. CASE ClearDirectories(p)
    <3>1. Calm("clear directories")
      BY <2>2, AtNow DEF ClearDirectories, PlainMove, files
    <3> QED
      BY <1>10, <3>1
  <2>3. CASE ArchiveDirectories(p)
    <3>1. Calm("archive directories")
      BY <2>3, AtNow DEF ArchiveDirectories, PlainMove, files
    <3> QED
      BY <1>10, <3>1
  <2>4. CASE WriteSummary(p)
    <3>1. Calm("write summary")
      BY <2>4, AtNow DEF WriteSummary, PlainMove, files
    <3> QED
      BY <1>10, <3>1
  <2>5. CASE WriteRequirements(p)
    <3>1. Calm("write requirements")
      BY <2>5, AtNow DEF WriteRequirements, PlainMove, files
    <3> QED
      BY <1>10, <3>1
  <2> QED
    BY <1>3, <2>1, <2>2, <2>3, <2>4, <2>5
<1>4. CASE RenameDirectory(p) \/ RenameFails(p) \/ MakeDirectory(p) \/ MakeDirectoryFails(p)
           \/ Manage(p)
  <2>1. CASE RenameDirectory(p)
    <3>1. Calm("rename directory")
      BY <2>1, AtNow DEF RenameDirectory, PlainMove, files
    <3> QED
      BY <1>10, <3>1
  <2>2. CASE MakeDirectory(p)
    <3>1. Calm("make directory")
      BY <2>2, AtNow DEF MakeDirectory, PlainMove, files
    <3> QED
      BY <1>10, <3>1
  <2>3. CASE Manage(p)
    <3>1. Calm("manage")
      BY <2>3, AtNow DEF Manage, PlainMove, files
    <3> QED
      BY <1>10, <3>1
  <2>4. CASE RenameFails(p)
    <3>1. Calm("rename directory")
      BY <2>4, AtNow DEF RenameFails, PlainMove, files
    <3> QED
      BY <1>10, <3>1
  <2>5. CASE MakeDirectoryFails(p)
    <3>2. Now(p) = "make directory" /\ Stop(p) /\ UNCHANGED <<state, pruned, recorded>>
      BY <2>5, AtNow DEF MakeDirectoryFails
    <3>1. Calm("make directory")
      BY <3>2 DEF PlainMove
    <3> QED
      BY <1>10, <3>1
  <2> QED
    BY <1>4, <2>1, <2>2, <2>3, <2>4, <2>5
<1>5. CASE ReadRoadmap(p) \/ WriteRoadmap(p) \/ WriteRoadmapFails(p) \/ ReadRequirements(p)
           \/ WriteRequirementsFails(p)
  <2>1. CASE ReadRoadmap(p)
    <3>2. Stop(p) \/ GoWith(p, "text", roadmap)
      BY <2>1 DEF ReadRoadmap
    <3>3. Now(p) = "read roadmap" /\ UNCHANGED <<state, pruned, recorded>>
      BY <2>1, AtNow DEF ReadRoadmap, files
    <3>1. Calm("read roadmap")
      BY <3>2, <3>3 DEF PlainMove
    <3> QED
      BY <1>10, <3>1
  <2>2. CASE WriteRoadmap(p)
    <3>1. Calm("write roadmap")
      BY <2>2, AtNow DEF WriteRoadmap, PlainMove, files
    <3> QED
      BY <1>10, <3>1
  <2>3. CASE ReadRequirements(p)
    <3>1. Calm("read requirements")
      BY <2>3, AtNow DEF ReadRequirements, PlainMove, files
    <3> QED
      BY <1>10, <3>1
  <2>4. CASE WriteRoadmapFails(p)
    <3>2. Now(p) = "write roadmap" /\ Stop(p) /\ UNCHANGED <<state, pruned, recorded>>
      BY <2>4, AtNow DEF WriteRoadmapFails
    <3>1. Calm("write roadmap")
      BY <3>2 DEF PlainMove
    <3> QED
      BY <1>10, <3>1
  <2>5. CASE WriteRequirementsFails(p)
    <3>2. Now(p) = "write requirements" /\ Stop(p) /\ UNCHANGED <<state, pruned, recorded>>
      BY <2>5, AtNow DEF WriteRequirementsFails, files
    <3>1. Calm("write requirements")
      BY <3>2 DEF PlainMove
    <3> QED
      BY <1>10, <3>1
  <2> QED
    BY <1>5, <2>1, <2>2, <2>3, <2>4, <2>5
<1>6. CASE FindNext(p) \/ ReadState(p) \/ DeriveState(p) \/ Scan(p)
  <2>1. CASE FindNext(p)
    <3>1. Calm("find next")
      BY <2>1, AtNow DEF FindNext, PlainMove, files
    <3> QED
      BY <1>10, <3>1
  <2>2. CASE ReadState(p)
    <3>1. Calm("read state")
      BY <2>2, AtNow DEF ReadState, PlainMove, files
    <3> QED
      BY <1>10, <3>1
  <2>3. CASE DeriveState(p)
    <3>1. Calm("derive state")
      BY <2>3, AtNow DEF DeriveState, PlainMove, files
    <3> QED
      BY <1>10, <3>1
  <2>4. CASE Scan(p)
    <3>1. Calm("scan")
      BY <2>4, AtNow DEF Scan, PlainMove, files
    <3> QED
      BY <1>10, <3>1
  <2> QED
    BY <1>6, <2>1, <2>2, <2>3, <2>4
<1> QED
  BY <1>2, <1>3, <1>4, <1>5, <1>6 DEF PhaseStep

\* The steps before the pruning of p's command; p is in it, its cutoff read.
Prelude(p)   == Before(Cmd(p).name)
InPruning(p) == Cmd(p).name \in Cutters /\ run[p].at > Prelude(p) + 1

(* A call has something cut only behind its own pruning write.             *)
CutFits(p) ==
  /\ run[p].at = 0 => ~Pruning(p) /\ run[p].cut = {}
  /\ Running(p) /\ Cmd(p).name \in PhaseCommands =>
       /\ InPruning(p) => Pruning(p) /\ Cmd(p).n # 0
       /\ InPruning(p) /\ run[p].at <= Prelude(p) + 4 => run[p].cut = {}
       /\ ~InPruning(p) => ~Pruning(p) /\ run[p].cut = {}

(* Where p is, by the step it is at.                                       *)
LEMMA PruningSteps ==
  ASSUME Formed, NEW p \in Procs, Running(p), Cmd(p).name \in PhaseCommands
  PROVE  /\ run[p].at \in Nat /\ Prelude(p) \in Nat
         /\ Cmd(p).name \in Cutters =>
              Len(Steps(p)) = Prelude(p) + 7 /\ run[p].at <= Prelude(p) + 7
         /\ Now(p) = "read cutoff" <=> Cmd(p).name \in Cutters /\ run[p].at = Prelude(p) + 1
         /\ InPruning(p) /\ Now(p) = "write state" => run[p].at = Prelude(p) + 4
         /\ InPruning(p) /\ run[p].at <= Prelude(p) + 5 => Now(p) \notin CutSteps
         /\ Now(p) = "read archive" <=> Cmd(p).name \in Cutters /\ run[p].at = Prelude(p) + 6
         /\ Now(p) = "write archive" <=> Cmd(p).name \in Cutters /\ run[p].at = Prelude(p) + 7
<1> DEFINE c == Cmd(p).name  k == Before(c)  i == run[p].at
<1>1. /\ i \in Nat /\ i > 0 /\ k \in Nat /\ Len(Steps(p)) \in Nat
      /\ Now(p) \in CutSteps => c \in Cutters /\ i > k
      /\ c \in Cutters =>
           /\ Len(Steps(p)) = k + 7 /\ i <= k + 7
           /\ i > k =>
                \/ i = k + 1 /\ Now(p) = "read cutoff"
                \/ i \in {k + 2, k + 3, k + 5}
                     /\ Now(p) \in {"lock state", "read state", "unlock state"}
                \/ i = k + 4 /\ Now(p) = "write state"
                \/ i = k + 6 /\ Now(p) = "read archive"
                \/ i = k + 7 /\ Now(p) = "write archive"
  BY WhereSteps
<1>2. Prelude(p) = k /\ (InPruning(p) <=> c \in Cutters /\ i > k + 1)
  BY DEF Prelude, InPruning
<1> HIDE DEF c, k, i
<1>3. CASE c \in Cutters /\ i > k
  <2>1. \/ i = k + 1 /\ Now(p) = "read cutoff"
        \/ i \in {k + 2, k + 3, k + 5}
             /\ Now(p) \in {"lock state", "read state", "unlock state"}
        \/ i = k + 4 /\ Now(p) = "write state"
        \/ i = k + 6 /\ Now(p) = "read archive"
        \/ i = k + 7 /\ Now(p) = "write archive"
    BY <1>1, <1>3
  <2>2. /\ Now(p) = "read cutoff" <=> i = k + 1
        /\ Now(p) = "write state" => i = k + 4
        /\ i <= k + 5 /\ i > k + 1 => Now(p) \notin CutSteps
        /\ Now(p) = "read archive" <=> i = k + 6
        /\ Now(p) = "write archive" <=> i = k + 7
    <3>1. i \in Nat /\ k \in Nat
      BY <1>1
    <3>2. CASE i = k + 1 /\ Now(p) = "read cutoff"
      <4>2. i = k + 1
        BY <3>2, Zenon
      <4>1. i # k + 6 /\ i # k + 7 /\ ~(i > k + 1)
        BY <3>1, <4>2
      <4> QED
        BY <3>2, <4>1, Zenon DEF CutSteps
    <3>3. CASE i \in {k + 2, k + 3, k + 5}
                 /\ Now(p) \in {"lock state", "read state", "unlock state"}
      <4>2. i \in {k + 2, k + 3, k + 5}
        BY <3>3, Zenon
      <4>1. i # k + 1 /\ i # k + 6 /\ i # k + 7
        BY <3>1, <4>2
      <4> QED
        BY <3>3, <4>1 DEF CutSteps
    <3>4. CASE i = k + 4 /\ Now(p) = "write state"
      <4>2. i = k + 4
        BY <3>4, Zenon
      <4>1. i # k + 1 /\ i # k + 6 /\ i # k + 7
        BY <3>1, <4>2
      <4> QED
        BY <3>4, <4>1 DEF CutSteps
    <3>5. CASE i = k + 6 /\ Now(p) = "read archive"
      <4>2. i = k + 6
        BY <3>5, Zenon
      <4>1. i # k + 1 /\ i # k + 7 /\ ~(i <= k + 5)
        BY <3>1, <4>2
      <4> QED
        BY <3>5, <4>1
    <3>6. CASE i = k + 7 /\ Now(p) = "write archive"
      <4>2. i = k + 7
        BY <3>6, Zenon
      <4>1. i # k + 1 /\ i # k + 6 /\ ~(i <= k + 5)
        BY <3>1, <4>2
      <4> QED
        BY <3>6, <4>1
    <3> QED
      BY <2>1, <3>2, <3>3, <3>4, <3>5, <3>6, Zenon
  <2>5. Now(p) = Now(p) /\ i \in Nat /\ k \in Nat /\ (i <= k + 7) /\ Len(Steps(p)) = k + 7
    BY <1>1, <1>3
  <2> QED
    BY <1>2, <1>3, <2>2, <2>5 DEF c, k, i
<1>4. CASE ~(c \in Cutters /\ i > k)
  <2>1. Now(p) \notin CutSteps
    BY <1>1, <1>4
  <2>2. c \in Cutters => i # k + 1 /\ i # k + 6 /\ i # k + 7 /\ ~(i > k + 1)
    <3>1. i \in Nat /\ k \in Nat /\ (c \in Cutters => ~(i > k))
      BY <1>1, <1>4
    <3>2. ~(i > k) => i # k + 1 /\ i # k + 6 /\ i # k + 7 /\ ~(i > k + 1)
      BY <3>1
    <3> QED
      BY <3>1, <3>2
  <2>3. Now(p) \notin {"read cutoff", "read archive", "write archive"}
    BY <2>1 DEF CutSteps
  <2> QED
    BY <1>1, <1>2, <2>1, <2>2, <2>3 DEF c, k, i
<1> QED
  BY <1>3, <1>4

(* How places compare before and after a step.                             *)
LEMMA PlacesPassed ==
  /\ \A i, n \in Nat : i <= n => i # n + 1
  /\ \A i, j, k \in Nat : j \in {i, i + 1} /\ i # k + 1 => (j > k + 1 <=> i > k + 1)
  /\ \A i, j, k \in Nat : j \in {i, i + 1} /\ j <= k + 4 => i <= k + 4
  OBVIOUS

(* A call that has ended does not run.                                     *)
LEMMA Stopped ==
  ASSUME Formed, NEW p \in Procs, Running(p), OneMoves(p), Stop(p)
  PROVE  ~Running(p)'
<1>1. DOMAIN run = Procs /\ DOMAIN run[p] = Fields /\ Steps(p)' = Steps(p)
  BY DEF Formed, CallFormed, OneMoves, Steps, Cmd
<1>2. run'[p].at = Len(Steps(p)) + 1
  BY <1>1, FieldsAre DEF Stop
<1>3. Len(Steps(p)) \in Nat
  BY StepLeads
<1>4. ~(run'[p].at <= Len(Steps(p)))
  BY <1>2, <1>3
<1> QED
  BY <1>1, <1>4 DEF Running

(* A step that cuts nothing.                                               *)
LEMMA CutFitsGoing ==
  ASSUME Formed, NEW p \in Procs, CutFits(p), Running(p), Cmd(p).name \in PhaseCommands,
         OneMoves(p), SameCuts(p), Now(p) \notin {"read cutoff", "write state"},
         run'[p].at \in {run[p].at, run[p].at + 1} \/ run'[p].at = Len(Steps(p)) + 1
  PROVE  CutFits(p)'
<1>1. Cmd(p)' = Cmd(p) /\ run'[p].at \in Nat /\ run'[p].at # 0 /\ Prelude(p)' = Prelude(p)
  BY DEF OneMoves, Cmd, Prelude
<1>2. Pruning(p)' = Pruning(p) /\ run'[p].cut = run[p].cut
  BY DEF SameCuts, Pruning
<1>0. run'[p].cmd = run[p].cmd
  BY DEF OneMoves
<1> SUFFICES ASSUME Running(p)'
             PROVE  /\ InPruning(p)' => Pruning(p)' /\ Cmd(p)'.n # 0
                    /\ InPruning(p)' /\ run'[p].at <= Prelude(p)' + 4 => run'[p].cut = {}
                    /\ ~InPruning(p)' => ~Pruning(p)' /\ run'[p].cut = {}
  BY <1>1 DEF CutFits
<1>3. run'[p].at <= Len(Steps(p)) /\ Len(Steps(p)) \in Nat
  <2>1. Steps(p)' = Steps(p)
    BY <1>0 DEF Steps
  <2> QED
    BY <2>1, StepLeads DEF Running
<1>4. run'[p].at \in {run[p].at, run[p].at + 1}
  <2>1. run'[p].at # Len(Steps(p)) + 1
    <3>1. run'[p].at \in Nat
      BY <1>1
    <3> QED
      BY <1>3, <3>1, PlacesPassed, Zenon
  <2> QED
    BY <2>1
<1>5. /\ run[p].at \in Nat /\ Prelude(p) \in Nat
      /\ ~(Cmd(p).name \in Cutters /\ run[p].at = Prelude(p) + 1)
  BY PruningSteps
<1>6. InPruning(p)' <=> InPruning(p)
  <2>1. InPruning(p)' <=> Cmd(p).name \in Cutters /\ run'[p].at > Prelude(p) + 1
    BY <1>1 DEF InPruning
  <2>2. CASE Cmd(p).name \in Cutters
    <3>1. run[p].at # Prelude(p) + 1
      BY <1>5, <2>2, Zenon
    <3>3. run[p].at \in Nat /\ Prelude(p) \in Nat
      BY <1>5
    <3>2. run'[p].at > Prelude(p) + 1 <=> run[p].at > Prelude(p) + 1
      <4>2. run'[p].at \in Nat
        BY <1>1
      <4> QED
        BY <1>4, <3>3, <3>1, <4>2, PlacesPassed, Zenon
    <3> QED
      BY <2>1, <2>2, <3>2, Zenon DEF InPruning
  <2>3. CASE Cmd(p).name \notin Cutters
    BY <2>1, <2>3, Zenon DEF InPruning
  <2> QED
    BY <2>2, <2>3
<1>7. run'[p].at <= Prelude(p) + 4 => run[p].at <= Prelude(p) + 4
  <2>1. run[p].at \in Nat /\ run'[p].at \in Nat /\ Prelude(p) \in Nat
    BY <1>1, <1>5
  <2> QED
    BY <1>4, <2>1, PlacesPassed, Zenon
<1>8. /\ InPruning(p) => Pruning(p) /\ Cmd(p).n # 0
      /\ InPruning(p) /\ run[p].at <= Prelude(p) + 4 => run[p].cut = {}
      /\ ~InPruning(p) => ~Pruning(p) /\ run[p].cut = {}
  BY DEF CutFits
<1> QED
  BY <1>1, <1>2, <1>6, <1>7, <1>8

(* Each step of a phase command keeps that,                                *)
LEMMA CutFitsOnPhases ==
  ASSUME Formed, NEW p \in Procs, CutFits(p), OnPhases(p)
  PROVE  CutFits(p)'
<1>1. Running(p) /\ Cmd(p).name \in PhaseCommands /\ OneMoves(p) /\ PhaseStep(p)
  BY DEF OnPhases
<1>2. Cmd(p)' = Cmd(p) /\ run'[p].at \in Nat /\ run'[p].at # 0 /\ Prelude(p)' = Prelude(p)
  BY <1>1 DEF OneMoves, Cmd, Prelude
<1>3. DOMAIN run = Procs /\ DOMAIN run[p] = Fields
  BY DEF Formed, CallFormed
<1>4. /\ InPruning(p) => Pruning(p) /\ Cmd(p).n # 0
      /\ InPruning(p) /\ run[p].at <= Prelude(p) + 4 => run[p].cut = {}
      /\ ~InPruning(p) => ~Pruning(p) /\ run[p].cut = {}
  BY <1>1 DEF CutFits
<1>5. run[p].at \in Nat /\ Prelude(p) \in Nat
  BY <1>1, PruningSteps
<1>6. InPruning(p)' <=> Cmd(p).name \in Cutters /\ run'[p].at > Prelude(p) + 1
  BY <1>2 DEF InPruning
<1>7. CASE Indifferent(p)
  BY <1>1, <1>7, CutFitsGoing DEF Indifferent, CutSteps
<1>11. CASE WriteStateFails(p) \/ WriteArchiveFails(p)
  <2>1. Stop(p)
    BY <1>11 DEF WriteStateFails, WriteArchiveFails
  <2>2. ~Running(p)'
    BY <1>1, <2>1, Stopped
  <2> QED
    BY <1>2, <2>2 DEF CutFits
<1>8. CASE ReadArchive(p) \/ WriteArchive(p)
  <2>1. Now(p) \notin {"read cutoff", "write state"}
    BY <1>8 DEF ReadArchive, WriteArchive, At, Now
  <2>2. Go(p) \/ Stop(p) \/ GoWith(p, "filed", pruned)
    BY <1>8 DEF ReadArchive, WriteArchive
  <2>3. SameCuts(p)
    BY <1>3, <2>2, FieldsAre DEF Go, Stop, GoWith, SameCuts
  <2>4. run'[p].at = run[p].at + 1 \/ run'[p].at = Len(Steps(p)) + 1
    BY <1>3, <2>2, FieldsAre DEF Go, Stop, GoWith
  <2> QED
    BY <1>1, <2>1, <2>3, <2>4, CutFitsGoing
<1>9. CASE ReadCutoff(p)
  <2> SUFFICES ASSUME Running(p)'
               PROVE  InPruning(p)' /\ Pruning(p)' /\ Cmd(p)'.n # 0 /\ run'[p].cut = {}
    BY <1>2 DEF CutFits
  <2>1. Now(p) = "read cutoff"
    BY <1>9 DEF ReadCutoff, At, Now
  <2>2. ~Stop(p)
    <3>1. Steps(p)' = Steps(p) /\ Len(Steps(p)) \in Nat
      BY <1>1, StepLeads DEF Steps, OneMoves
    <3>2. run'[p].at <= Len(Steps(p))
      BY <3>1 DEF Running
    <3>3. Stop(p) => run'[p].at = Len(Steps(p)) + 1
      BY <1>3, FieldsAre DEF Stop
    <3> QED
      BY <1>2, <3>1, <3>2, <3>3
  <2>3. /\ Cmd(p).n # 0 /\ Cutoff(state, Cmd(p).n) > 0
        /\ run' = [run EXCEPT ![p].at = @ + 1, ![p].cutoff = Cutoff(state, Cmd(p).n)]
    BY <1>9, <2>2 DEF ReadCutoff
  <2>4. run'[p].at = run[p].at + 1 /\ run'[p].cut = run[p].cut /\ Pruning(p)'
    BY <1>3, <2>3, FieldsAre DEF Pruning
  <2>5. Cmd(p).name \in Cutters /\ run[p].at = Prelude(p) + 1
    BY <1>1, <2>1, PruningSteps
  <2>6. InPruning(p)' /\ ~InPruning(p)
    BY <1>5, <1>6, <2>4, <2>5 DEF InPruning
  <2> QED
    BY <1>2, <1>4, <2>3, <2>4, <2>6
<1>10. CASE WriteState(p)
  <2>1. Now(p) = "write state"
    BY <1>10 DEF WriteState, At, Now
  <2>2. GoWith(p, "cut", IF Pruning(p) THEN Pruned(run[p].body, run[p].cutoff) ELSE {})
    BY <1>10 DEF WriteState
  <2>3. /\ run'[p].at = run[p].at + 1 /\ run'[p].cutoff = run[p].cutoff
        /\ ~Pruning(p) => run'[p].cut = {}
    BY <1>3, <2>2, FieldsAre DEF GoWith
  <2>4. Pruning(p)' = Pruning(p)
    BY <2>3 DEF Pruning
  <2>5. CASE InPruning(p)
    <3>1. Cmd(p).name \in Cutters /\ run[p].at = Prelude(p) + 4
      BY <1>1, <2>1, <2>5, PruningSteps DEF InPruning
    <3>2. InPruning(p)' /\ ~(run'[p].at <= Prelude(p)' + 4)
      BY <1>2, <1>5, <1>6, <2>3, <3>1
    <3> QED
      BY <1>2, <1>4, <2>4, <2>5, <3>2 DEF CutFits
  <2>6. CASE ~InPruning(p)
    <3>1. ~(Cmd(p).name \in Cutters /\ run[p].at = Prelude(p) + 1)
      <4>1. Now(p) # "read cutoff"
        BY <2>1
      <4> QED
        BY <1>1, <4>1, PruningSteps
    <3>2. ~InPruning(p)'
      BY <1>5, <1>6, <2>3, <2>6, <3>1 DEF InPruning
    <3> QED
      BY <1>2, <1>4, <2>3, <2>4, <2>6, <3>2 DEF CutFits
  <2> QED
    BY <2>5, <2>6
<1> QED
  BY <1>1, <1>7, <1>8, <1>9, <1>10, <1>11, PhaseStepCuts

(* and every step of the system.                                           *)
LEMMA CutFitsStep ==
  ASSUME LockInv, \A q \in Procs : CutFits(q), [Next]_vars
  PROVE  \A q \in Procs : CutFits(q)'
<1>0. Formed
  BY DEF LockInv
<1>1. ASSUME NEW q \in Procs, run'[q] = run[q], killed \subseteq killed' PROVE CutFits(q)'
  <2>1. /\ Running(q)' => Running(q)
        /\ Cmd(q)' = Cmd(q) /\ InPruning(q)' = InPruning(q) /\ Pruning(q)' = Pruning(q)
        /\ Prelude(q)' = Prelude(q)
    BY <1>1 DEF Running, Started, Steps, Cmd, InPruning, Pruning, Prelude
  <2> QED
    BY <1>1, <2>1 DEF CutFits
<1>2. CASE Still
  BY <1>1, <1>2 DEF Still
<1>3. ASSUME NEW p \in Procs, Begins(p) \/ Elsewhere(p) \/ AtALock(p) \/ OnPhases(p)
      PROVE  \A q \in Procs : CutFits(q)'
  <2>1. OneMoves(p)
    BY <1>3 DEF Begins, Elsewhere, AtALock, OnPhases
  <2>2. \A q \in Procs \ {p} : CutFits(q)'
    BY <1>1, <2>1 DEF OneMoves
  <2>3. Cmd(p)' = Cmd(p) /\ run'[p].at \in Nat /\ run'[p].at # 0
    BY <2>1 DEF OneMoves, Cmd
  <2>4. CASE Begins(p)
    <3>1. run'[p].at = 1 /\ run[p].at = 0 /\ SameCuts(p)
      BY <2>4 DEF Begins
    <3>2. ~InPruning(p)'
      <4>1. Prelude(p)' \in Nat
        BY DEF Prelude, Before
      <4> QED
        BY <3>1, <4>1 DEF InPruning
    <3>3. ~Pruning(p) /\ run[p].cut = {}
      BY <3>1 DEF CutFits
    <3>4. ~Pruning(p)' /\ run'[p].cut = {}
      BY <3>1, <3>3 DEF Pruning, SameCuts
    <3> QED
      BY <2>2, <2>3, <3>2, <3>4 DEF CutFits
  <2>5. CASE Cmd(p).name \notin PhaseCommands /\ ~Begins(p)
    <3>1. CutFits(p)'
      BY <2>3, <2>5 DEF CutFits
    <3> QED
      BY <2>2, <3>1
  <2>6. CASE AtALock(p) /\ Cmd(p).name \in PhaseCommands
    <3>1. CutFits(p)'
      BY <1>0, <2>1, <2>6, CutFitsGoing DEF AtALock, LockSteps
    <3> QED
      BY <2>2, <3>1
  <2>7. CASE OnPhases(p)
    BY <1>0, <2>2, <2>7, CutFitsOnPhases
  <2> QED
    BY <1>3, <2>4, <2>5, <2>6, <2>7 DEF Elsewhere, OnPhases
<1> QED
  BY <1>2, <1>3, NextSteps

-----------------------------------------------------------------------------
(***************************************************************************)
(* No entry of STATE.md is lost: the invariant.                            *)
(***************************************************************************)
\* What EntriesAreKept asks for: the lock not usurped, no command that locks
\* late, one call that prunes.
Undisturbed ==
  /\ "state" \notin usurped
  /\ \A p \in Procs : ~Is(p, LateLocking)
  /\ \A p, q \in Pruners : p = q

\* A call holds an entry, or was killed with it; lost ones count as held.
HeldBy(q, e)    == Running(q) /\ Cmd(q).name \in PhaseCommands /\ e \in run[q].cut
KilledWith(e)   == \E q \in killed : e \in run[q].cut
Held(e) ==
  \/ e \in state.entries \/ e \in pruned \/ e \in lost
  \/ KilledWith(e) \/ \E q \in Procs : HeldBy(q, e)

\* What is about to be added to STATE-ARCHIVE.md is added to what it says.
FiledFits(q) ==
  /\ Running(q) /\ Cmd(q).name \in Cutters /\ run[q].at = Prelude(q) + 7
  => run[q].filed = pruned

EntriesHeld ==
  /\ "entries" \in DOMAIN state /\ \A e \in recorded : Held(e)
  /\ \A q \in Procs : FiledFits(q)

EntriesInv ==
  /\ killed \subseteq Procs /\ \A q \in Procs : CutFits(q)
  /\ Undisturbed => EntriesHeld

(* A step that ends undisturbed began so.                                  *)
LEMMA UndisturbedBefore ==
  ASSUME LockInv, killed \subseteq Procs, [Next]_vars, Undisturbed'
  PROVE  Undisturbed /\ killed' \subseteq Procs
<1>0. Formed
  BY DEF LockInv
<1>1. ASSUME \A q \in Procs : /\ run'[q].cmd = run[q].cmd
                              /\ run[q].at > 0 => run'[q].at > 0,
             killed \subseteq killed', usurped \subseteq usurped'
      PROVE  Undisturbed
  <2>1. ASSUME NEW q \in Procs, NEW X PROVE Is(q, X) => Is(q, X)'
    BY <1>1 DEF Is, Started, Cmd
  <2>2. \A q \in Procs : ~Is(q, LateLocking)
    BY <2>1 DEF Undisturbed, LateLocking
  <2>3. ASSUME NEW q \in Pruners PROVE q \in Pruners'
    <3>1. Is(q, {"prune", "complete"})' /\ Cmd(q).n # 0
      BY <2>1, <2>3 DEF Pruners
    <3>2. (Cmd(q).n # 0)'
      BY <1>1, <3>1, <2>3 DEF Cmd, Pruners
    <3> QED
      BY <3>1, <3>2, <2>3 DEF Pruners
  <2>4. \A p, q \in Pruners : p = q
    BY <2>3 DEF Undisturbed
  <2>5. "state" \notin usurped
    BY <1>1 DEF Undisturbed
  <2> QED
    BY <2>2, <2>4, <2>5 DEF Undisturbed
<1>2. CASE Still
  BY <1>1, <1>2 DEF Still
<1>3. ASSUME NEW p \in Procs, Begins(p) \/ Elsewhere(p) \/ AtALock(p) \/ OnPhases(p)
      PROVE  Undisturbed /\ killed' \subseteq Procs
  <2>1. OneMoves(p)
    BY <1>3 DEF Begins, Elsewhere, AtALock, OnPhases
  <2>2. run'[p].at > 0
    <3>1. run'[p].at \in Nat \ {0}
      BY <2>1 DEF OneMoves
    <3> QED
      BY <3>1
  <2>3. \A q \in Procs : run'[q].cmd = run[q].cmd /\ (run[q].at > 0 => run'[q].at > 0)
    BY <2>1, <2>2 DEF OneMoves
  <2>4. killed' = killed /\ usurped \subseteq usurped'
    BY <2>1 DEF OneMoves
  <2> QED
    BY <1>1, <2>3, <2>4
<1> QED
  BY <1>2, <1>3, NextSteps

(* What a killed call had in its hands is there still.                     *)
LEMMA KilledKeep ==
  ASSUME NEW p \in Procs, OneMoves(p), killed \subseteq Procs, Running(p) \/ SameCuts(p),
         NEW e, KilledWith(e)
  PROVE  KilledWith(e)'
<1>1. PICK q \in killed : e \in run[q].cut
  BY DEF KilledWith
<1>2. CASE q = p
  <2>1. SameCuts(p)
    BY <1>2 DEF Running
  <2> QED
    BY <1>1, <1>2, <2>1 DEF SameCuts, OneMoves, KilledWith
<1>3. CASE q # p
  BY <1>1, <1>3 DEF OneMoves, KilledWith
<1> QED
  BY <1>2, <1>3

(* A step of p that leaves the entries and the archive alone keeps what    *)
(* the others hold; it has to keep what p holds.                           *)
LEMMA EntriesStay ==
  ASSUME NEW p \in Procs, OneMoves(p), EntriesHeld, UNCHANGED <<state, pruned, recorded>>,
         killed \subseteq Procs, Running(p) \/ SameCuts(p),
         \A e : HeldBy(p, e) => HeldBy(p, e)', FiledFits(p)'
  PROVE  EntriesHeld'
<1>1. \A q \in Procs \ {p} : Running(q)' = Running(q) /\ run'[q] = run[q]
  BY DEF OneMoves, Running, Started, Steps, Cmd
<1>2. ASSUME NEW q \in Procs, NEW e, HeldBy(q, e) PROVE HeldBy(q, e)'
  <2>1. CASE q = p
    BY <1>2, <2>1
  <2>2. CASE q # p
    BY <1>1, <1>2, <2>2 DEF HeldBy, Cmd
  <2> QED
    BY <2>1, <2>2
<1>3. ASSUME NEW e \in recorded' PROVE Held(e)'
  <2>1. Held(e)
    BY DEF EntriesHeld
  <2>2. lost \subseteq lost'
    BY DEF OneMoves
  <2> QED
    BY <1>2, <2>1, <2>2, KilledKeep DEF Held
<1>4. ASSUME NEW q \in Procs \ {p} PROVE FiledFits(q)'
  <2>1. FiledFits(q)
    BY DEF EntriesHeld
  <2> QED
    BY <1>1, <2>1 DEF FiledFits, Cmd, Prelude
<1> QED
  BY <1>3, <1>4 DEF EntriesHeld

(* Nothing of its own moves.                                               *)
LEMMA EntriesStill ==
  ASSUME EntriesHeld, Still
  PROVE  EntriesHeld'
<1>1. UNCHANGED <<state, pruned, recorded>> /\ run' = run /\ killed \subseteq killed' /\ lost' = lost
  BY DEF Still, phaseVars, files
<1>2. ASSUME NEW q \in Procs, NEW e, HeldBy(q, e) PROVE HeldBy(q, e)' \/ KilledWith(e)'
  <2>1. CASE q \in killed'
    BY <1>1, <1>2, <2>1 DEF HeldBy, KilledWith
  <2>2. CASE q \notin killed'
    BY <1>1, <1>2, <2>2 DEF HeldBy, Running, Started, Steps, Cmd
  <2> QED
    BY <2>1, <2>2
<1>3. ASSUME NEW e \in recorded' PROVE Held(e)'
  <2>1. Held(e)
    BY <1>1 DEF EntriesHeld
  <2>2. KilledWith(e) => KilledWith(e)'
    BY <1>1 DEF KilledWith
  <2> QED
    BY <1>1, <1>2, <2>1, <2>2 DEF Held
<1>4. ASSUME NEW q \in Procs PROVE FiledFits(q)'
  <2>1. FiledFits(q)
    BY DEF EntriesHeld
  <2>2. Running(q)' => Running(q)
    BY <1>1 DEF Still, Running, Started, Steps, Cmd
  <2> QED
    BY <1>1, <2>1, <2>2 DEF FiledFits, Cmd, Prelude
<1> QED
  BY <1>1, <1>3, <1>4 DEF EntriesHeld

(* The places that are left behind a write.                                *)
LEMMA PlacesLeft ==
  /\ \A i \in Nat \ {0} : i \in Nat /\ i > 0
  /\ \A i, k \in Nat : i <= k + 7 /\ ~(i <= k + 4) => i = k + 5 \/ i = k + 6 \/ i = k + 7
  /\ \A i, j, k \in Nat : j \in {i, i + 1} /\ j = k + 7 => i = k + 6 \/ i = k + 7
  /\ \A i, j, k, n \in Nat : j \in {i, i + 1} /\ i = k + 5 /\ n = k + 7 => j <= n
  /\ \A n \in Nat : \A j : j = n => j <= n
  /\ \A i, k \in Nat : i = k + 5 => i # k + 1 /\ i # k + 4 /\ i # k + 6 /\ i # k + 7
  OBVIOUS

(* A call that has something in its hands is behind its write.             *)
LEMMA HeldBehindWrite ==
  ASSUME Formed, NEW p \in Procs, CutFits(p), NEW e, HeldBy(p, e)
  PROVE  /\ InPruning(p) /\ ~(run[p].at <= Prelude(p) + 4)
         /\ \/ run[p].at = Prelude(p) + 5
                 /\ Now(p) \in {"lock state", "read state", "unlock state"}
            \/ run[p].at = Prelude(p) + 6 /\ Now(p) = "read archive"
            \/ run[p].at = Prelude(p) + 7 /\ Now(p) = "write archive"
<1>1. Running(p) /\ Cmd(p).name \in PhaseCommands /\ run[p].cut # {}
  BY DEF HeldBy
<1>2. InPruning(p) /\ ~(run[p].at <= Prelude(p) + 4)
  BY <1>1 DEF CutFits
<1>3. /\ run[p].at \in Nat /\ Prelude(p) \in Nat
      /\ Cmd(p).name \in Cutters => run[p].at <= Prelude(p) + 7
      /\ Now(p) = "read archive" <=> Cmd(p).name \in Cutters /\ run[p].at = Prelude(p) + 6
      /\ Now(p) = "write archive" <=> Cmd(p).name \in Cutters /\ run[p].at = Prelude(p) + 7
  BY <1>1, PruningSteps
<1>4. Cmd(p).name \in Cutters
  BY <1>2 DEF InPruning
<1>5. run[p].at <= Prelude(p) + 7 /\ run[p].at \in Nat /\ Prelude(p) \in Nat
  BY <1>3, <1>4, Zenon
<1>6. run[p].at = Prelude(p) + 5 \/ run[p].at = Prelude(p) + 6 \/ run[p].at = Prelude(p) + 7
  BY <1>2, <1>5, PlacesLeft, Zenon
<1>7. ASSUME run[p].at = Prelude(p) + 5
      PROVE  Now(p) \in {"lock state", "read state", "unlock state"}
  <2>1. run[p].at > Before(Cmd(p).name)
    <3>1. run[p].at = Before(Cmd(p).name) + 5 /\ Before(Cmd(p).name) \in Nat
      BY <1>5, <1>7 DEF Prelude
    <3> QED
      BY <3>1
  <2>2. \/ run[p].at = Prelude(p) + 1
        \/ Now(p) \in {"lock state", "read state", "unlock state"}
        \/ run[p].at = Prelude(p) + 4
        \/ run[p].at = Prelude(p) + 6
        \/ run[p].at = Prelude(p) + 7
    BY <1>1, <1>4, <2>1, WhereSteps DEF Prelude
  <2> QED
    BY <1>5, <1>7, <2>2, PlacesLeft, Zenon
<1> QED
  BY <1>2, <1>3, <1>4, <1>6, <1>7, Zenon

(* A step of p that cuts and files nothing keeps what p holds.             *)
LEMMA MoverHolds ==
  ASSUME Formed, NEW p \in Procs, Running(p), Cmd(p).name \in PhaseCommands, CutFits(p),
         OneMoves(p), SameCuts(p), Now(p) \notin {"read archive", "write archive"},
         \/ run'[p].at \in {run[p].at, run[p].at + 1}
         \/ run'[p].at = Len(Steps(p)) + 1
              /\ Now(p) \notin {"lock state", "read state", "unlock state"}
  PROVE  /\ \A e : HeldBy(p, e) => HeldBy(p, e)'
         /\ FiledFits(p)'
<1>1. /\ Steps(p)' = Steps(p) /\ Cmd(p)' = Cmd(p) /\ Prelude(p)' = Prelude(p)
      /\ killed' = killed /\ run'[p].cut = run[p].cut
  BY DEF OneMoves, SameCuts, Steps, Cmd, Prelude
<1>2. run'[p].at \in Nat /\ run'[p].at > 0
  <2>1. run'[p].at \in Nat \ {0}
    BY DEF OneMoves
  <2> QED
    BY <2>1, PlacesLeft, Zenon
<1>3. /\ run[p].at \in Nat /\ Prelude(p) \in Nat
      /\ Cmd(p).name \in Cutters => Len(Steps(p)) = Prelude(p) + 7
      /\ Now(p) = "read archive" <=> Cmd(p).name \in Cutters /\ run[p].at = Prelude(p) + 6
      /\ Now(p) = "write archive" <=> Cmd(p).name \in Cutters /\ run[p].at = Prelude(p) + 7
  BY PruningSteps
<1>4. Len(Steps(p)) \in Nat
  BY StepLeads
<1>5. ASSUME NEW e, HeldBy(p, e) PROVE HeldBy(p, e)'
  <2>1. /\ run[p].at = Prelude(p) + 5
        /\ Now(p) \in {"lock state", "read state", "unlock state"}
        /\ Cmd(p).name \in Cutters
    BY <1>5, HeldBehindWrite DEF InPruning
  <2>2. run'[p].at \in {run[p].at, run[p].at + 1}
    BY <2>1, Zenon
  <2>3. run'[p].at <= Len(Steps(p))
    BY <1>2, <1>3, <1>4, <2>1, <2>2, PlacesLeft, Zenon
  <2>4. Running(p)'
    BY <1>1, <1>2, <2>3 DEF Running, Started
  <2> QED
    BY <1>1, <1>5, <2>4 DEF HeldBy
<1>6. ASSUME Running(p)', Cmd(p).name \in Cutters, run'[p].at = Prelude(p) + 7
      PROVE  FALSE
  <2>1. run'[p].at # Len(Steps(p)) + 1
    <3>1. Len(Steps(p)) = Prelude(p) + 7
      BY <1>3, <1>6, Zenon
    <3>2. run'[p].at <= Len(Steps(p))
      <4>1. run'[p].at = Len(Steps(p))
        BY <1>6, <3>1, Zenon
      <4> QED
        BY <1>4, <4>1, PlacesLeft, Zenon
    <3> QED
      BY <1>2, <1>4, <3>2, PlacesPassed, Zenon
  <2>2. run'[p].at \in {run[p].at, run[p].at + 1}
    BY <2>1, Zenon
  <2>3. run[p].at = Prelude(p) + 6 \/ run[p].at = Prelude(p) + 7
    BY <1>2, <1>3, <1>6, <2>2, PlacesLeft, Zenon
  <2> QED
    BY <1>3, <1>6, <2>3, Zenon
<1> QED
  BY <1>1, <1>5, <1>6 DEF FiledFits

(* The two steps that move what was pruned to STATE-ARCHIVE.md.            *)
LEMMA ReadingHolds ==
  ASSUME Formed, killed \subseteq Procs, NEW p \in Procs, CutFits(p), OnPhases(p),
         EntriesHeld, ReadCutoff(p) \/ ReadArchive(p)
  PROVE  EntriesHeld'
<1>1. Running(p) /\ Cmd(p).name \in PhaseCommands /\ OneMoves(p)
  BY DEF OnPhases
<1>2. DOMAIN run = Procs /\ DOMAIN run[p] = Fields /\ UNCHANGED <<state, pruned, recorded>>
  BY DEF Formed, CallFormed, ReadCutoff, ReadArchive, files
<1>3. /\ Steps(p)' = Steps(p) /\ Cmd(p)' = Cmd(p) /\ Prelude(p)' = Prelude(p)
      /\ killed' = killed
  BY <1>1 DEF OneMoves, Steps, Cmd, Prelude
<1>4. /\ run[p].at \in Nat /\ Prelude(p) \in Nat
      /\ Cmd(p).name \in Cutters => Len(Steps(p)) = Prelude(p) + 7
      /\ Now(p) = "read cutoff" <=> Cmd(p).name \in Cutters /\ run[p].at = Prelude(p) + 1
      /\ Now(p) = "read archive" <=> Cmd(p).name \in Cutters /\ run[p].at = Prelude(p) + 6
  BY <1>1, PruningSteps
<1>5. Len(Steps(p)) \in Nat
  BY <1>1, StepLeads
<1>6. \A k \in Nat : k + 7 + 1 # k + 7 /\ k + 1 + 1 # k + 7 /\ k + 6 + 1 = k + 7
                     /\ k + 7 > 0 /\ k + 7 <= k + 7
  OBVIOUS
<1>7. CASE ReadCutoff(p)
  <2>1. Now(p) = "read cutoff"
    BY <1>7 DEF ReadCutoff, At, Now
  <2>2. Cmd(p).name \in Cutters /\ run[p].at = Prelude(p) + 1 /\ Len(Steps(p)) = Prelude(p) + 7
    BY <1>4, <2>1, Zenon
  <2>3. run'[p].at = run[p].at + 1 \/ run'[p].at = Len(Steps(p)) + 1
    BY <1>2, <1>7, FieldsAre DEF ReadCutoff, Stop
  <2>4. run'[p].at # Prelude(p) + 7
    BY <1>4, <1>6, <2>2, <2>3, Zenon
  <2>5. FiledFits(p)'
    BY <1>3, <2>4 DEF FiledFits
  <2>6. ASSUME NEW e PROVE ~HeldBy(p, e)
    <3>1. Now(p) \notin {"lock state", "read state", "unlock state", "read archive",
                         "write archive"}
      BY <2>1
    <3> QED
      BY <3>1, HeldBehindWrite
  <2> QED
    BY <1>1, <1>2, <2>5, <2>6, EntriesStay
<1>8. CASE ReadArchive(p)
  <2>1. Now(p) = "read archive"
    BY <1>8 DEF ReadArchive, At, Now
  <2>2. Cmd(p).name \in Cutters /\ run[p].at = Prelude(p) + 6 /\ Len(Steps(p)) = Prelude(p) + 7
    BY <1>4, <2>1, Zenon
  <2>3. CASE run[p].cut = {}
    <3>1. run'[p].at = Len(Steps(p)) + 1
      BY <1>2, <1>8, <2>3, FieldsAre DEF ReadArchive, Stop
    <3>2. run'[p].at # Prelude(p) + 7
      BY <1>4, <1>6, <2>2, <3>1, Zenon
    <3>3. FiledFits(p)' /\ \A e : ~HeldBy(p, e)
      BY <1>3, <2>3, <3>2 DEF FiledFits, HeldBy
    <3> QED
      BY <1>1, <1>2, <3>3, EntriesStay
  <2>4. CASE run[p].cut # {}
    <3>1. run'[p].at = run[p].at + 1 /\ run'[p].cut = run[p].cut /\ run'[p].filed = pruned
      BY <1>2, <1>8, <2>4, FieldsAre DEF ReadArchive, GoWith
    <3>2. run'[p].at = Prelude(p) + 7
      BY <1>4, <1>6, <2>2, <3>1, Zenon
    <3>3. run'[p].at > 0 /\ run'[p].at <= Len(Steps(p))
      BY <1>4, <1>6, <2>2, <3>2, Zenon
    <3>4. Running(p)'
      BY <1>1, <1>3, <3>3 DEF Running, Started
    <3>5. \A e : HeldBy(p, e) => HeldBy(p, e)'
      BY <1>3, <3>1, <3>4 DEF HeldBy
    <3>6. FiledFits(p)'
      BY <1>2, <3>1 DEF FiledFits
    <3> QED
      BY <1>1, <1>2, <3>5, <3>6, EntriesStay
  <2> QED
    BY <2>3, <2>4
<1> QED
  BY <1>7, <1>8

(* Whoever is about to add to STATE-ARCHIVE.md prunes,                     *)
LEMMA FilersPrune ==
  ASSUME Formed, NEW q \in Procs, CutFits(q), Running(q), Cmd(q).name \in Cutters,
         run[q].at = Prelude(q) + 7
  PROVE  q \in Pruners
<1>1. Cmd(q).name \in PhaseCommands
  BY CommandsAre DEF Cutters
<1>2. InPruning(q)
  <2>1. run[q].at \in Nat /\ Prelude(q) \in Nat
    BY <1>1, PruningSteps
  <2>2. \A i, k \in Nat : i = k + 7 => i > k + 1
    OBVIOUS
  <2>3. run[q].at > Prelude(q) + 1
    BY <2>1, <2>2, Zenon
  <2> QED
    BY <2>3 DEF InPruning
<1>3. Cmd(q).n # 0
  BY <1>1, <1>2 DEF CutFits
<1> QED
  BY <1>3 DEF Pruners, Is, Running, Cutters

(* so that nobody else is about to, undisturbed.                           *)
LEMMA OneFiles ==
  ASSUME LockInv, \A q \in Procs : CutFits(q), Undisturbed, NEW p \in Procs,
         OnPhases(p), Now(p) = "write archive", FiledFits(p)'
  PROVE  \A q \in Procs : FiledFits(q)'
<1>0. Formed
  BY DEF LockInv
<1>1. Running(p) /\ Cmd(p).name \in PhaseCommands /\ OneMoves(p)
  BY DEF OnPhases
<1>2. Cmd(p).name \in Cutters /\ run[p].at = Prelude(p) + 7
  BY <1>0, <1>1, PruningSteps
<1>3. ASSUME NEW q \in Procs, q # p PROVE FiledFits(q)'
  <2>1. ~(Running(q) /\ Cmd(q).name \in Cutters /\ run[q].at = Prelude(q) + 7)
    BY <1>0, <1>1, <1>2, <1>3, FilersPrune DEF Undisturbed
  <2>2. Running(q)' = Running(q) /\ run'[q] = run[q]
    BY <1>1, <1>3 DEF OneMoves, Running, Started, Steps, Cmd
  <2> QED
    BY <2>1, <2>2 DEF FiledFits, Cmd, Prelude
<1> QED
  BY <1>3

(* What was pruned is added to what the archive says: no other call        *)
(* prunes.                                                                 *)
LEMMA FilingHolds ==
  ASSUME LockInv, killed \subseteq Procs, \A q \in Procs : CutFits(q), NEW p \in Procs, OnPhases(p),
         Undisturbed, EntriesHeld, WriteArchive(p)
  PROVE  EntriesHeld'
<1>0. Formed
  BY DEF LockInv
<1>1. Running(p) /\ Cmd(p).name \in PhaseCommands /\ OneMoves(p)
  BY DEF OnPhases
<1>2. /\ DOMAIN run = Procs /\ DOMAIN run[p] = Fields /\ UNCHANGED <<state, recorded>>
      /\ pruned' = run[p].filed \cup run[p].cut /\ run'[p].at = run[p].at + 1
  BY <1>0, FieldsAre DEF Formed, CallFormed, WriteArchive, Go
<1>3. /\ Steps(p)' = Steps(p) /\ Cmd(p)' = Cmd(p) /\ Prelude(p)' = Prelude(p)
  BY <1>1 DEF OneMoves, Steps, Cmd, Prelude
<1>4. Now(p) = "write archive"
  BY DEF WriteArchive, At, Now
<1>5. /\ Cmd(p).name \in Cutters /\ run[p].at = Prelude(p) + 7
      /\ run[p].at \in Nat /\ Prelude(p) \in Nat
  BY <1>0, <1>1, <1>4, PruningSteps
<1>6. pruned' = pruned \cup run[p].cut
  <2>1. run[p].filed = pruned
    BY <1>1, <1>5 DEF EntriesHeld, FiledFits
  <2> QED
    BY <1>2, <2>1
<1>7. \A q \in Procs \ {p} : Running(q)' = Running(q) /\ run'[q] = run[q]
  BY <1>1 DEF OneMoves, Running, Started, Steps, Cmd
<1>8. ASSUME NEW e \in recorded' PROVE Held(e)'
  <2>1. Held(e)
    BY <1>2 DEF EntriesHeld
  <2>2. CASE e \in state.entries \/ e \in pruned
    BY <1>2, <1>6, <2>2 DEF Held
  <2>3. CASE \E q \in Procs : HeldBy(q, e)
    <3>1. PICK q \in Procs : HeldBy(q, e)
      BY <2>3
    <3>2. CASE q = p
      BY <1>6, <3>1, <3>2 DEF HeldBy, Held
    <3>3. CASE q # p
      <4>1. HeldBy(q, e)'
        BY <1>7, <3>1, <3>3 DEF HeldBy, Cmd
      <4> QED
        BY <4>1 DEF Held
    <3> QED
      BY <3>2, <3>3
  <2>4. CASE e \in lost \/ KilledWith(e)
    BY <1>1, <2>4, KilledKeep DEF Held, OneMoves
  <2> QED
    BY <2>1, <2>2, <2>3, <2>4 DEF Held
<1>9. FiledFits(p)'
  <2>1. run'[p].at # Prelude(p) + 7
    <3>1. \A k \in Nat : k + 7 + 1 # k + 7
      OBVIOUS
    <3> QED
      BY <1>2, <1>5, <3>1, Zenon
  <2> QED
    BY <1>3, <2>1 DEF FiledFits
<1>10. \A q \in Procs : FiledFits(q)'
  BY <1>4, <1>9, OneFiles
<1> QED
  BY <1>2, <1>8, <1>10 DEF EntriesHeld

(* The write of STATE-ARCHIVE.md fails, and what was cut from STATE.md is  *)
(* lost.                                                                   *)
LEMMA FilingFails ==
  ASSUME LockInv, killed \subseteq Procs, \A q \in Procs : CutFits(q), NEW p \in Procs,
         OnPhases(p), Undisturbed, EntriesHeld, WriteArchiveFails(p)
  PROVE  EntriesHeld'
<1>0. Formed
  BY DEF LockInv
<1>1. Running(p) /\ OneMoves(p) /\ Now(p) = "write archive"
  BY DEF OnPhases, WriteArchiveFails, At, Now
<1>2. /\ UNCHANGED <<state, recorded>> /\ Stop(p)
      /\ lost \cup run[p].cut \subseteq lost' /\ pruned \subseteq pruned' \cup lost'
  BY DEF WriteArchiveFails
<1>3. ~Running(p)'
  BY <1>0, <1>1, <1>2, Stopped
<1>4. \A q \in Procs : FiledFits(q)'
  BY <1>1, <1>3, OneFiles DEF FiledFits
<1>5. ASSUME NEW q \in Procs, NEW e, HeldBy(q, e) PROVE e \in lost' \/ HeldBy(q, e)'
  <2>1. CASE q = p
    BY <1>2, <1>5, <2>1 DEF HeldBy
  <2>2. CASE q # p
    <3>1. Running(q)' = Running(q) /\ run'[q] = run[q]
      BY <1>1, <2>2 DEF OneMoves, Running, Started, Steps, Cmd
    <3> QED
      BY <1>5, <3>1 DEF HeldBy, Cmd
  <2> QED
    BY <2>1, <2>2
<1>6. ASSUME NEW e \in recorded' PROVE Held(e)'
  <2>1. Held(e)
    BY <1>2 DEF EntriesHeld
  <2>2. KilledWith(e) => KilledWith(e)'
    BY <1>1, KilledKeep
  <2> QED
    BY <1>2, <1>5, <2>1, <2>2 DEF Held
<1> QED
  BY <1>2, <1>4, <1>6 DEF EntriesHeld

(* The write of STATE.md fails, and what it said may be lost.              *)
LEMMA WritingFails ==
  ASSUME LockInv, killed \subseteq Procs, NEW p \in Procs, CutFits(p), OnPhases(p),
         EntriesHeld, WriteStateFails(p)
  PROVE  EntriesHeld'
<1>0. Formed
  BY DEF LockInv
<1>1. Running(p) /\ OneMoves(p) /\ Now(p) = "write state"
  BY DEF OnPhases, WriteStateFails, At, Now
<1>2. UNCHANGED <<pruned, recorded>> /\ Stop(p)
  BY DEF WriteStateFails
<1>3. "entries" \in DOMAIN state' /\ state.entries \subseteq state'.entries \cup lost'
  <2>1. "entries" \in DOMAIN state
    BY DEF EntriesHeld
  <2>2. CASE state' = state
    BY <2>1, <2>2
  <2>3. CASE state' = Emptied(state) /\ lost' = lost \cup state.entries
    BY <2>1, <2>3 DEF Emptied
  <2> QED
    BY <2>2, <2>3 DEF WriteStateFails
<1>4. ~Running(p)'
  BY <1>0, <1>1, <1>2, Stopped
<1>5. \A q \in Procs \ {p} : Running(q)' = Running(q) /\ run'[q] = run[q]
  BY <1>1 DEF OneMoves, Running, Started, Steps, Cmd
<1>6. ASSUME NEW q \in Procs, NEW e, HeldBy(q, e) PROVE HeldBy(q, e)'
  <2>1. q # p
    BY <1>0, <1>1, <1>6, HeldBehindWrite
  <2> QED
    BY <1>5, <1>6, <2>1 DEF HeldBy, Cmd
<1>7. ASSUME NEW q \in Procs PROVE FiledFits(q)'
  <2>1. CASE q = p
    BY <1>4, <2>1 DEF FiledFits
  <2>2. CASE q # p
    <3>1. FiledFits(q)
      BY DEF EntriesHeld
    <3> QED
      BY <1>2, <1>5, <2>2, <3>1 DEF FiledFits, Cmd, Prelude
  <2> QED
    BY <2>1, <2>2
<1>8. ASSUME NEW e \in recorded' PROVE Held(e)'
  <2>1. Held(e)
    BY <1>2 DEF EntriesHeld
  <2>2. (KilledWith(e) => KilledWith(e)') /\ lost \subseteq lost'
    BY <1>1, KilledKeep DEF OneMoves
  <2> QED
    BY <1>2, <1>3, <1>6, <2>1, <2>2 DEF Held
<1> QED
  BY <1>3, <1>7, <1>8 DEF EntriesHeld

(* The write of STATE.md keeps every entry but those it takes in its hands *)
(* and the one that is resolved.                                           *)
LEMMA WritingHolds ==
  ASSUME LockInv, NoUpdateIsLost, killed \subseteq Procs, NEW p \in Procs, CutFits(p),
         OnPhases(p), Undisturbed, EntriesHeld, WriteState(p)
  PROVE  EntriesHeld'
<1>0. Formed
  BY DEF LockInv
<1>1. Running(p) /\ Cmd(p).name \in PhaseCommands /\ OneMoves(p)
  BY DEF OnPhases
<1>2. Now(p) = "write state"
  BY DEF WriteState, At, Now
<1>3. DOMAIN run = Procs /\ DOMAIN run[p] = Fields
  BY <1>0 DEF Formed, CallFormed
<1>4. ~Is(p, LateLocking) /\ Cmd(p).name \notin LateLocking
  BY <1>1 DEF Undisturbed, Is, Running
<1>5. run[p].body = state /\ "entries" \in DOMAIN state
  BY <1>4 DEF NoUpdateIsLost, Undisturbed, WriteState, EntriesHeld
<1>6. /\ state' = Synced(NewState(p), disk, roadmap) /\ pruned' = pruned
      /\ run'[p].at = run[p].at + 1
      /\ run'[p].cut = IF Pruning(p) THEN Pruned(state, run[p].cutoff) ELSE {}
  BY <1>3, <1>4, <1>5, FieldsAre DEF WriteState, GoWith
<1>7. /\ recorded' = IF Cmd(p).name = "resolve" THEN recorded \ Subject(Cmd(p))
                     ELSE recorded \cup New(p)
      /\ New(p) \subseteq Subject(Cmd(p))
  BY <1>1 DEF WriteState, Is, Running, New
<1>8. run[p].cut = {}
  <2>1. \A e : ~HeldBy(p, e)
    BY <1>0, <1>2, HeldBehindWrite
  <2> QED
    BY <1>1, <2>1 DEF HeldBy
<1>9. \A q \in Procs \ {p} : Running(q)' = Running(q) /\ run'[q] = run[q]
  BY <1>1 DEF OneMoves, Running, Started, Steps, Cmd
<1>10. ASSUME NEW q \in Procs, NEW e, HeldBy(q, e) PROVE HeldBy(q, e)'
  <2>1. q # p
    BY <1>8, <1>10 DEF HeldBy
  <2> QED
    BY <1>9, <1>10, <2>1 DEF HeldBy, Cmd
<1>11. ASSUME NEW q \in Procs PROVE FiledFits(q)'
  <2>1. CASE q = p
    <3>1. /\ run[p].at \in Nat /\ Prelude(p) \in Nat
          /\ Now(p) = "read archive" <=> Cmd(p).name \in Cutters /\ run[p].at = Prelude(p) + 6
      BY <1>0, <1>1, PruningSteps
    <3>2. ~(Cmd(p).name \in Cutters /\ run[p].at = Prelude(p) + 6)
      <4>1. Now(p) # "read archive"
        BY <1>2
      <4> QED
        BY <3>1, <4>1, Zenon
    <3>3. \A i, k \in Nat : i + 1 = k + 7 => i = k + 6
      OBVIOUS
    <3>4. ~(Cmd(p).name \in Cutters /\ run'[p].at = Prelude(p) + 7)
      BY <1>6, <3>1, <3>2, <3>3, Zenon
    <3>5. Cmd(p)' = Cmd(p) /\ Prelude(p)' = Prelude(p)
      BY <1>1 DEF OneMoves, Cmd, Prelude
    <3> QED
      BY <2>1, <3>4, <3>5 DEF FiledFits
  <2>2. CASE q # p
    <3>1. FiledFits(q)
      BY DEF EntriesHeld
    <3> QED
      BY <1>6, <1>9, <2>2, <3>1 DEF FiledFits, Cmd, Prelude
  <2> QED
    BY <2>1, <2>2
<1> DEFINE Survives == /\ "entries" \in DOMAIN state'
                       /\ \A e \in recorded' \cap (recorded \cap state.entries) :
                            e \in state'.entries \/ HeldBy(p, e)'
                       /\ \A e \in recorded' \ recorded : e \in state'.entries
<1>12. ASSUME Pruning(p) PROVE Survives
  <2>1. InPruning(p) /\ Cmd(p).name \in Cutters
    BY <1>1, <1>12 DEF CutFits, InPruning
  <2>2. Subject(Cmd(p)) = {} /\ Cmd(p).name # "resolve" /\ recorded' = recorded
    <3>1. Cmd(p).name # "resolve" /\ Subject(Cmd(p)) = {}
      BY <2>1 DEF Cutters, Subject
    <3> QED
      BY <1>7, <3>1
  <2>3. Running(p)'
    <3>1. /\ run[p].at \in Nat /\ Prelude(p) \in Nat
          /\ Len(Steps(p)) = Prelude(p) + 7 /\ run[p].at = Prelude(p) + 4
      BY <1>0, <1>1, <1>2, <2>1, PruningSteps
    <3>2. \A i, k \in Nat : i = k + 4 => i + 1 <= k + 7 /\ i + 1 > 0
      OBVIOUS
    <3>3. run'[p].at <= Len(Steps(p)) /\ run'[p].at > 0
      BY <1>6, <3>1, <3>2, Zenon
    <3>4. Steps(p)' = Steps(p) /\ killed' = killed
      BY <1>1 DEF OneMoves, Steps, Cmd
    <3> QED
      BY <1>1, <3>3, <3>4 DEF Running, Started
  <2>4. NewState(p) = [state EXCEPT !.entries = @ \ Pruned(state, run[p].cutoff)]
    BY <1>5, <1>12 DEF NewState
  <2>5. /\ "entries" \in DOMAIN NewState(p)
        /\ NewState(p).entries = state.entries \ Pruned(state, run[p].cutoff)
    BY <1>5, <2>4
  <2>6. "entries" \in DOMAIN state' /\ state'.entries = NewState(p).entries
    BY <1>6, <2>5, SyncedKeeps
  <2>7. run'[p].cut = Pruned(state, run[p].cutoff)
    BY <1>6, <1>12
  <2>8. Cmd(p)'.name \in PhaseCommands
    BY <1>1 DEF OneMoves, Cmd
  <2>9. ASSUME NEW e \in state.entries, e \notin state'.entries PROVE HeldBy(p, e)'
    <3>1. e \in run'[p].cut
      BY <2>5, <2>6, <2>7, <2>9
    <3> QED
      BY <2>3, <2>8, <3>1 DEF HeldBy
  <2> QED
    BY <2>2, <2>6, <2>9
<1>13. ASSUME ~Pruning(p) PROVE Survives
  <2>1. Cmd(p).name \notin StateReaders
    BY <1>0, <1>1, <1>2, WhereSteps
  <2>2. Cmd(p).name # "prune"
    <3> SUFFICES ASSUME Cmd(p).name = "prune" PROVE FALSE
      OBVIOUS
    <3>1. Cmd(p).name \in Cutters /\ Prelude(p) = 0 /\ run[p].at \in Nat /\ run[p].at > 0
      BY <1>0, <1>1, WhereSteps DEF Cutters, Prelude, Before
    <3>2. run[p].at > Before(Cmd(p).name)
      BY <3>1 DEF Prelude
    <3>3. run[p].at = Prelude(p) + 4
      BY <1>0, <1>1, <1>2, <3>1, <3>2, WhereSteps DEF Prelude
    <3>4. InPruning(p)
      <4>1. run[p].at > Prelude(p) + 1
        BY <3>1, <3>3
      <4> QED
        BY <3>1, <4>1 DEF InPruning
    <3> QED
      BY <1>1, <1>13, <3>4 DEF CutFits
  <2>3. Cmd(p).name \in StateWriters
    BY <1>1, <1>4, <2>1, <2>2, CommandsAre DEF StateReaders, StateWriters, LateLocking
  <2>4. /\ "entries" \in DOMAIN NewState(p)
        /\ Cmd(p).name # "resolve" => state.entries \cup New(p) \subseteq NewState(p).entries
        /\ Cmd(p).name = "resolve" =>
             state.entries \ Subject(Cmd(p)) \subseteq NewState(p).entries
    BY <1>5, <1>13, <2>3, NewStateKeeps
  <2>5. "entries" \in DOMAIN state' /\ state'.entries = NewState(p).entries
    BY <1>6, <2>4, SyncedKeeps
  <2>6. CASE Cmd(p).name = "resolve"
    <3>1. state.entries \ Subject(Cmd(p)) \subseteq state'.entries
      BY <2>4, <2>5, <2>6
    <3>2. recorded' = recorded \ Subject(Cmd(p))
      BY <1>7, <2>6
    <3> QED
      BY <2>5, <3>1, <3>2
  <2>7. CASE Cmd(p).name # "resolve"
    <3>1. state.entries \cup New(p) \subseteq state'.entries
      BY <2>4, <2>5, <2>7
    <3>2. recorded' = recorded \cup New(p)
      BY <1>7, <2>7
    <3> QED
      BY <2>5, <3>1, <3>2
  <2> QED
    BY <2>6, <2>7
<1>14. Survives
  BY <1>12, <1>13
<1>15. ASSUME NEW e \in recorded' PROVE Held(e)'
  <2>1. CASE e \in recorded
    <3>1. Held(e)
      BY <2>1 DEF EntriesHeld
    <3>2. CASE e \in state.entries
      BY <1>14, <1>15, <2>1, <3>2 DEF Held
    <3>3. CASE e \in pruned \/ \E q \in Procs : HeldBy(q, e)
      BY <1>6, <1>10, <3>3 DEF Held
    <3>4. CASE e \in lost \/ KilledWith(e)
      BY <1>1, <3>4, KilledKeep DEF Held, OneMoves
    <3> QED
      BY <3>1, <3>2, <3>3, <3>4 DEF Held
  <2>2. CASE e \notin recorded
    BY <1>14, <1>15, <2>2 DEF Held
  <2> QED
    BY <2>1, <2>2
<1> QED
  BY <1>11, <1>14, <1>15 DEF EntriesHeld

(* Every step keeps the entries held,                                      *)
LEMMA EntriesHeldStep ==
  ASSUME LockInv, NoUpdateIsLost, killed \subseteq Procs, \A q \in Procs : CutFits(q),
         Undisturbed, EntriesHeld, [Next]_vars
  PROVE  EntriesHeld'
<1>0. Formed
  BY DEF LockInv
<1>1. CASE Still
  BY <1>1, EntriesStill
<1>2. ASSUME NEW p \in Procs, Begins(p) PROVE EntriesHeld'
  <2>1. OneMoves(p) /\ SameCuts(p) /\ run'[p].at = 1 /\ UNCHANGED <<state, pruned, recorded>>
    BY <1>2 DEF Begins, phaseVars, files
  <2>2. \A e : ~HeldBy(p, e)
    <3>1. ~Running(p)
      <4>1. ~Started(p)
        BY <1>2 DEF Begins, Started
      <4> QED
        BY <4>1 DEF Running
    <3> QED
      BY <3>1 DEF HeldBy
  <2>3. FiledFits(p)'
    <3>1. Prelude(p)' \in Nat /\ \A k \in Nat : 1 # k + 7
      BY DEF Prelude, Before
    <3>2. run'[p].at # Prelude(p)' + 7
      BY <2>1, <3>1, Zenon
    <3> QED
      BY <3>2 DEF FiledFits
  <2> QED
    BY <2>1, <2>2, <2>3, EntriesStay
<1>3. ASSUME NEW p \in Procs, Cmd(p).name \notin PhaseCommands, Elsewhere(p) \/ AtALock(p)
      PROVE  EntriesHeld'
  <2>1. Running(p) /\ OneMoves(p) /\ UNCHANGED <<state, pruned, recorded>>
    BY <1>3 DEF Elsewhere, AtALock, phaseVars, files
  <2>2. \A e : ~HeldBy(p, e)
    BY <1>3 DEF HeldBy
  <2>3. FiledFits(p)'
    <3>1. Cmd(p)'.name \notin PhaseCommands
      BY <1>3, <2>1 DEF OneMoves, Cmd
    <3>2. Cutters \subseteq PhaseCommands
      BY CommandsAre DEF Cutters
    <3> QED
      BY <3>1, <3>2 DEF FiledFits
  <2> QED
    BY <2>1, <2>2, <2>3, EntriesStay
<1>4. ASSUME NEW p \in Procs, Cmd(p).name \in PhaseCommands, AtALock(p) PROVE EntriesHeld'
  <2>1. /\ Running(p) /\ OneMoves(p) /\ SameCuts(p) /\ UNCHANGED <<state, pruned, recorded>>
        /\ \/ run'[p].at \in {run[p].at, run[p].at + 1}
           \/ run'[p].at = Len(Steps(p)) + 1
                /\ Now(p) \notin {"lock state", "read state", "unlock state"}
        /\ Now(p) \notin {"read archive", "write archive"}
    BY <1>4 DEF AtALock, phaseVars, files, LockSteps
  <2>2. (\A e : HeldBy(p, e) => HeldBy(p, e)') /\ FiledFits(p)'
    BY <1>0, <1>4, <2>1, MoverHolds
  <2> QED
    BY <2>1, <2>2, EntriesStay
<1>5. ASSUME NEW p \in Procs, OnPhases(p) PROVE EntriesHeld'
  <2>1. Running(p) /\ Cmd(p).name \in PhaseCommands /\ OneMoves(p) /\ PhaseStep(p)
    BY <1>5 DEF OnPhases
  <2>2. CASE Indifferent(p)
    <3>1. /\ SameCuts(p) /\ UNCHANGED <<state, pruned, recorded>>
          /\ Now(p) \notin CutSteps /\ Now(p) \notin LockSteps
          /\ \/ run'[p].at \in {run[p].at, run[p].at + 1}
             \/ run'[p].at = Len(Steps(p)) + 1 /\ Now(p) # "read state"
      BY <2>2 DEF Indifferent
    <3>2. Now(p) \notin {"read archive", "write archive", "lock state", "unlock state"}
      BY <3>1 DEF CutSteps, LockSteps
    <3>3. \/ run'[p].at \in {run[p].at, run[p].at + 1}
          \/ run'[p].at = Len(Steps(p)) + 1
               /\ Now(p) \notin {"lock state", "read state", "unlock state"}
      BY <3>1, <3>2, Zenon
    <3>4. (\A e : HeldBy(p, e) => HeldBy(p, e)') /\ FiledFits(p)'
      BY <1>0, <2>1, <3>1, <3>2, <3>3, MoverHolds
    <3> QED
      BY <2>1, <3>1, <3>4, EntriesStay
  <2>3. CASE ReadCutoff(p) \/ ReadArchive(p)
    BY <1>0, <1>5, <2>3, ReadingHolds
  <2>4. CASE WriteState(p)
    BY <1>5, <2>4, WritingHolds
  <2>5. CASE WriteArchive(p)
    BY <1>5, <2>5, FilingHolds
  <2>6. CASE WriteStateFails(p)
    BY <1>5, <2>6, WritingFails
  <2>7. CASE WriteArchiveFails(p)
    BY <1>5, <2>7, FilingFails
  <2> QED
    BY <1>0, <2>1, <2>2, <2>3, <2>4, <2>5, <2>6, <2>7, PhaseStepCuts
<1> QED
  BY <1>1, <1>2, <1>3, <1>4, <1>5, NextSteps DEF Elsewhere

(* and the invariant,                                                      *)
LEMMA EntriesInvStep ==
  ASSUME LockInv, NoUpdateIsLost, EntriesInv, [Next]_vars
  PROVE  EntriesInv'
<1>1. killed \subseteq Procs /\ \A q \in Procs : CutFits(q)
  BY DEF EntriesInv
<1>2. killed' \subseteq Procs
  <2>1. CASE Still
    BY <1>1, <2>1 DEF Still
  <2>2. CASE \E p \in Procs : Begins(p) \/ Elsewhere(p) \/ AtALock(p) \/ OnPhases(p)
    BY <1>1, <2>2 DEF Begins, Elsewhere, AtALock, OnPhases, OneMoves
  <2> QED
    BY <2>1, <2>2, NextSteps
<1>3. \A q \in Procs : CutFits(q)'
  BY <1>1, CutFitsStep
<1>4. ASSUME Undisturbed' PROVE EntriesHeld'
  <2>1. Undisturbed
    BY <1>1, <1>4, UndisturbedBefore
  <2>2. EntriesHeld
    BY <2>1 DEF EntriesInv
  <2> QED
    BY <1>1, <1>4, <2>1, <2>2, EntriesHeldStep
<1> QED
  BY <1>2, <1>3, <1>4 DEF EntriesInv

(* which holds before anything is called.                                  *)
LEMMA EntriesInvInit == Init => EntriesInv
<1> SUFFICES ASSUME Init PROVE EntriesInv
  OBVIOUS
<1>1. PICK w \in Sessions : PhaseInit(w.phases) /\ ProcessInit(w.calls)
  BY DEF Init
<1>2. killed = {} /\ run = [p \in Procs |-> ToCall(w.calls[p])]
  BY <1>1 DEF ProcessInit
<1>3. ASSUME NEW p \in Procs
      PROVE  run[p].at = 0 /\ run[p].cutoff = 0 /\ run[p].cut = {}
  BY <1>2 DEF ToCall
<1>4. \A p \in Procs : ~Started(p) /\ ~Running(p) /\ ~Pruning(p)
  BY <1>3 DEF Started, Running, Pruning
<1>5. \A p \in Procs : CutFits(p) /\ FiledFits(p)
  BY <1>3, <1>4 DEF CutFits, FiledFits
<1>6. "entries" \in DOMAIN state /\ recorded = state.entries
  BY <1>1, SessionsAssumption DEF PhaseInit
<1>7. \A e \in recorded : Held(e)
  BY <1>6 DEF Held
<1> QED
  BY <1>2, <1>5, <1>6, <1>7 DEF EntriesInv, EntriesHeld

(* An entry that was recorded, and not resolved, is in STATE.md, in        *)
(* STATE-ARCHIVE.md or in the hands of the one call that prunes, killed or *)
(* not, as long as the lock is not taken away and no command writes what   *)
(* it has read unlocked, for any number of calls, kills and failed writes; *)
(* lost is only what a file said that a failing write has emptied, and     *)
(* what was cut and could not be archived.                                 *)
THEOREM EntriesAreSafe == Spec => []EntriesAreKept
<1>1. Init => EntriesInv
  BY EntriesInvInit
<1>2. LockInv /\ NoUpdateIsLost /\ EntriesInv /\ [Next]_vars => EntriesInv'
  BY EntriesInvStep
<1>3. EntriesInv => EntriesAreKept
  <2> SUFFICES ASSUME EntriesInv, Undisturbed, NEW e \in recorded
               PROVE  e \in state.entries \cup pruned \cup lost
                         \cup UNION {run[p].cut : p \in {q \in Procs : Running(q)} \cup killed}
    BY DEF EntriesAreKept, Undisturbed
  <2>1. Held(e)
    BY DEF EntriesInv, EntriesHeld
  <2>2. ASSUME NEW q \in Procs, HeldBy(q, e)
        PROVE  e \in UNION {run[p].cut : p \in {r \in Procs : Running(r)} \cup killed}
    BY <2>2 DEF HeldBy
  <2>3. KilledWith(e) => e \in UNION {run[p].cut : p \in {r \in Procs : Running(r)} \cup killed}
    BY DEF KilledWith
  <2> QED
    BY <2>1, <2>2, <2>3 DEF Held
<1> QED
  BY <1>1, <1>2, <1>3, LocksAreOwned, UpdatesAreKept, PTL DEF Spec

-----------------------------------------------------------------------------
(***************************************************************************)
(* No executed plan is lost: the directories keep their summaries.         *)
(***************************************************************************)
DirectoryFields == {"num", "slug", "plans", "sums", "notes"}
DirectoriesFit == \A d \in disk \cup archive : DirectoryFields \subseteq DOMAIN d

(* What phase remove is about to delete has no summaries, or was forced.   *)
LookedAt(p) ==
  Cmd(p).name = "remove" /\ At(p, "delete directory") =>
    Cmd(p).n # 0 \/ ~Summed(run[p].dirs)

PlansInv == DirectoriesFit /\ \A p \in Procs : LookedAt(p)

\* Every directory is still there, under whatever number, with its summaries.
Grows(D, E) == \A d \in D : \E e \in E : e.slug = d.slug /\ d.sums \subseteq e.sums

(* Then no summary is lost.                                                *)
LEMMA GrowsKeeps ==
  ASSUME NEW D, NEW E, Grows(D, E)
  PROVE  SummariesOf(D) \ SummariesOf(E) = {}
<1> SUFFICES ASSUME NEW x \in SummariesOf(D) PROVE x \in SummariesOf(E)
  OBVIOUS
<1>1. PICK d \in D : x \in {<<d.slug, s>> : s \in d.sums}
  BY DEF SummariesOf
<1>2. PICK e \in E : e.slug = d.slug /\ d.sums \subseteq e.sums
  BY DEF Grows
<1>3. x \in {<<e.slug, s>> : s \in e.sums}
  BY <1>1, <1>2
<1> QED
  BY <1>3 DEF SummariesOf

(* A step that changes some directories, keeping names and summaries.      *)
LEMMA ChangesGrow ==
  ASSUME DirectoriesFit, archive' = archive,
         \A d \in disk : \/ d \in disk'
                         \/ \E e \in disk' : e.slug = d.slug /\ d.sums \subseteq e.sums,
         \A e \in disk' \ disk : DirectoryFields \subseteq DOMAIN e
  PROVE  DirectoriesFit' /\ Grows(disk \cup archive, disk' \cup archive')
<1>1. ASSUME NEW d \in disk \cup archive
      PROVE  \E e \in disk' \cup archive' : e.slug = d.slug /\ d.sums \subseteq e.sums
  <2>1. CASE d \in disk'
    BY <2>1
  <2>2. CASE d \in archive
    BY <2>2
  <2>3. CASE d \in disk /\ d \notin disk'
    BY <2>3
  <2> QED
    BY <1>1, <2>1, <2>2, <2>3
<1>2. \A e \in disk' \cup archive' : DirectoryFields \subseteq DOMAIN e
  BY DEF DirectoriesFit
<1> QED
  BY <1>1, <1>2 DEF Grows, DirectoriesFit

(* The fields of a directory that is changed.                              *)
LEMMA DirectoryChanges ==
  ASSUME NEW d, DirectoryFields \subseteq DOMAIN d
  PROVE  /\ \A v : LET e == [d EXCEPT !.num = v] IN
              /\ DOMAIN e = DOMAIN d /\ e.slug = d.slug /\ e.sums = d.sums
         /\ \A v : LET e == [d EXCEPT !.notes = v] IN
              /\ DOMAIN e = DOMAIN d /\ e.slug = d.slug /\ e.sums = d.sums
         /\ \A v : LET e == [d EXCEPT !.plans = v] IN
              /\ DOMAIN e = DOMAIN d /\ e.slug = d.slug /\ e.sums = d.sums
         /\ \A v : LET e == [d EXCEPT !.sums = @ \cup v] IN
              /\ DOMAIN e = DOMAIN d /\ e.slug = d.slug /\ e.sums = d.sums \cup v
BY DEF DirectoryFields

(* Of the steps on the directories only two can lose a summary.            *)
LEMMA DirectoryStep ==
  ASSUME NEW p \in Procs, PhaseStep(p), DirectoriesFit
  PROVE  /\ DirectoriesFit'
         /\ \/ Grows(disk \cup archive, disk' \cup archive')
            \/ ClearDirectories(p) \/ DeleteDirectory(p)
<1>1. CASE disk' = disk /\ archive' = archive
  BY <1>1, ChangesGrow
<1>2. CASE DeleteDirectory(p) \/ ClearDirectories(p)
  <2>1. disk' \subseteq disk /\ archive' = archive
    BY <1>2 DEF DeleteDirectory, ClearDirectories
  <2> QED
    BY <1>2, <2>1 DEF DirectoriesFit
<1>3. CASE RenameDirectory(p)
  <2> DEFINE Numbered(here, v) == (disk \ here) \cup {[e EXCEPT !.num = v] : e \in here}
  <2>1. PICK here, v : here \subseteq disk /\ (disk' = disk \/ disk' = Numbered(here, v))
    <3> DEFINE num(d) == IF Cmd(p).num.dec > 0 THEN RenameDecimalPhases(d)
                                               ELSE RenameIntegerPhases(d)
               there(d) == {e \in disk : SameName(d, e)}
    <3>1. \/ disk' = disk
          \/ \E d \in run[p].dirs : disk' = Numbered(there(d), num(d))
      BY <1>3 DEF RenameDirectory
    <3> HIDE DEF Numbered
    <3>2. CASE disk' = disk
      BY <3>2, Zenon
    <3>3. CASE disk' # disk
      <4>1. PICK d : disk' = Numbered(there(d), num(d))
        BY <3>1, <3>3
      <4>2. there(d) \subseteq disk
        OBVIOUS
      <4> HIDE DEF num, there
      <4> QED
        BY <4>1, <4>2, Zenon
    <3> QED
      BY <3>2, <3>3
  <2>2. archive' = archive
    BY <1>3 DEF RenameDirectory
  <2>3. CASE disk' # disk
    <3>1. \A e \in here : LET f == [e EXCEPT !.num = v] IN
            DOMAIN f = DOMAIN e /\ f.slug = e.slug /\ f.sums = e.sums
      BY <2>1, DirectoryChanges DEF DirectoriesFit
    <3>2. disk' = (disk \ here) \cup {[e EXCEPT !.num = v] : e \in here}
      BY <2>1, <2>3
    <3>3. \A d \in disk : \/ d \in disk'
                          \/ \E e \in disk' : e.slug = d.slug /\ d.sums \subseteq e.sums
      BY <3>1, <3>2
    <3>4. \A e \in disk' \ disk : DirectoryFields \subseteq DOMAIN e
      BY <2>1, <3>1, <3>2 DEF DirectoriesFit
    <3> QED
      BY <2>2, <3>3, <3>4, ChangesGrow
  <2> QED
    BY <1>1, <2>2, <2>3
<1>4. CASE MakeDirectory(p) \/ MakeDirectoryFails(p)
  <2>1. archive' = archive /\ disk \subseteq disk' /\ disk' \ disk \subseteq NewDirectories(p)
    BY <1>4 DEF MakeDirectory, MakeDirectoryFails
  <2>2. \A e \in NewDirectories(p) : \E num : e = NewDirectory(num, p)
    BY DEF NewDirectories
  <2>3. \A e \in disk' \ disk : DirectoryFields \subseteq DOMAIN e
    BY <2>1, <2>2 DEF NewDirectory, DirectoryFields
  <2> QED
    BY <2>1, <2>3, ChangesGrow
<1>5. CASE ArchiveDirectories(p)
  <2>1. PICK mine : mine \subseteq disk /\ disk' = disk \ mine /\ archive' = archive \cup mine
    BY <1>5 DEF ArchiveDirectories
  <2>2. disk' \cup archive' = disk \cup archive
    BY <2>1
  <2>3. DirectoriesFit'
    BY <2>2 DEF DirectoriesFit
  <2> QED
    BY <2>2, <2>3 DEF Grows
<1>6. CASE WriteSummary(p)
  <2>1. archive' = archive
    BY <1>6 DEF WriteSummary
  <2>2. CASE disk' # disk
    <3>0. PICK d \in disk :
             \E plan : disk' = (disk \ {d}) \cup {[d EXCEPT !.sums = @ \cup {plan}]}
      BY <1>6, <2>2 DEF WriteSummary
    <3>1. PICK plan : disk' = (disk \ {d}) \cup {[d EXCEPT !.sums = @ \cup {plan}]}
      BY <3>0
    <3> DEFINE f == [d EXCEPT !.sums = @ \cup {plan}]
    <3>2. DOMAIN f = DOMAIN d /\ f.slug = d.slug /\ f.sums = d.sums \cup {plan}
      BY DirectoryChanges DEF DirectoriesFit
    <3> HIDE DEF f
    <3>3. disk' = (disk \ {d}) \cup {f}
      BY <3>1 DEF f
    <3>4. DirectoryFields \subseteq DOMAIN f /\ d.sums \subseteq f.sums
      BY <3>2 DEF DirectoriesFit
    <3> QED
      BY <2>1, <3>2, <3>3, <3>4, ChangesGrow
  <2> QED
    BY <1>1, <2>1, <2>2
<1>7. CASE Manage(p)
  <2>1. archive' = archive
    BY <1>7 DEF Manage
  <2>2. CASE disk' # disk
    <3> DEFINE Worked(a, d) == CASE a.action = "discuss" -> [d EXCEPT !.notes = "context"]
                               [] a.action = "plan"    -> [d EXCEPT !.plans = {p}]
                               [] a.action = "execute" -> [d EXCEPT !.sums = @ \cup d.plans]
    <3>0. PICK active :
            \E a \in RecommendedActions(disk, roadmap, active) :
              LET here == {d \in disk : d.num = a.phase}
                  todo(d) == CASE a.action = "discuss" -> [d EXCEPT !.notes = "context"]
                               [] a.action = "plan"    -> [d EXCEPT !.plans = {p}]
                               [] a.action = "execute" -> [d EXCEPT !.sums = @ \cup d.plans]
              IN  disk' = IF here = {} THEN disk \cup {todo(NewDirectory(a.phase, p))}
                          ELSE LET d == CHOOSE e \in here : TRUE
                               IN  (disk \ {d}) \cup {todo(d)}
      BY <1>7, <2>2, Zenon DEF Manage
    <3>1. PICK a \in RecommendedActions(disk, roadmap, active) :
            LET here == {d \in disk : d.num = a.phase} IN
            disk' = IF here = {} THEN disk \cup {Worked(a, NewDirectory(a.phase, p))}
                    ELSE LET d == CHOOSE e \in here : TRUE
                         IN  (disk \ {d}) \cup {Worked(a, d)}
      BY <3>0, Zenon
    <3>2. a.action \in {"execute", "plan", "discuss"}
      <4>1. PICK s : a = [phase |-> s.num, action |-> ActionFor(disk, roadmap, s)]
                     /\ ActionFor(disk, roadmap, s) # Nothing
        BY DEF RecommendedActions
      <4>2. ActionFor(disk, roadmap, s) \in {"execute", "plan", "discuss", Nothing}
        BY DEF ActionFor
      <4> QED
        BY <4>1, <4>2
    <3>3. ASSUME NEW d, DirectoryFields \subseteq DOMAIN d
          PROVE  /\ DirectoryFields \subseteq DOMAIN Worked(a, d)
                 /\ Worked(a, d).slug = d.slug /\ d.sums \subseteq Worked(a, d).sums
      <4>1. CASE a.action = "discuss"
        <5>1. Worked(a, d) = [d EXCEPT !.notes = "context"]
          BY <4>1
        <5> HIDE DEF Worked
        <5> QED
          BY <3>3, <5>1, DirectoryChanges
      <4>2. CASE a.action = "plan"
        <5>1. Worked(a, d) = [d EXCEPT !.plans = {p}]
          BY <4>2
        <5> HIDE DEF Worked
        <5> QED
          BY <3>3, <5>1, DirectoryChanges
      <4>3. CASE a.action = "execute"
        <5>1. Worked(a, d) = [d EXCEPT !.sums = @ \cup d.plans]
          BY <4>3
        <5> HIDE DEF Worked
        <5>2. DOMAIN Worked(a, d) = DOMAIN d /\ Worked(a, d).slug = d.slug
              /\ Worked(a, d).sums = d.sums \cup d.plans
          BY <3>3, <5>1, DirectoryChanges
        <5> QED
          BY <3>3, <5>2
      <4> QED
        BY <3>2, <4>1, <4>2, <4>3
    <3> HIDE DEF Worked
    <3> DEFINE here == {d \in disk : d.num = a.phase}
    <3>4. CASE here = {}
      <4>1. disk' = disk \cup {Worked(a, NewDirectory(a.phase, p))}
        BY <3>1, <3>4
      <4>2. DirectoryFields \subseteq DOMAIN NewDirectory(a.phase, p)
        BY DEF NewDirectory, DirectoryFields
      <4>3. DirectoryFields \subseteq DOMAIN Worked(a, NewDirectory(a.phase, p))
        BY <3>3, <4>2
      <4> QED
        BY <2>1, <4>1, <4>3, ChangesGrow
    <3>5. CASE here # {}
      <4>1. PICK d \in disk : disk' = (disk \ {d}) \cup {Worked(a, d)}
        BY <3>1, <3>5
      <4>2. /\ DirectoryFields \subseteq DOMAIN Worked(a, d)
            /\ Worked(a, d).slug = d.slug /\ d.sums \subseteq Worked(a, d).sums
        BY <3>3 DEF DirectoriesFit
      <4> QED
        BY <2>1, <4>1, <4>2, ChangesGrow
    <3> QED
      BY <3>4, <3>5
  <2> QED
    BY <1>1, <2>1, <2>2
<1>8. CASE FindPhaseDir(p) \/ ListDirectories(p) \/ ReadRoadmap(p) \/ WriteRoadmap(p)
           \/ ReadRequirements(p) \/ WriteRequirements(p) \/ Scan(p) \/ FindNext(p)
  BY <1>1, <1>8 DEF FindPhaseDir, ListDirectories, ReadRoadmap, WriteRoadmap,
        ReadRequirements, WriteRequirements, Scan, FindNext, files
<1>9. CASE ReadState(p) \/ ReadCutoff(p) \/ DeriveState(p)
           \/ WriteState(p) \/ ReadArchive(p) \/ WriteArchive(p)
  BY <1>1, <1>9 DEF ReadState, ReadCutoff, DeriveState, WriteState, ReadArchive,
        WriteArchive, files
<1>10. CASE RenameFails(p) \/ WriteRoadmapFails(p) \/ WriteRequirementsFails(p)
            \/ WriteStateFails(p) \/ WriteArchiveFails(p)
  BY <1>1, <1>10 DEF RenameFails, WriteRoadmapFails, WriteRequirementsFails, WriteStateFails,
        WriteArchiveFails, files
<1> QED
  BY <1>2, <1>3, <1>4, <1>5, <1>6, <1>7, <1>8, <1>9, <1>10 DEF PhaseStep

(* Which step a phase command takes at the two places of a removal.        *)
LEMMA RemovalActs ==
  ASSUME NEW p \in Procs, PhaseStep(p), Now(p) \in {"find phase", "delete directory"}
  PROVE  \/ FindPhaseDir(p) /\ Now(p) = "find phase"
         \/ DeleteDirectory(p) /\ Now(p) = "delete directory"
<1>0. ASSUME NEW x, x \notin {"find phase", "delete directory"} PROVE ~At(p, x)
  BY <1>0, AtNow
<1>1. /\ ListDirectories(p) => At(p, "list directories")
      /\ RenameDirectory(p) => At(p, "rename directory")
      /\ MakeDirectory(p) => At(p, "make directory")
      /\ ClearDirectories(p) => At(p, "clear directories")
      /\ ArchiveDirectories(p) => At(p, "archive directories")
  BY Zenon DEF ListDirectories, RenameDirectory, MakeDirectory, ClearDirectories,
               ArchiveDirectories
<1>2. /\ WriteSummary(p) => At(p, "write summary")
      /\ Manage(p) => At(p, "manage")
      /\ ReadRoadmap(p) => At(p, "read roadmap")
      /\ WriteRoadmap(p) => At(p, "write roadmap")
      /\ ReadRequirements(p) => At(p, "read requirements")
      /\ WriteRequirements(p) => At(p, "write requirements")
  BY Zenon DEF WriteSummary, Manage, ReadRoadmap, WriteRoadmap, ReadRequirements,
               WriteRequirements
<1>3. /\ Scan(p) => At(p, "scan")
      /\ FindNext(p) => At(p, "find next")
      /\ ReadState(p) => At(p, "read state")
      /\ ReadCutoff(p) => At(p, "read cutoff")
      /\ DeriveState(p) => At(p, "derive state")
      /\ WriteState(p) => At(p, "write state")
      /\ ReadArchive(p) => At(p, "read archive")
      /\ WriteArchive(p) => At(p, "write archive")
  BY Zenon DEF Scan, FindNext, ReadState, ReadCutoff, DeriveState, WriteState,
               ReadArchive, WriteArchive
<1>7. /\ RenameFails(p) => At(p, "rename directory")
      /\ MakeDirectoryFails(p) => At(p, "make directory")
      /\ WriteRoadmapFails(p) => At(p, "write roadmap")
      /\ WriteRequirementsFails(p) => At(p, "write requirements")
      /\ WriteStateFails(p) => At(p, "write state")
      /\ WriteArchiveFails(p) => At(p, "write archive")
  BY Zenon DEF RenameFails, MakeDirectoryFails, WriteRoadmapFails, WriteRequirementsFails,
               WriteStateFails, WriteArchiveFails
<1>4. FindPhaseDir(p) => Now(p) = "find phase"
  BY AtNow DEF FindPhaseDir
<1>5. DeleteDirectory(p) => Now(p) = "delete directory"
  BY AtNow DEF DeleteDirectory
<1>6. FindPhaseDir(p) \/ DeleteDirectory(p)
  <2>1. ~(ListDirectories(p) \/ RenameDirectory(p) \/ MakeDirectory(p)
          \/ ClearDirectories(p) \/ ArchiveDirectories(p))
    <3>1. /\ ~At(p, "list directories")
          /\ ~At(p, "rename directory")
          /\ ~At(p, "make directory")
          /\ ~At(p, "clear directories")
          /\ ~At(p, "archive directories")
      BY <1>0
    <3> QED
      BY <1>1, <3>1, Zenon
  <2>2. ~(WriteSummary(p) \/ Manage(p) \/ ReadRoadmap(p) \/ WriteRoadmap(p)
          \/ ReadRequirements(p) \/ WriteRequirements(p))
    <3>1. /\ ~At(p, "write summary")
          /\ ~At(p, "manage")
          /\ ~At(p, "read roadmap")
          /\ ~At(p, "write roadmap")
          /\ ~At(p, "read requirements")
          /\ ~At(p, "write requirements")
      BY <1>0
    <3> QED
      BY <1>2, <3>1, Zenon
  <2>3. ~(Scan(p) \/ FindNext(p) \/ ReadState(p) \/ ReadCutoff(p) \/ DeriveState(p)
          \/ WriteState(p) \/ ReadArchive(p) \/ WriteArchive(p))
    <3>1. /\ ~At(p, "scan")
          /\ ~At(p, "find next")
          /\ ~At(p, "read state")
          /\ ~At(p, "read cutoff")
          /\ ~At(p, "derive state")
          /\ ~At(p, "write state")
          /\ ~At(p, "read archive")
          /\ ~At(p, "write archive")
      BY <1>0
    <3> QED
      BY <1>3, <3>1, Zenon
  <2>4. ~(RenameFails(p) \/ MakeDirectoryFails(p) \/ WriteRoadmapFails(p)
          \/ WriteRequirementsFails(p) \/ WriteStateFails(p) \/ WriteArchiveFails(p))
    <3>1. /\ ~At(p, "rename directory")
          /\ ~At(p, "make directory")
          /\ ~At(p, "write roadmap")
          /\ ~At(p, "write requirements")
          /\ ~At(p, "write state")
          /\ ~At(p, "write archive")
      BY <1>0
    <3> QED
      BY <1>7, <3>1, Zenon
  <2> QED
    BY <2>1, <2>2, <2>3, <2>4 DEF PhaseStep
<1> QED
  BY <1>4, <1>5, <1>6

(* How a call comes to its second step.                                    *)
LEMMA SecondPlace ==
  /\ \A i, n \in Nat : i # 0 /\ i <= n => i \in 1 .. n /\ i # n + 1
  /\ \A i \in Nat : 2 \in {i, i + 1} => i = 1 \/ i = 2
  /\ \A i \in Nat : i > 0 => i # 0
  /\ \A i, j \in Nat : i = 2 /\ j = 2 => j # i + 1
  OBVIOUS

(* Where a call that has come to delete a directory has come from.         *)
LEMMA ComesToDelete ==
  ASSUME Formed, NEW p \in Procs, Cmd(p).name = "remove", At(p, "delete directory")',
         Begins(p) \/ Elsewhere(p) \/ AtALock(p) \/ OnPhases(p)
  PROVE  FindPhaseDir(p) /\ run'[p].at # Len(Steps(p)) + 1
<1>1. OneMoves(p)
  BY DEF Begins, Elsewhere, AtALock, OnPhases
<1>2. /\ Steps(p)' = Steps(p) /\ Steps(p) = PhaseProgram["remove"]
      /\ Cmd(p).name \in PhaseCommands
  BY <1>1, CommandsAre DEF OneMoves, Steps, Cmd, Program, Commands
<1>3. Running(p)' /\ Steps(p)[run'[p].at] = "delete directory"
  BY <1>2 DEF At
<1>4. run'[p].at \in Nat \ {0} /\ run'[p].at <= Len(Steps(p))
  BY <1>1, <1>2, <1>3 DEF OneMoves, Running
<1>5. Running(p)
  <2>1. run'[p].at # 1
    BY <1>2, <1>3, RemovePlaces
  <2> QED
    BY <1>2, <2>1 DEF Begins, Elsewhere, AtALock, OnPhases
<1>6. /\ run[p].at \in Nat /\ run[p].at > 0 /\ Len(Steps(p)) \in Nat
      /\ run[p].at = 1 => Now(p) = "find phase"
      /\ Now(p) \in CutSteps => Cmd(p).name \in Cutters
  BY <1>2, <1>5, WhereSteps
<1>7. run'[p].at = 2 /\ run'[p].at # Len(Steps(p)) + 1
  <2>2. run'[p].at \in 1 .. Len(Steps(p)) /\ run'[p].at # Len(Steps(p)) + 1
    BY <1>4, <1>6, SecondPlace
  <2> QED
    BY <1>2, <1>3, <2>2, RemovePlaces DEF RemoveSteps
<1>8. ASSUME run'[p].at \in {run[p].at, run[p].at + 1}
      PROVE  \/ run[p].at = 1 /\ Now(p) = "find phase"
             \/ run[p].at = 2 /\ Now(p) = "delete directory"
  <2>2. run[p].at = 1 \/ run[p].at = 2
    BY <1>6, <1>7, <1>8, SecondPlace, Zenon
  <2>3. run[p].at = 2 => Now(p) = "delete directory"
    BY <1>3, <1>7, Zenon DEF Now
  <2>4. run[p].at = 1 => Now(p) = "find phase"
    BY <1>6
  <2> QED
    BY <2>2, <2>3, <2>4, Zenon
<1>9. ~Begins(p) /\ ~Elsewhere(p)
  <2>1. run[p].at # 0
    BY <1>6, SecondPlace, Zenon
  <2> QED
    BY <1>2, <2>1 DEF Begins, Elsewhere
<1>10. ~AtALock(p)
  <2> SUFFICES ASSUME AtALock(p) PROVE FALSE
    OBVIOUS
  <2>1. Now(p) \in LockSteps /\ Now(p) \in {"find phase", "delete directory"}
    BY <1>7, <1>8 DEF AtALock
  <2> QED
    BY <2>1 DEF LockSteps
<1>11. OnPhases(p) /\ PhaseStep(p)
  BY <1>9, <1>10 DEF OnPhases
<1>12. run'[p].at \in {run[p].at, run[p].at + 1}
  <2>1. CASE Indifferent(p)
    BY <1>7, <2>1 DEF Indifferent
  <2>2. CASE WriteState(p)
    <3>1. DOMAIN run = Procs /\ DOMAIN run[p] = Fields
      BY DEF Formed, CallFormed
    <3> QED
      BY <2>2, <3>1, FieldsAre DEF WriteState, GoWith
  <2>4. CASE WriteStateFails(p)
    BY <1>1, <1>3, <1>5, <2>4, Stopped DEF WriteStateFails
  <2>3. CASE ReadCutoff(p) \/ ReadArchive(p) \/ WriteArchive(p) \/ WriteArchiveFails(p)
    <3>1. Now(p) \in CutSteps
      BY <2>3, AtNow DEF ReadCutoff, ReadArchive, WriteArchive, WriteArchiveFails, CutSteps
    <3>2. Cmd(p).name \in Cutters
      BY <1>6, <3>1
    <3> QED
      BY <3>2 DEF Cutters
  <2> QED
    BY <1>11, <2>1, <2>2, <2>3, <2>4, PhaseStepCuts
<1>13. CASE run[p].at = 1 /\ Now(p) = "find phase"
  BY <1>7, <1>11, <1>13, RemovalActs
<1>14. CASE run[p].at = 2 /\ Now(p) = "delete directory"
  <2>1. DeleteDirectory(p)
    BY <1>11, <1>14, RemovalActs
  <2>2. run'[p].at = run[p].at + 1
    <3>1. DOMAIN run = Procs /\ DOMAIN run[p] = Fields
      BY DEF Formed, CallFormed
    <3> QED
      BY <2>1, <3>1, FieldsAre DEF DeleteDirectory, Go
  <2>3. run[p].at = 2 /\ run'[p].at = 2
    BY <1>7, <1>14, Zenon
  <2>4. run[p].at \in Nat /\ run'[p].at \in Nat
    BY <1>4, <1>6
  <2> QED
    BY <2>2, <2>3, <2>4, SecondPlace, Zenon
<1> QED
  BY <1>8, <1>12, <1>13, <1>14

(* phase remove looks at the summaries before it deletes.                  *)
LEMMA LookedAtStep ==
  ASSUME LockInv, \A q \in Procs : LookedAt(q), [Next]_vars
  PROVE  \A q \in Procs : LookedAt(q)'
<1>0. Formed
  BY DEF LockInv
<1>1. ASSUME NEW q \in Procs, run'[q] = run[q], killed \subseteq killed' PROVE LookedAt(q)'
  <2>1. Running(q)' => Running(q)
    BY <1>1 DEF Running, Started, Steps, Cmd
  <2>2. LookedAt(q)
    OBVIOUS
  <2> QED
    BY <1>1, <2>1, <2>2 DEF LookedAt, At, Steps, Cmd
<1>2. CASE Still
  BY <1>1, <1>2 DEF Still
<1>3. ASSUME NEW p \in Procs, Begins(p) \/ Elsewhere(p) \/ AtALock(p) \/ OnPhases(p)
      PROVE  \A q \in Procs : LookedAt(q)'
  <2>1. OneMoves(p)
    BY <1>3 DEF Begins, Elsewhere, AtALock, OnPhases
  <2>2. \A q \in Procs \ {p} : LookedAt(q)'
    BY <1>1, <2>1 DEF OneMoves
  <2>3. Cmd(p)' = Cmd(p)
    BY <2>1 DEF OneMoves, Cmd
  <2>4. ASSUME Cmd(p).name = "remove", At(p, "delete directory")'
        PROVE  Cmd(p).n # 0 \/ ~Summed(run'[p].dirs)
    <3>1. FindPhaseDir(p) /\ run'[p].at # Len(Steps(p)) + 1
      BY <1>0, <1>3, <2>4, ComesToDelete
    <3>2. DOMAIN run = Procs /\ DOMAIN run[p] = Fields
      BY <1>0 DEF Formed, CallFormed
    <3>3. ~Stop(p)
      BY <3>1, <3>2, FieldsAre DEF Stop
    <3>4. Is(p, {"remove"})
      BY <2>4, <3>1, AtNow DEF FindPhaseDir, Is, Running
    <3> DEFINE found == {d \in disk : TokenMatches(d, Cmd(p).num)}
    <3>5. PICK d \in IF found = {} THEN {{}} ELSE {{e} : e \in found} :
            GoWith(p, "dirs", d) /\ ~(Summed(found) /\ Cmd(p).n = 0)
      BY <3>1, <3>3, <3>4 DEF FindPhaseDir
    <3>6. run'[p].dirs = d
      BY <3>2, <3>5, FieldsAre DEF GoWith
    <3>7. Summed(d) => Summed(found)
      BY <3>5 DEF Summed
    <3> QED
      BY <3>5, <3>6, <3>7
  <2>5. LookedAt(p)'
    BY <2>3, <2>4 DEF LookedAt
  <2> QED
    BY <2>2, <2>5
<1> QED
  BY <1>2, <1>3, NextSteps

(* Every step keeps both.                                                  *)
LEMMA PlansInvStep ==
  ASSUME LockInv, PlansInv, [Next]_vars
  PROVE  PlansInv'
<1>1. \A q \in Procs : LookedAt(q)'
  BY LookedAtStep DEF PlansInv
<1>2. DirectoriesFit'
  <2>1. CASE disk' = disk /\ archive' = archive
    BY <2>1 DEF PlansInv, DirectoriesFit
  <2>2. CASE \E p \in Procs : OnPhases(p)
    BY <2>2, DirectoryStep DEF OnPhases, PlansInv
  <2> QED
    BY <2>1, <2>2, NextSteps DEF Still, Begins, Elsewhere, AtALock, phaseVars, files
<1> QED
  BY <1>1, <1>2 DEF PlansInv

(* An executed plan is lost to phases clear, or to a removal that was      *)
(* forced or had looked before the plan was executed, and to nothing else: *)
(* no renaming, archiving, summary or agent's work takes one away.         *)
THEOREM ExecutedPlansAreSafe == Spec => ExecutedPlansAreKept
<1>1. Init => PlansInv
  <2> SUFFICES ASSUME Init PROVE PlansInv
    OBVIOUS
  <2>1. PICK w \in Sessions : PhaseInit(w.phases) /\ ProcessInit(w.calls)
    BY DEF Init
  <2>2. DirectoriesFit
    BY <2>1, SessionsAssumption DEF PhaseInit, DirectoriesFit, DirectoryFields
  <2>3. \A p \in Procs : ~Started(p)
    BY <2>1 DEF ProcessInit, ToCall, Started
  <2> QED
    BY <2>2, <2>3 DEF PlansInv, LookedAt, At, Running
<1>2. LockInv /\ PlansInv /\ [Next]_vars => PlansInv'
  BY PlansInvStep
<1>3. LockInv /\ PlansInv /\ [Next]_vars =>
        [LET gone == SummariesOf(disk \cup archive) \ SummariesOf(disk' \cup archive')
         IN  gone # {} =>
               \E p \in Procs :
                 \/ At(p, "clear directories")
                 \/ At(p, "delete directory") /\ (Cmd(p).n # 0 \/ ~Summed(run[p].dirs))]_files
  <2> SUFFICES ASSUME LockInv, PlansInv, [Next]_vars,
                      SummariesOf(disk \cup archive) \ SummariesOf(disk' \cup archive') # {}
               PROVE  \E p \in Procs :
                        \/ At(p, "clear directories")
                        \/ At(p, "delete directory")
                             /\ (Cmd(p).n # 0 \/ ~Summed(run[p].dirs))
    OBVIOUS
  <2>1. ~(disk' = disk /\ archive' = archive)
    OBVIOUS
  <2>2. PICK p \in Procs : OnPhases(p)
    BY <2>1, NextSteps DEF Still, Begins, Elsewhere, AtALock, phaseVars, files
  <2>3. ClearDirectories(p) \/ DeleteDirectory(p)
    BY <2>2, DirectoryStep, GrowsKeeps DEF OnPhases, PlansInv
  <2>4. CASE ClearDirectories(p)
    BY <2>4 DEF ClearDirectories
  <2>5. CASE DeleteDirectory(p)
    <3>1. At(p, "delete directory") /\ Now(p) = "delete directory"
      BY <2>5, AtNow DEF DeleteDirectory
    <3>2. Cmd(p).name = "remove"
      BY <2>2, <3>1, WhereSteps DEF OnPhases, LockInv
    <3> QED
      BY <3>1, <3>2 DEF PlansInv, LookedAt
  <2> QED
    BY <2>3, <2>4, <2>5
<1> QED
  BY <1>1, <1>2, <1>3, LocksAreOwned, PTL DEF Spec, ExecutedPlansAreKept
=============================================================================
