------------------------ MODULE PlanningSpaceProofs -------------------------
(***************************************************************************)
(* Proofs about what the calls of PlanningProject share beyond the locked  *)
(* files, for any processes, calls, workstreams, tries, kills and faults:  *)
(*   - a copy's files are its own, and what it searches for is in no file  *)
(*     it has looked at (KnowledgeInv): KnowledgeIsKept follows;           *)
(*   - a call on the profiles writes what it has read of both files, and   *)
(*     can put back what it has copied (ProfileInv), from which            *)
(*     AgentsFollowTheProfile follows;                                     *)
(*   - a call writes into a config.json what says all that was set there,  *)
(*     or nothing that counts was (SettingsInv): SettingsAreKept follows;  *)
(*   - a call that moves files knows which it has moved, and puts them     *)
(*     where nothing lies (WorkInv): WorkIsKept follows.                   *)
(***************************************************************************)
EXTENDS PlanningProjectProofs

-----------------------------------------------------------------------------
(***************************************************************************)
(* Calls that share workstreams, profiles or learnings.                    *)
(***************************************************************************)
\* Calls that run at the same time have been noticed.
TogetherFits ==
  \A p, q \in Procs :
    p # q /\ Running(p) /\ Running(q) /\ Related(Cmd(p).name, Cmd(q).name)
      => {p, q} \in together

(* The programs of the calls on the learnings.                             *)
LEMMA KnowledgeSteps ==
  /\ LET s == KnowledgeProgram["copy"] IN
       /\ Len(s) = 4 /\ DOMAIN s = 1 .. 4
       /\ s[1] = "scan library" /\ s[2] = "read learning"
       /\ s[3] = "create learning" /\ s[4] = "fill learning"
  /\ LET s == KnowledgeProgram["purge"] IN
       Len(s) = 3 /\ s[1] = "list old" /\ s[2] = "look at old" /\ s[3] = "unlink learning"
  /\ LET s == KnowledgeProgram["forget"] IN
       Len(s) = 2 /\ s[1] = "find learning" /\ s[2] = "unlink learning"
BY DEF KnowledgeProgram

(* A few numbers.                                                          *)
LEMMA Counting ==
  \A i : /\ i \in 1 .. 4 => i = 1 \/ i = 2 \/ i = 3 \/ i = 4
         /\ i \in 1 .. 3 => i = 1 \/ i = 2 \/ i = 3
         /\ i \in 1 .. 2 => i = 1 \/ i = 2
  OBVIOUS

(* Where a call on the learnings is at each step.                          *)
LEMMA WhereKnowledge ==
  ASSUME Formed, NEW p \in Procs, Running(p), Cmd(p).name \in KnowledgeCommands
  PROVE  LET c == Cmd(p).name  i == run[p].at IN
         /\ c \in {"copy", "purge", "forget"}
         /\ Now(p) \notin LockSteps
         /\ Now(p) = "scan library"    <=> c = "copy" /\ i = 1
         /\ Now(p) = "read learning"   <=> c = "copy" /\ i = 2
         /\ Now(p) = "create learning" <=> c = "copy" /\ i = 3
         /\ Now(p) = "fill learning"   <=> c = "copy" /\ i = 4
         /\ Now(p) \in {"look at old", "list old", "find learning", "unlink learning"}
              <=> c # "copy"
         /\ c = "copy" => i \in {1, 2, 3, 4} /\ Len(Steps(p)) = 4
                            /\ StepNo(p, "scan library") = 1
<1>1. Cmd(p).name \in {"copy", "purge", "forget"} /\ Cmd(p).name \in Commands
  BY DEF KnowledgeCommands, KnowledgeProgram, Commands
<1>2. Cmd(p).name \notin PhaseCommands \cup SpaceCommands \cup ProfileCommands
  BY <1>1, CommandsAre
<1>3. Steps(p) = KnowledgeProgram[Cmd(p).name] /\ run[p].at \in 1 .. Len(Steps(p))
  BY <1>1, <1>2, StepLeads DEF Steps, Cmd, Program
<1>4. CASE Cmd(p).name = "copy"
  <2> DEFINE s == Steps(p)  i == run[p].at
  <2>1. /\ Len(s) = 4 /\ DOMAIN s = 1 .. 4
        /\ s[1] = "scan library" /\ s[2] = "read learning"
        /\ s[3] = "create learning" /\ s[4] = "fill learning"
    BY <1>3, <1>4, KnowledgeSteps, Zenon
  <2>2. i = 1 \/ i = 2 \/ i = 3 \/ i = 4
    BY <1>3, <2>1, Counting, Zenon
  <2>3. StepNo(p, "scan library") = 1
    <3>1. \A j \in 1 .. 4 : s[j] = "scan library" <=> j = 1
      BY <2>1, Counting
    <3>2. 1 \in 1 .. 4
      OBVIOUS
    <3> QED
      BY <2>1, <3>1, <3>2 DEF StepNo
  <2> HIDE DEF s, i
  <2>4. Now(p) = s[i] /\ 1 # 2 /\ 1 # 3 /\ 1 # 4 /\ 2 # 3 /\ 2 # 4 /\ 3 # 4
    BY DEF Now, s, i
  <2> QED
    BY <1>4, <2>1, <2>2, <2>3, <2>4 DEF LockSteps, s, i
<1>5. CASE Cmd(p).name = "purge"
  <2>1. Now(p) \in {"list old", "look at old", "unlink learning"}
    BY <1>3, <1>5, KnowledgeSteps, Counting, Zenon DEF Now
  <2> QED
    BY <1>5, <2>1 DEF LockSteps
<1>6. CASE Cmd(p).name = "forget"
  <2>1. Now(p) \in {"find learning", "unlink learning"}
    BY <1>3, <1>6, KnowledgeSteps, Counting, Zenon DEF Now
  <2> QED
    BY <1>6, <2>1 DEF LockSteps
<1> QED
  BY <1>1, <1>4, <1>5, <1>6

\* The step that follows a step, in a command of ProfileTool.
After(c, x) ==
  CASE x = "fetch catalog"    -> IF c = "inline" THEN "read profiles" ELSE "back up oc"
    [] x = "look at profile"  -> "read profiles"
    [] x = "look at opencode" -> "read profiles"
    [] x = "read profiles"    -> IF c = "inline" THEN "back up oc"
                                 ELSE IF c = "pick" THEN "fetch catalog"
                                 ELSE "back up opencode"
    [] x = "read permission"  -> "back up opencode"
    [] x = "back up opencode" -> IF c = "allow" THEN "empty opencode" ELSE "read profile"
    [] x = "back up oc"       -> "empty oc"
    [] x = "empty oc"         -> "fill oc"
    [] x = "fill oc"          -> "read profile"
    [] x = "read profile"     -> "read opencode"
    [] x = "read opencode"    -> "empty opencode"
    [] x = "empty opencode"   -> "fill opencode"
    [] x = "fill opencode"    -> "restore"

\* The steps of each command.
Saving   == {"back up oc", "empty oc", "fill oc"}
Applying == {"read profile", "read opencode", "empty opencode", "fill opencode", "restore"}
StepsOf(c) ==
  CASE c = "inline"  -> {"fetch catalog", "read profiles"} \cup Saving \cup Applying
    [] c = "pick"    -> {"look at profile", "read profiles", "fetch catalog"} \cup Saving
                          \cup Applying
    [] c = "rewrite" -> {"look at opencode", "read profiles", "back up opencode"}
                          \cup Applying
    [] c = "allow"   -> {"read permission", "back up opencode"}
                          \cup (Applying \ {"read profile", "read opencode"})

\* The steps s follow each other so, from x to y.
Chain(c, s, X, x, y) ==
  /\ s \in Seq(X) /\ Len(s) > 0 /\ s[1] = x /\ s[Len(s)] = y
  /\ \A i \in 1 .. Len(s) - 1 : s[i + 1] = After(c, s[i]) /\ s[i] # "restore"

(* Two blocks that follow each other.                                      *)
LEMMA ChainJoin ==
  ASSUME NEW c, NEW s, NEW t, NEW X, NEW Y, NEW x, NEW y, NEW z, NEW w,
         Chain(c, s, X, x, y), Chain(c, t, Y, z, w), z = After(c, y), y # "restore"
  PROVE  Chain(c, s \o t, X \cup Y, x, w)
<1> DEFINE e == s \o t
<1>1. /\ e \in Seq(X \cup Y) /\ Len(e) = Len(s) + Len(t)
      /\ \A i \in 1 .. Len(s) : e[i] = s[i]
      /\ \A i \in 1 .. Len(t) : e[Len(s) + i] = t[i]
  BY JoinPlaces DEF Chain
<1>2. Len(s) \in Nat \ {0} /\ Len(t) \in Nat \ {0}
  BY DEF Chain
<1> HIDE DEF e
<1>3. Len(e) > 0 /\ e[1] = x /\ e[Len(e)] = w
  <2>1. 1 \in 1 .. Len(s) /\ Len(t) \in 1 .. Len(t) /\ Len(e) > 0
    BY <1>1, <1>2
  <2>2. e[1] = s[1] /\ e[Len(e)] = t[Len(t)]
    BY <1>1, <2>1
  <2> QED
    BY <2>1, <2>2, Zenon DEF Chain
<1>4. ASSUME NEW i \in 1 .. Len(e) - 1 PROVE e[i + 1] = After(c, e[i]) /\ e[i] # "restore"
  <2>1. \/ i \in 1 .. Len(s) - 1 /\ i \in 1 .. Len(s) /\ i + 1 \in 1 .. Len(s)
        \/ i = Len(s) /\ i \in 1 .. Len(s) /\ 1 \in 1 .. Len(t)
        \/ \E j \in 1 .. Len(t) - 1 :
             /\ i = Len(s) + j /\ i + 1 = Len(s) + (j + 1)
             /\ j \in 1 .. Len(t) /\ j + 1 \in 1 .. Len(t)
    <3>1. i \in Int /\ i <= Len(s) + Len(t) - 1 /\ i >= 1
      BY <1>1, <1>2
    <3>2. CASE i <= Len(s)
      BY <1>2, <3>1, <3>2
    <3>3. CASE i > Len(s)
      <4>1. i - Len(s) \in 1 .. Len(t) - 1 /\ i = Len(s) + (i - Len(s))
            /\ i + 1 = Len(s) + ((i - Len(s)) + 1)
            /\ (i - Len(s)) \in 1 .. Len(t) /\ (i - Len(s)) + 1 \in 1 .. Len(t)
        BY <1>2, <3>1, <3>3
      <4> QED
        BY <4>1
    <3> QED
      BY <1>2, <3>1, <3>2, <3>3
  <2>2. CASE i \in 1 .. Len(s) - 1 /\ i \in 1 .. Len(s) /\ i + 1 \in 1 .. Len(s)
    <3>1. e[i + 1] = s[i + 1] /\ e[i] = s[i]
      BY <1>1, <2>2
    <3> QED
      BY <2>2, <3>1, Zenon DEF Chain
  <2>3. CASE i = Len(s) /\ i \in 1 .. Len(s) /\ 1 \in 1 .. Len(t)
    <3>1. e[i + 1] = t[1] /\ e[i] = s[Len(s)]
      BY <1>1, <2>3
    <3> QED
      BY <3>1, Zenon DEF Chain
  <2>4. ASSUME NEW j \in 1 .. Len(t) - 1, i = Len(s) + j, i + 1 = Len(s) + (j + 1),
               j \in 1 .. Len(t), j + 1 \in 1 .. Len(t)
        PROVE  e[i + 1] = After(c, e[i]) /\ e[i] # "restore"
    <3>1. e[i + 1] = t[j + 1] /\ e[i] = t[j]
      BY <1>1, <2>4
    <3> QED
      BY <2>4, <3>1, Zenon DEF Chain
  <2> QED
    BY <2>1, <2>2, <2>3, <2>4
<1> QED
  BY <1>1, <1>3, <1>4 DEF Chain, e

(* The programs of ProfileTool follow those steps.                         *)
LEMMA ProfileChains ==
  /\ Chain("inline", ProfileProgram["inline"], StepsOf("inline"), "fetch catalog", "restore")
  /\ Chain("pick", ProfileProgram["pick"], StepsOf("pick"), "look at profile", "restore")
  /\ Chain("rewrite", ProfileProgram["rewrite"], StepsOf("rewrite"), "look at opencode",
           "restore")
  /\ Chain("allow", ProfileProgram["allow"], StepsOf("allow"), "read permission", "restore")
<1> DEFINE a == <<"fetch catalog", "read profiles">>
           b == <<"look at profile", "read profiles", "fetch catalog">>
           d == <<"look at opencode", "read profiles", "back up opencode">>
           e == <<"read permission", "back up opencode", "empty opencode",
                  "fill opencode", "restore">>
<1>1. /\ ProfileProgram["inline"] = (a \o SaveProfile) \o ApplyProfile
      /\ ProfileProgram["pick"] = (b \o SaveProfile) \o ApplyProfile
      /\ ProfileProgram["rewrite"] = d \o ApplyProfile
      /\ ProfileProgram["allow"] = e
  BY DEF ProfileProgram
<1>0. /\ \A i : i \in 1 .. 2 - 1 => i = 1 /\ i + 1 = 2
      /\ \A i : i \in 1 .. 3 - 1 => (i = 1 /\ i + 1 = 2) \/ (i = 2 /\ i + 1 = 3)
      /\ 1 .. 5 - 1 = {1, 2, 3, 4} /\ 1 + 1 = 2 /\ 2 + 1 = 3 /\ 3 + 1 = 4 /\ 4 + 1 = 5
  OBVIOUS
<1>2. Chain("inline", a, {"fetch catalog", "read profiles"}, "fetch catalog", "read profiles")
  <2>1. a \in Seq({"fetch catalog", "read profiles"}) /\ Len(a) = 2 /\ Len(a) > 0
        /\ a[1] = "fetch catalog" /\ a[2] = "read profiles"
    OBVIOUS
  <2>2. \A i \in 1 .. Len(a) - 1 : i = 1 /\ i + 1 = 2
    BY <1>0, <2>1, Zenon
  <2> HIDE DEF a
  <2>3. a[2] = After("inline", a[1]) /\ a[1] # "restore"
    BY <2>1 DEF After
  <2> QED
    BY <2>1, <2>2, <2>3, Zenon DEF Chain
<1>3. Chain("pick", b, {"look at profile", "read profiles", "fetch catalog"},
            "look at profile", "fetch catalog")
  <2>1. b \in Seq({"look at profile", "read profiles", "fetch catalog"}) /\ Len(b) = 3
        /\ Len(b) > 0
        /\ b[1] = "look at profile" /\ b[2] = "read profiles" /\ b[3] = "fetch catalog"
    OBVIOUS
  <2>2. \A i \in 1 .. Len(b) - 1 : (i = 1 /\ i + 1 = 2) \/ (i = 2 /\ i + 1 = 3)
    BY <1>0, <2>1, Zenon
  <2> HIDE DEF b
  <2>3. /\ b[2] = After("pick", b[1]) /\ b[1] # "restore"
        /\ b[3] = After("pick", b[2]) /\ b[2] # "restore"
    BY <2>1 DEF After
  <2> QED
    BY <2>1, <2>2, <2>3, Zenon DEF Chain
<1>4. Chain("rewrite", d, {"look at opencode", "read profiles", "back up opencode"},
            "look at opencode", "back up opencode")
  <2>1. d \in Seq({"look at opencode", "read profiles", "back up opencode"}) /\ Len(d) = 3
        /\ Len(d) > 0
        /\ d[1] = "look at opencode" /\ d[2] = "read profiles" /\ d[3] = "back up opencode"
    OBVIOUS
  <2>2. \A i \in 1 .. Len(d) - 1 : (i = 1 /\ i + 1 = 2) \/ (i = 2 /\ i + 1 = 3)
    BY <1>0, <2>1, Zenon
  <2> HIDE DEF d
  <2>3. /\ d[2] = After("rewrite", d[1]) /\ d[1] # "restore"
        /\ d[3] = After("rewrite", d[2]) /\ d[2] # "restore"
    BY <2>1 DEF After
  <2> QED
    BY <2>1, <2>2, <2>3, Zenon DEF Chain
<1>5. Chain("allow", e, StepsOf("allow"), "read permission", "restore")
  <2>1. e \in Seq({"read permission", "back up opencode", "empty opencode",
                    "fill opencode", "restore"}) /\ Len(e) = 5 /\ Len(e) > 0
        /\ e[1] = "read permission" /\ e[2] = "back up opencode" /\ e[3] = "empty opencode"
        /\ e[4] = "fill opencode" /\ e[5] = "restore"
    OBVIOUS
  <2>2. 1 .. Len(e) - 1 = {1, 2, 3, 4}
    BY <1>0, <2>1, Zenon
  <2> HIDE DEF e
  <2>3. /\ e[2] = After("allow", e[1]) /\ e[1] # "restore"
        /\ e[3] = After("allow", e[2]) /\ e[2] # "restore"
        /\ e[4] = After("allow", e[3]) /\ e[3] # "restore"
        /\ e[5] = After("allow", e[4]) /\ e[4] # "restore"
    BY <2>1 DEF After
  <2>4. StepsOf("allow") = {"read permission", "back up opencode", "empty opencode",
                    "fill opencode", "restore"}
    BY DEF StepsOf, Applying
  <2> QED
    BY <1>0, <2>1, <2>2, <2>3, <2>4, Zenon DEF Chain
<1>6. ASSUME NEW c PROVE Chain(c, SaveProfile, Saving, "back up oc", "fill oc")
  <2> DEFINE s == SaveProfile
  <2>1. s \in Seq(Saving) /\ Len(s) = 3 /\ Len(s) > 0
        /\ s[1] = "back up oc" /\ s[2] = "empty oc" /\ s[3] = "fill oc"
    BY DEF SaveProfile, Saving
  <2>2. \A i \in 1 .. Len(s) - 1 : (i = 1 /\ i + 1 = 2) \/ (i = 2 /\ i + 1 = 3)
    BY <1>0, <2>1, Zenon
  <2> HIDE DEF s
  <2>3. /\ s[2] = After(c, s[1]) /\ s[1] # "restore"
        /\ s[3] = After(c, s[2]) /\ s[2] # "restore"
    BY <2>1 DEF After
  <2>4. Chain(c, s, Saving, "back up oc", "fill oc")
    BY <2>1, <2>2, <2>3, Zenon DEF Chain
  <2> QED
    BY <2>4 DEF s
<1>7. ASSUME NEW c PROVE Chain(c, ApplyProfile, Applying, "read profile", "restore")
  <2> DEFINE s == ApplyProfile
  <2>1. s \in Seq(Applying) /\ Len(s) = 5 /\ Len(s) > 0
        /\ s[1] = "read profile" /\ s[2] = "read opencode" /\ s[3] = "empty opencode"
        /\ s[4] = "fill opencode" /\ s[5] = "restore"
    BY DEF ApplyProfile, Applying
  <2>2. 1 .. Len(s) - 1 = {1, 2, 3, 4}
    BY <1>0, <2>1, Zenon
  <2> HIDE DEF s
  <2>3. /\ s[2] = After(c, s[1]) /\ s[1] # "restore"
        /\ s[3] = After(c, s[2]) /\ s[2] # "restore"
        /\ s[4] = After(c, s[3]) /\ s[3] # "restore"
        /\ s[5] = After(c, s[4]) /\ s[4] # "restore"
    BY <2>1 DEF After
  <2>4. Chain(c, s, Applying, "read profile", "restore")
    BY <1>0, <2>1, <2>2, <2>3, Zenon DEF Chain
  <2> QED
    BY <2>4 DEF s
<1> HIDE DEF a, b, d, e
<1>8. /\ After("inline", "read profiles") = "back up oc"
      /\ After("pick", "fetch catalog") = "back up oc"
      /\ After("rewrite", "back up opencode") = "read profile"
      /\ \A c : After(c, "fill oc") = "read profile"
  BY DEF After
<1>9. /\ StepsOf("inline") = ({"fetch catalog", "read profiles"} \cup Saving) \cup Applying
      /\ StepsOf("pick") = ({"look at profile", "read profiles", "fetch catalog"} \cup Saving)
                             \cup Applying
      /\ StepsOf("rewrite") = {"look at opencode", "read profiles", "back up opencode"}
                                \cup Applying
  BY DEF StepsOf
<1>10. Chain("inline", a \o SaveProfile, {"fetch catalog", "read profiles"} \cup Saving,
             "fetch catalog", "fill oc")
  BY <1>2, <1>6, <1>8, ChainJoin
<1>11. Chain("pick", b \o SaveProfile,
             {"look at profile", "read profiles", "fetch catalog"} \cup Saving,
             "look at profile", "fill oc")
  BY <1>3, <1>6, <1>8, ChainJoin
<1>12. Chain("inline", (a \o SaveProfile) \o ApplyProfile,
             ({"fetch catalog", "read profiles"} \cup Saving) \cup Applying,
             "fetch catalog", "restore")
  BY <1>7, <1>8, <1>10, ChainJoin
<1>13. Chain("pick", (b \o SaveProfile) \o ApplyProfile,
             ({"look at profile", "read profiles", "fetch catalog"} \cup Saving)
               \cup Applying, "look at profile", "restore")
  BY <1>7, <1>8, <1>11, ChainJoin
<1>14. Chain("rewrite", d \o ApplyProfile,
             {"look at opencode", "read profiles", "back up opencode"} \cup Applying,
             "look at opencode", "restore")
  BY <1>4, <1>7, <1>8, ChainJoin
<1> QED
  BY <1>1, <1>5, <1>9, <1>12, <1>13, <1>14, Zenon

Profiling(p) == Running(p) /\ Cmd(p).name \in ProfileCommands

(* The first step of each command.                                         *)
FirstOf(c) ==
  CASE c = "inline" -> "fetch catalog" [] c = "pick" -> "look at profile"
    [] c = "rewrite" -> "look at opencode" [] c = "allow" -> "read permission"

(* Each program is a chain from its first step to the restoring.           *)
LEMMA ProfileChain ==
  ASSUME NEW c \in ProfileCommands
  PROVE  /\ c \in {"inline", "pick", "rewrite", "allow"}
         /\ Chain(c, Program[c], StepsOf(c), FirstOf(c), "restore")
<1>1. c \in {"inline", "pick", "rewrite", "allow"}
  BY CommandsAre
<1>2. Program[c] = ProfileProgram[c]
  BY <1>1, CommandsAre DEF Program, Commands
<1>3. /\ FirstOf("inline") = "fetch catalog" /\ FirstOf("pick") = "look at profile"
      /\ FirstOf("rewrite") = "look at opencode" /\ FirstOf("allow") = "read permission"
  BY DEF FirstOf
<1> QED
  BY <1>1, <1>2, <1>3, ProfileChains, Zenon

(* Where a call on the profiles is, and where it goes.                     *)
LEMMA WhereProfile ==
  ASSUME Formed, NEW p \in Procs, Profiling(p), run'[p].cmd = run[p].cmd, killed' = killed
  PROVE  LET c == Cmd(p).name IN
         /\ c \in {"inline", "pick", "rewrite", "allow"} /\ c \in ProfileCommands
         /\ Now(p) \in StepsOf(c) /\ Cmd(p)' = Cmd(p)
         /\ run'[p].at = run[p].at + 1 /\ Now(p) # "restore"
              => Profiling(p)' /\ Now(p)' = After(c, Now(p))
         /\ run'[p].at = StepNo(p, "restore") => Profiling(p)' /\ Now(p)' = "restore"
         /\ run'[p].at = Len(Steps(p)) + 1 => ~Profiling(p)'
<1> DEFINE c == Cmd(p).name  s == Steps(p)  i == run[p].at
<1>1. c \in ProfileCommands /\ i \in 1 .. Len(s) /\ Len(s) \in Nat /\ s = Program[c]
  BY StepLeads DEF Profiling, Steps, Cmd
<1>2. c \in {"inline", "pick", "rewrite", "allow"}
      /\ Chain(c, s, StepsOf(c), FirstOf(c), "restore")
  BY <1>1, ProfileChain, Zenon
<1>3. Cmd(p)' = Cmd(p) /\ Steps(p)' = s /\ Now(p) = s[i] /\ Now(p)' = s[run'[p].at]
  BY DEF Cmd, Steps, Now
<1>4. /\ p \notin killed' /\ Cmd(p)'.name \in ProfileCommands
      /\ Profiling(p)' <=> run'[p].at > 0 /\ run'[p].at <= Len(s)
  BY <1>1, <1>3 DEF Profiling, Running, Started
<1> HIDE DEF s
<1>5. /\ s \in Seq(StepsOf(c)) /\ s[Len(s)] = "restore" /\ DOMAIN s = 1 .. Len(s)
      /\ \A j \in 1 .. Len(s) - 1 : s[j + 1] = After(c, s[j])
  BY <1>2 DEF Chain
<1>6. s[i] \in StepsOf(c)
  BY <1>1, <1>5
<1>7. ASSUME run'[p].at = i + 1, Now(p) # "restore"
      PROVE  Profiling(p)' /\ Now(p)' = After(c, Now(p))
  <2>1. i # Len(s)
    BY <1>3, <1>5, <1>7
  <2>2. i \in 1 .. Len(s) - 1 /\ i + 1 > 0 /\ i + 1 <= Len(s)
    BY <1>1, <2>1
  <2> QED
    BY <1>3, <1>4, <1>5, <1>7, <2>2, Zenon
<1>8. ASSUME run'[p].at = StepNo(p, "restore") PROVE Profiling(p)' /\ Now(p)' = "restore"
  <2>1. Len(s) \in DOMAIN s
    BY <1>1, <1>5
  <2>2. StepNo(p, "restore") \in DOMAIN s /\ s[StepNo(p, "restore")] = "restore"
    BY <1>5, <2>1, Zenon DEF StepNo, s
  <2>3. run'[p].at > 0 /\ run'[p].at <= Len(s)
    BY <1>1, <1>5, <1>8, <2>2
  <2> QED
    BY <1>3, <1>4, <1>8, <2>2, <2>3, Zenon
<1>9. ASSUME run'[p].at = Len(s) + 1 PROVE ~Profiling(p)'
  <2>1. ~(Len(s) + 1 <= Len(s))
    BY <1>1
  <2> QED
    BY <1>4, <1>9, <2>1, Zenon
<1> QED
  BY <1>1, <1>2, <1>3, <1>6, <1>7, <1>8, <1>9 DEF s

(* They lock nothing.                                                      *)
LEMMA NoProfileLocks ==
  ASSUME Formed, NEW p \in Procs, Running(p), Cmd(p).name \in ProfileCommands
  PROVE  Now(p) \notin LockSteps
<1>1. LET c == Cmd(p).name IN
      /\ Chain(c, Steps(p), StepsOf(c), FirstOf(c), "restore")
      /\ c \in {"inline", "pick", "rewrite", "allow"}
  BY ProfileChain, Zenon DEF Steps, Cmd
<1>2. run[p].at \in 1 .. Len(Steps(p))
  BY StepLeads
<1>3. Now(p) \in StepsOf(Cmd(p).name)
  BY <1>1, <1>2 DEF Chain, Now
<1> QED
  BY <1>1, <1>3 DEF StepsOf, Saving, Applying, LockSteps

\* A step may fail, and notes nothing of who runs together.
NotesKept == together' = together /\ (faults' = faults \/ Fault)

(* Steps of all kinds leave it at that.                                    *)
LEMMA OthersTogether ==
  ASSUME NEW p \in Procs
  PROVE  /\ LockStep(p) => NotesKept
         /\ PhaseStep(p) => NotesKept
         /\ SpaceStep(p) => NotesKept
         /\ ProfileStep(p) => NotesKept
         /\ KnowledgeStep(p) => NotesKept
<1> USE DEF history, NotesKept
<1>1. LockStep(p) => NotesKept
  BY DEF LockStep, CreateLock, CreateFails, FindLocked, UnlinkStale, GiveUp, ReleaseLock
<1>5. KnowledgeStep(p) => NotesKept
  BY DEF KnowledgeStep, ListLibrary, ReadLearning, CreateLearning, FillLearning,
         LearningFails, LookAtOld, FindLearning, UnlinkLearning
<1>4. ProfileStep(p) => NotesKept
  BY DEF ProfileStep, LookAtProfile, ReadProfiles, FetchCatalog, ReadProfile, ReadOpencode,
         ReadPermission, LookAtOpencode, Restore, CreateBackup, Empty, Fill, WriteFails,
         Quietly
<1>2. PhaseStep(p) => NotesKept
  <2>1. (FindPhaseDir(p) \/ DeleteDirectory(p) \/ ListDirectories(p) \/ RenameDirectory(p)
          \/ RenameFails(p) \/ MakeDirectory(p) \/ MakeDirectoryFails(p)
          \/ ClearDirectories(p) \/ ArchiveDirectories(p))
          => NotesKept
    BY DEF FindPhaseDir, DeleteDirectory, ListDirectories, RenameDirectory, RenameFails,
           MakeDirectory, MakeDirectoryFails, ClearDirectories, ArchiveDirectories, calm
  <2>2. (WriteSummary(p) \/ Manage(p) \/ ReadRoadmap(p) \/ WriteRoadmap(p)
          \/ WriteRoadmapFails(p) \/ ReadRequirements(p) \/ WriteRequirements(p)
          \/ WriteRequirementsFails(p) \/ Scan(p))
          => NotesKept
    BY DEF WriteSummary, Manage, ReadRoadmap, WriteRoadmap, WriteRoadmapFails,
           ReadRequirements, WriteRequirements, WriteRequirementsFails, Scan
  <2>3. (FindNext(p) \/ ReadState(p) \/ ReadCutoff(p) \/ DeriveState(p) \/ WriteState(p)
          \/ WriteStateFails(p) \/ ReadArchive(p) \/ WriteArchive(p)
          \/ WriteArchiveFails(p))
          => NotesKept
    BY DEF FindNext, ReadState, ReadCutoff, DeriveState, WriteState, WriteStateFails,
           ReadArchive, WriteArchive, WriteArchiveFails
  <2> QED
    BY <2>1, <2>2, <2>3 DEF PhaseStep
<1>3. SpaceStep(p) => NotesKept
  <2> USE DEF Idle, OnlyTree
  <2>1. (Route(p) \/ Heal(p) \/ Point(p) \/ Unpoint(p) \/ LookForStream(p)
          \/ LookForMode(p) \/ LookForWork(p) \/ LookForTarget(p) \/ MakeTarget(p)
          \/ PickArchive(p) \/ MakeArchive(p))
          => NotesKept
    BY DEF Route, Heal, Point, Unpoint, LookForStream, LookForMode, LookForWork,
           LookForTarget, MakeTarget, PickArchive, MakeArchive
  <2>2. (ListEntries(p) \/ Look(p) \/ Moved(p) \/ MoveFails(p) \/ AllMoved(p) \/ Undo(p)
          \/ AllUndone(p) \/ Discard(p) \/ RemoveStream(p) \/ DropWorkstreams(p)
          \/ MakeStream(p) \/ LookForState(p) \/ WriteNewState(p))
          => NotesKept
    BY DEF ListEntries, Look, Moved, MoveFails, AllMoved, Undo, AllUndone, Discard,
           RemoveStream, DropWorkstreams, MakeStream, LookForState, WriteNewState
  <2>3. (MakeScope(p) \/ LookForConfig(p) \/ WriteDefaults(p) \/ ReadConfig(p)
          \/ WriteConfig(p) \/ ConfigFails(p) \/ LoadConfig(p) \/ TruncateConfig(p)
          \/ FillConfig(p) \/ RewriteFails(p) \/ Inspect(p) \/ Repair(p)
          \/ BackUpState(p) \/ RegenerateState(p) \/ StateFails(p) \/ LockInVain(p))
          => NotesKept
    BY DEF MakeScope, LookForConfig, WriteDefaults, ReadConfig, WriteConfig, ConfigFails,
           LoadConfig, TruncateConfig, FillConfig, RewriteFails, Inspect, Repair,
           BackUpState, RegenerateState, StateFails, LockInVain
  <2> QED
    BY <2>1, <2>2, <2>3 DEF SpaceStep
<1> QED
  BY <1>1, <1>2, <1>3, <1>4, <1>5

\* Nothing moves; a call begins; one goes on, and only on what is its own.
Resting ==
  /\ run' = run /\ killed \subseteq killed' /\ together' = together /\ faults' = faults
  /\ UNCHANGED <<layoutVars, profileVars, knowledgeVars>>
Opens(p) ==
  /\ run[p].at = 0 /\ Call(p)
  /\ UNCHANGED <<layoutVars, profileVars, knowledgeVars>>
Acts(p) ==
  /\ Running(p) /\ OneMoves(p) /\ NotesKept
  /\ \/ UNCHANGED layoutVars
     \/ Cmd(p).name \in SpaceCommands /\ SpaceStep(p)
  /\ IF Cmd(p).name \in ProfileCommands THEN ProfileStep(p) ELSE UNCHANGED profileVars
  /\ IF Cmd(p).name \in KnowledgeCommands THEN KnowledgeStep(p) ELSE UNCHANGED knowledgeVars

(* Every step is one of these.                                             *)
LEMMA StepsOfCalls ==
  ASSUME LockInv, [Next]_vars
  PROVE  Resting \/ \E p \in Procs : Opens(p) \/ Acts(p)
<1>0. Formed /\ LooksFirst
  BY DEF LockInv
<1>1. CASE UNCHANGED vars
  BY <1>1 DEF vars, history, Resting
<1>2. ASSUME NEW p \in Procs, Step(p)
      PROVE  Acts(p)
  <2>1. Running(p)
    BY <1>2 DEF Step
  <2>2. CASE LockStep(p) /\ UNCHANGED <<phaseVars, layoutVars, profileVars, knowledgeVars>>
    <3>1. AtALock(p)
      BY <2>1, <2>2, LockStepMoves
    <3>2. Cmd(p).name \notin KnowledgeCommands
      BY <1>0, <2>1, <3>1, WhereKnowledge DEF AtALock
    <3>3. Cmd(p).name \notin ProfileCommands
      BY <1>0, <2>1, <3>1, NoProfileLocks DEF AtALock
    <3> QED
      BY <2>1, <2>2, <3>1, <3>2, <3>3, OthersTogether DEF AtALock, Acts
  <2>3. CASE Is(p, PhaseCommands) /\ PhaseStep(p)
             /\ UNCHANGED <<layoutVars, profileVars, knowledgeVars>>
    <3>1. Cmd(p).name \notin KnowledgeCommands \cup ProfileCommands
      BY <2>3, CommandsAre DEF Is
    <3> QED
      BY <1>0, <2>1, <2>3, <3>1, PhaseStepIsLocal, PhaseStepLoses, LocalIsOne,
         OthersTogether DEF Acts
  <2>4. CASE Is(p, SpaceCommands) /\ SpaceStep(p) /\ UNCHANGED <<profileVars, knowledgeVars>>
    <3>1. Cmd(p).name \notin KnowledgeCommands \cup ProfileCommands
      BY <2>4, CommandsAre DEF Is
    <3> QED
      BY <1>0, <2>1, <2>4, <3>1, SpaceStepIsLocal, SpaceStepLoses, LocalIsOne,
         OthersTogether DEF Acts, Is
  <2>5. CASE Is(p, ProfileCommands) /\ ProfileStep(p) /\ UNCHANGED <<layoutVars, knowledgeVars>>
    <3>1. Cmd(p).name \notin KnowledgeCommands
      BY <2>5, CommandsAre DEF Is
    <3> QED
      BY <1>0, <2>1, <2>5, <3>1, ProfileStepIsLocal, OtherStepLoses, LocalIsOne,
         OthersTogether DEF Acts, Is
  <2>6. CASE Is(p, KnowledgeCommands) /\ KnowledgeStep(p) /\ UNCHANGED <<layoutVars, profileVars>>
    <3>1. Cmd(p).name \notin ProfileCommands
      BY <2>6, CommandsAre DEF Is
    <3> QED
      BY <1>0, <2>1, <2>6, <3>1, KnowledgeStepIsLocal, OtherStepLoses, LocalIsOne,
         OthersTogether DEF Acts, Is
  <2> QED
    BY <1>2, <2>2, <2>3, <2>4, <2>5, <2>6 DEF Step
<1>3. ASSUME NEW p \in Procs, Call(p), UNCHANGED <<layoutVars, profileVars, knowledgeVars>>
      PROVE  Opens(p)
  <2>1. CallFormed(p)
    BY <1>0 DEF Formed
  <2> QED
    BY <1>3, <2>1 DEF Call, CallFormed, Started, Opens
<1>4. ASSUME NEW p \in Procs, Kill(p), UNCHANGED <<layoutVars, profileVars, knowledgeVars>>
      PROVE  Resting
  BY <1>4 DEF Kill, Resting
<1>5. ASSUME NEW l \in Locks, Age(l), UNCHANGED <<layoutVars, profileVars, knowledgeVars>>
      PROVE  Resting
  BY <1>5 DEF Age, Resting, history
<1> QED
  BY <1>1, <1>2, <1>3, <1>4, <1>5 DEF Next

(* Nobody but a caller begins to run, and what ran together did.           *)
LEMMA RunsOn ==
  ASSUME LockInv, [Next]_vars
  PROVE  /\ together \subseteq together'
         /\ \A q \in Procs : Cmd(q)' = Cmd(q) /\ (Started(q) => Started(q)')
         /\ \A q \in Procs : Running(q)' /\ ~Running(q) => Opens(q)
<1>1. Formed
  BY DEF LockInv
<1>2. CASE Resting
  BY <1>2 DEF Resting, Running, Started, Steps, Cmd
<1>3. ASSUME NEW p \in Procs, Opens(p)
      PROVE  /\ together \subseteq together' /\ OneMoves(p) /\ run'[p].at = 1
             /\ run'[p] = [run[p] EXCEPT !.at = @ + 1]
  <2>1. DOMAIN run = Procs /\ DOMAIN run[p] = Fields
    BY <1>1 DEF Formed, CallFormed
  <2>2. /\ run' = [run EXCEPT ![p].at = @ + 1] /\ killed' = killed /\ usurped' = usurped
        /\ together \subseteq together' /\ lost' = lost
    BY <1>3 DEF Opens, Call, Go
  <2>3. run'[p] = [run[p] EXCEPT !.at = @ + 1] /\ \A q \in Procs \ {p} : run'[q] = run[q]
    BY <2>1, <2>2
  <2>4. run'[p].at = 1 /\ run'[p].cmd = run[p].cmd
    BY <1>3, <2>1, <2>3, FieldsAre DEF Opens
  <2> QED
    BY <2>2, <2>3, <2>4 DEF OneMoves
<1>4. ASSUME NEW p \in Procs, OneMoves(p), together \subseteq together',
             Running(p) \/ Opens(p)
      PROVE  /\ together \subseteq together'
             /\ \A q \in Procs : Cmd(q)' = Cmd(q) /\ (Started(q) => Started(q)')
             /\ \A q \in Procs : Running(q)' /\ ~Running(q) => Opens(q)
  <2>1. \A q \in Procs : Cmd(q)' = Cmd(q)
    BY <1>4 DEF OneMoves, Cmd
  <2>2. Started(p)'
    BY <1>4 DEF OneMoves, Started
  <2>3. \A q \in Procs \ {p} : Started(q)' = Started(q) /\ Running(q)' = Running(q)
    BY <1>4 DEF OneMoves, Started, Running, Steps, Cmd
  <2> QED
    BY <1>4, <2>1, <2>2, <2>3
<1> QED
  BY <1>2, <1>3, <1>4, StepsOfCalls DEF Acts, NotesKept

(* What ran together is noticed, and stays noticed.                        *)
LEMMA TogetherStep ==
  ASSUME LockInv, TogetherFits, [Next]_vars
  PROVE  TogetherFits' /\ \A A, B : Apart(A, B)' => Apart(A, B)
<1>0. /\ together \subseteq together'
      /\ \A q \in Procs : Cmd(q)' = Cmd(q) /\ (Started(q) => Started(q)')
      /\ \A q \in Procs : Running(q)' /\ ~Running(q) => Opens(q)
  BY RunsOn
<1>1. ASSUME NEW A, NEW B, Apart(A, B)' PROVE Apart(A, B)
  BY <1>0, <1>1 DEF Apart, Is
<1>2. ASSUME NEW p \in Procs, NEW q \in Procs, p # q, Running(p)', Running(q)',
             Related(Cmd(p).name, Cmd(q).name)
      PROVE  {p, q} \in together'
  <2>1. CASE Running(p) /\ Running(q)
    BY <1>0, <1>2, <2>1 DEF TogetherFits
  <2>2. ASSUME NEW x \in Procs, NEW y \in Procs, Opens(x), x # y, {x, y} = {p, q}
        PROVE  {x, y} \in together'
    <3>1. Running(y)' /\ run'[y] = run[y]
      BY <1>2, <2>2 DEF Opens, Call, Go, LockInv, Formed
    <3>2. Running(y)
      BY <1>0, <3>1 DEF Opens, Running, Started
    <3>3. Related(Cmd(x).name, Cmd(y).name)
      BY <1>2, <2>2 DEF Related
    <3>4. Call(x)
      BY <2>2 DEF Opens
    <3> QED
      BY <3>2, <3>3, <3>4 DEF Call
  <2>3. CASE Opens(p)
    BY <1>2, <2>2, <2>3
  <2>4. CASE Opens(q)
    <3>1. {q, p} = {p, q}
      OBVIOUS
    <3> QED
      BY <1>2, <2>2, <2>4, <3>1
  <2> QED
    BY <1>0, <1>2, <2>1, <2>3, <2>4
<1>3. TogetherFits'
  BY <1>0, <1>2 DEF TogetherFits
<1> QED
  BY <1>1, <1>3

-----------------------------------------------------------------------------
(***************************************************************************)
(* What the projects have learnt.                                          *)
(***************************************************************************)
Copies(p) == Cmd(p) # Nothing /\ Cmd(p).name = "copy"
Copying(p) == Running(p) /\ Copies(p)
CopiesApart == Apart({"copy"}, {"copy"})

\* A copy that goes on has sections left.
TodoFits(p) ==
  Copies(p) =>
    /\ run[p].todo \in Seq(ToSet(Cmd(p).lessons))
    /\ run[p].at = 0 => run[p].todo = <<>>
    /\ run[p].at \in {2, 3, 4} => run[p].todo # <<>>
    /\ Cmd(p).project # Nothing
    /\ Cmd(p).lessons \in Seq(ToSet(Cmd(p).lessons)) \ {<<>>}

\* The files a copy has still to write are not there yet.
NewFilesFit(p) ==
  Copies(p) /\ run[p].at < 5 =>
    \A n \in Nat : <<p, n>> \in DOMAIN library =>
      /\ run[p].todo # <<>>
      /\ \/ n > Len(run[p].todo)
         \/ n = Len(run[p].todo) /\ run[p].at = 4 /\ library[<<p, n>>].text = Malformed

\* What a copy has not found is in no file it has looked at.
SearchFits(p) ==
  Copying(p) /\ run[p].at \in {2, 3, 4} =>
    \A f \in DOMAIN library :
      library[f].text = Lesson(p) => run[p].at = 2 /\ f \in run[p].dirs

LearntOnce ==
  \A f, g \in DOMAIN library :
    library[f].text # Malformed /\ library[f].text = library[g].text => f = g

KnowledgeInv ==
  /\ TogetherFits
  /\ \A p \in Procs : TodoFits(p) /\ NewFilesFit(p)
  /\ taught \subseteq LearningsList(library)
  /\ CopiesApart => LearntOnce /\ \A p \in Procs : SearchFits(p)

\* A call is busy elsewhere, or with the learnings.
Away(p) == Acts(p) /\ Cmd(p).name \notin KnowledgeCommands
OnLearnings(p) == Acts(p) /\ Cmd(p).name \in KnowledgeCommands

(* What is left of the sections after one of them.                         *)
LEMMA LeftOver ==
  ASSUME NEW S, NEW s \in Seq(S), s # <<>>
  PROVE  /\ Len(s) \in Nat \ {0} /\ Tail(s) \in Seq(S) /\ Len(Tail(s)) = Len(s) - 1
         /\ Len(s) # 1 => Tail(s) # <<>>
<1>1. Len(s) \in Nat \ {0}
  OBVIOUS
<1>2. Tail(s) \in Seq(S) /\ Len(Tail(s)) = Len(s) - 1
  OBVIOUS
<1>3. Len(<<>>) = 0
  OBVIOUS
<1>4. Len(s) # 1 => Tail(s) # <<>>
  <2>1. \A n \in Nat \ {0} : n - 1 = 0 => n = 1
    OBVIOUS
  <2> QED
    BY <1>1, <1>2, <1>3, <2>1, Zenon
<1> QED
  BY <1>1, <1>2, <1>4

(* What can be learnt from the files.                                      *)
LEMMA Learnable ==
  ASSUME NEW all, NEW e
  PROVE  e \in LearningsList(all)
           <=> e # Malformed /\ \E f \in DOMAIN all : all[f].text = e
BY DEF LearningsList

(* A file that is unlinked.                                                *)
LEMMA FilesWithout ==
  ASSUME NEW f
  PROVE  /\ DOMAIN Without(f) = DOMAIN library \ {f}
         /\ \A g \in DOMAIN library \ {f} : Without(f)[g] = library[g]
BY DEF Without

\* What a copy does to its own place and sections.
NextPart(p) ==
  /\ run'[p].todo = Tail(run[p].todo)
  /\ run'[p].at = IF Len(run[p].todo) = 1 THEN 5 ELSE 1

Lists(p) ==
  /\ run[p].at = 1 /\ run'[p].at = 2 /\ run'[p].dirs = DOMAIN library
  /\ run'[p].todo = IF run[p].todo = <<>> THEN Cmd(p).lessons ELSE run[p].todo
  /\ UNCHANGED knowledgeVars
Passes(p) ==
  /\ run[p].at = 2 /\ run'[p].at = 2 /\ run'[p].todo = run[p].todo
  /\ \E f \in run[p].dirs :
       /\ run'[p].dirs = run[p].dirs \ {f}
       /\ f \in DOMAIN library => library[f].text \notin {Lesson(p)} \ {Malformed}
  /\ UNCHANGED knowledgeVars
Misses(p) ==
  /\ run[p].at = 2 /\ run'[p].at = 3 /\ run'[p].todo = run[p].todo /\ run[p].dirs = {}
  /\ UNCHANGED knowledgeVars
Finds(p) ==
  /\ run[p].at = 2 /\ NextPart(p) /\ library' = library
  /\ Lesson(p) \in LearningsList(library) /\ taught' = taught \cup {Lesson(p)}
Creates(p) ==
  /\ run[p].at = 3 /\ run'[p].at = 4 /\ run'[p].todo = run[p].todo
  /\ library' = Stored(NewFile(p), Malformed) /\ taught' = taught
Fills(p) ==
  /\ run[p].at = 4 /\ NextPart(p)
  /\ library' = Stored(NewFile(p), Lesson(p)) /\ taught' = taught \cup {Lesson(p)}
Fails(p) ==
  /\ run[p].at \in {3, 4} /\ run'[p].at = 5 /\ run'[p].todo = run[p].todo
  /\ UNCHANGED knowledgeVars
Copied(p) ==
  \/ Lists(p) \/ Passes(p) \/ Misses(p) \/ Finds(p)
  \/ Creates(p) \/ Fills(p) \/ Fails(p)

\* What the others do to the files.
Cleans ==
  \/ UNCHANGED knowledgeVars
  \/ \E f \in DOMAIN library :
       /\ library' = Without(f)
       /\ taught' = taught \ (IF library[f].text \in LearningsList(Without(f)) THEN {}
                              ELSE {library[f].text})

(* Each step on the learnings is one of these.                             *)
LEMMA LearningActs ==
  ASSUME Formed, NEW p \in Procs, OnLearnings(p)
  PROVE  IF Cmd(p).name = "copy" THEN Copied(p) ELSE Cleans
<1>0. /\ Running(p) /\ Cmd(p).name \in KnowledgeCommands /\ OneMoves(p)
      /\ Len(Steps(p)) \in Nat /\ Cmd(p) # Nothing
  BY StepLeads DEF OnLearnings, Acts, Formed, CallFormed, Running
<1>1. DOMAIN run = Procs /\ DOMAIN run[p] = Fields /\ run[p].at \in Nat
  BY DEF Formed, CallFormed
<1>2. CASE Cmd(p).name # "copy"
  <2>1. Now(p) \in {"look at old", "list old", "find learning", "unlink learning"}
    BY <1>0, <1>2, WhereKnowledge
  <2>2. ListLibrary(p) \/ LookAtOld(p) \/ FindLearning(p) \/ UnlinkLearning(p)
    <3>1. KnowledgeStep(p)
      BY DEF OnLearnings, Acts
    <3>2. Now(p) \notin {"read learning", "create learning", "fill learning"}
      BY <2>1
    <3> QED
      BY <3>1, <3>2, AtNow DEF KnowledgeStep, ReadLearning, CreateLearning, FillLearning,
         LearningFails
  <2>3. (ListLibrary(p) \/ LookAtOld(p) \/ FindLearning(p)) => UNCHANGED knowledgeVars
    BY DEF ListLibrary, LookAtOld, FindLearning
  <2>4. UnlinkLearning(p) => Cleans
    BY DEF UnlinkLearning, Cleans
  <2> QED
    BY <1>2, <2>2, <2>3, <2>4 DEF Cleans
<1>3. CASE Cmd(p).name = "copy"
  <2>0. Started(p) /\ Is(p, {"copy"})
    BY <1>0, <1>3 DEF Running, Is
  <2>1. /\ Now(p) \notin {"look at old", "list old", "find learning", "unlink learning"}
        /\ Now(p) = "scan library"    <=> run[p].at = 1
        /\ Now(p) = "read learning"   <=> run[p].at = 2
        /\ Now(p) = "create learning" <=> run[p].at = 3
        /\ Now(p) = "fill learning"   <=> run[p].at = 4
        /\ Len(Steps(p)) = 4 /\ StepNo(p, "scan library") = 1
    BY <1>0, <1>3, WhereKnowledge
  <2>9. 4 + 1 = 5
    OBVIOUS
  <2>2. ListLibrary(p) => Lists(p)
    <3> SUFFICES ASSUME ListLibrary(p) PROVE Lists(p)
      OBVIOUS
    <3>1. Now(p) = "scan library"
      BY <2>1, AtNow DEF ListLibrary
    <3>2. run' = [run EXCEPT ![p].at = @ + 1, ![p].dirs = DOMAIN library,
                             ![p].todo = IF @ = <<>> THEN Cmd(p).lessons ELSE @]
      BY <2>0 DEF ListLibrary
    <3>3. run[p].at = 1
      BY <2>1, <3>1, Zenon
    <3>4. /\ run'[p].at = run[p].at + 1 /\ run'[p].dirs = DOMAIN library
          /\ run'[p].todo = IF run[p].todo = <<>> THEN Cmd(p).lessons ELSE run[p].todo
      BY <1>1, <3>2, FieldsAre
    <3>5. run[p].at + 1 = 2
      BY <3>3
    <3> QED
      BY <3>3, <3>4, <3>5, Zenon DEF ListLibrary, Lists
  <2>3. NextSection(p) => NextPart(p)
    <3>1. Len(Steps(p)) + 1 = 5 /\ StepNo(p, "scan library") = 1
      BY <2>1, <2>9, Zenon
    <3>2. NextSection(p) =>
            /\ run'[p].todo = Tail(run[p].todo)
            /\ run'[p].at = IF Len(run[p].todo) = 1 THEN Len(Steps(p)) + 1
                            ELSE StepNo(p, "scan library")
      BY <1>1, FieldsAre DEF NextSection
    <3> QED
      BY <3>1, <3>2 DEF NextPart
  <2>4. ReadLearning(p) => Passes(p) \/ Misses(p) \/ Finds(p)
    <3> SUFFICES ASSUME ReadLearning(p) PROVE Passes(p) \/ Misses(p) \/ Finds(p)
      OBVIOUS
    <3>1. run[p].at = 2 /\ library' = library
      BY <2>1, AtNow DEF ReadLearning
    <3>2. CASE run[p].dirs = {} /\ Go(p) /\ UNCHANGED taught
      BY <1>1, <3>1, <3>2, FieldsAre DEF Go, Misses, knowledgeVars
    <3>3. ASSUME NEW f \in run[p].dirs, f \in DOMAIN library, library[f].text # Malformed,
                 library[f].text = Lesson(p), NextSection(p), taught' = taught \cup {Lesson(p)}
          PROVE  Finds(p)
      BY <2>3, <3>1, <3>3, Learnable DEF Finds
    <3>4. ASSUME NEW f \in run[p].dirs, run' = [run EXCEPT ![p].dirs = @ \ {f}],
                 UNCHANGED taught,
                 ~(f \in DOMAIN library /\ library[f].text # Malformed
                     /\ library[f].text = Lesson(p))
          PROVE  Passes(p)
      BY <1>1, <3>1, <3>4, FieldsAre DEF Passes, knowledgeVars
    <3> QED
      BY <3>2, <3>3, <3>4 DEF ReadLearning, ContentHash
  <2>5. CreateLearning(p) => Creates(p)
    <3>1. CreateLearning(p) => run[p].at = 3
      BY <2>1, AtNow, Zenon DEF CreateLearning
    <3>2. CreateLearning(p) => run'[p].at = run[p].at + 1 /\ run'[p].todo = run[p].todo
      BY <1>1, FieldsAre DEF CreateLearning, Go
    <3>3. run[p].at = 3 => run[p].at + 1 = 4
      OBVIOUS
    <3> QED
      BY <3>1, <3>2, <3>3, Zenon DEF CreateLearning, Creates
  <2>6. FillLearning(p) => Fills(p)
    BY <2>1, <2>3, AtNow DEF FillLearning, Fills
  <2>7. LearningFails(p) => Fails(p)
    <3>1. LearningFails(p) => run[p].at \in {3, 4}
      BY <2>1, AtNow DEF LearningFails
    <3>2. Len(Steps(p)) + 1 = 5
      BY <2>1, <2>9, Zenon
    <3>3. LearningFails(p) => run'[p].at = Len(Steps(p)) + 1 /\ run'[p].todo = run[p].todo
      BY <1>1, FieldsAre DEF LearningFails, Stop
    <3> QED
      BY <3>1, <3>2, <3>3 DEF LearningFails, Fails
  <2>8. ~(LookAtOld(p) \/ FindLearning(p) \/ UnlinkLearning(p))
    BY <2>1, AtNow DEF LookAtOld, FindLearning, UnlinkLearning
  <2> QED
    BY <1>3, <2>2, <2>4, <2>5, <2>6, <2>7, <2>8 DEF Copied, OnLearnings, Acts, KnowledgeStep
<1> QED
  BY <1>2, <1>3

(* A copy keeps what it promises of its own sections, files and search.    *)
LEMMA CopyKeeps ==
  ASSUME NEW p \in Procs, Copying(p), Copied(p), Cmd(p)' = Cmd(p), TodoFits(p), NewFilesFit(p)
  PROVE  TodoFits(p)' /\ NewFilesFit(p)' /\ (SearchFits(p) => SearchFits(p)')
<1> DEFINE S == ToSet(Cmd(p).lessons)  s == run[p].todo
<1>1. /\ Copies(p) /\ Copies(p)' /\ s \in Seq(S) /\ Cmd(p).project # Nothing
      /\ Cmd(p).lessons \in Seq(S) /\ Cmd(p).lessons # <<>>
      /\ run[p].at \in {2, 3, 4} => s # <<>>
  BY DEF Copying, Copies, TodoFits
<1>2. s # <<>> => Len(s) \in Nat \ {0} /\ Tail(s) \in Seq(S) /\ Len(Tail(s)) = Len(s) - 1
                    /\ (Len(s) # 1 => Tail(s) # <<>>)
  BY <1>1, LeftOver
<1>3. Lesson(p) # Malformed
  BY <1>1 DEF Lesson, Malformed
<1>4. s' = s => Lesson(p)' = Lesson(p)
  BY DEF Lesson
<1>5. \A n \in Nat : <<p, n>> = NewFile(p) => n = Len(s)
  BY DEF NewFile
<1>6. run[p].at < 5 => \A n \in Nat : <<p, n>> \in DOMAIN library =>
        /\ s # <<>>
        /\ \/ n > Len(s)
           \/ n = Len(s) /\ run[p].at = 4 /\ library[<<p, n>>].text = Malformed
  BY <1>1 DEF NewFilesFit
<1> HIDE DEF S
<1>7. \A n, k \in Nat : (n > k \/ n = k) => n > k - 1
  OBVIOUS
<1>8. CASE Lists(p)
  <2>1. run[p].at = 1 /\ run'[p].at = 2 /\ run[p].at < 5 /\ library' = library
        /\ s' = (IF s = <<>> THEN Cmd(p).lessons ELSE s) /\ run'[p].dirs = DOMAIN library
    BY <1>8 DEF Lists, knowledgeVars
  <2>2. TodoFits(p)'
    BY <1>1, <2>1 DEF TodoFits, S
  <2>3. NewFilesFit(p)'
    BY <1>6, <2>1 DEF NewFilesFit
  <2> QED
    BY <2>1, <2>2, <2>3 DEF SearchFits
<1>9. CASE Passes(p) \/ Misses(p)
  <2>1. run[p].at = 2 /\ run'[p].at \in {2, 3} /\ s' = s /\ library' = library
        /\ run[p].at < 5
    BY <1>9 DEF Passes, Misses, knowledgeVars
  <2>2. TodoFits(p)'
    BY <1>1, <2>1 DEF TodoFits, S
  <2>3. NewFilesFit(p)'
    BY <1>6, <2>1 DEF NewFilesFit
  <2>4. ASSUME SearchFits(p), NEW f \in DOMAIN library, library[f].text = Lesson(p)
        PROVE  run'[p].at = 2 /\ f \in run'[p].dirs
    <3>1. f \in run[p].dirs
      BY <2>1, <2>4 DEF SearchFits, Copying
    <3> QED
      BY <1>3, <1>9, <2>4, <3>1 DEF Passes, Misses
  <2> QED
    BY <1>4, <2>1, <2>2, <2>3, <2>4 DEF SearchFits
<1>10. CASE Creates(p)
  <2>1. run[p].at = 3 /\ run'[p].at = 4 /\ s' = s /\ run[p].at < 5 /\ run[p].at # 4
        /\ run[p].at # 2
    BY <1>10 DEF Creates
  <2>2. TodoFits(p)'
    BY <1>1, <2>1 DEF TodoFits, S
  <2>3. /\ DOMAIN library' = DOMAIN library \cup {NewFile(p)}
        /\ library'[NewFile(p)].text = Malformed
        /\ \A g \in DOMAIN library \ {NewFile(p)} : library'[g] = library[g]
    <3>1. library' = Stored(NewFile(p), Malformed)
      BY <1>10 DEF Creates
    <3> QED
      BY <3>1 DEF Stored
  <2>4. ASSUME NEW n \in Nat, <<p, n>> \in DOMAIN library'
        PROVE  /\ s # <<>>
               /\ \/ n > Len(s)
                  \/ n = Len(s) /\ library'[<<p, n>>].text = Malformed
    BY <1>1, <1>5, <1>6, <2>1, <2>3, <2>4
  <2>5. NewFilesFit(p)'
    BY <2>1, <2>4 DEF NewFilesFit
  <2>6. SearchFits(p) => \A f \in DOMAIN library' : library'[f].text # Lesson(p)
    BY <1>3, <2>1, <2>3 DEF SearchFits, Copying
  <2> QED
    BY <1>4, <2>1, <2>2, <2>5, <2>6 DEF SearchFits
<1>11. CASE Finds(p) \/ Fills(p)
  <2>1. run[p].at \in {2, 4} /\ run[p].at < 5 /\ s' = Tail(s) /\ s # <<>>
        /\ run'[p].at = (IF Len(s) = 1 THEN 5 ELSE 1)
    BY <1>1, <1>11 DEF Finds, Fills, NextPart
  <2>2. run'[p].at \in {1, 5} /\ (run'[p].at < 5 => Len(s) # 1) /\ run'[p].at \notin {0, 2, 3, 4}
    BY <2>1
  <2>3. TodoFits(p)'
    BY <1>1, <1>2, <2>1, <2>2 DEF TodoFits, S
  <2>4. DOMAIN library' \subseteq DOMAIN library \cup {NewFile(p)}
    <3>1. library' = library \/ library' = Stored(NewFile(p), Lesson(p))
      BY <1>11 DEF Finds, Fills
    <3> QED
      BY <3>1 DEF Stored
  <2>5. \A n \in Nat : <<p, n>> \in DOMAIN library' => n > Len(s) \/ n = Len(s)
    BY <1>5, <1>6, <2>1, <2>4
  <2>6. \A n \in Nat : <<p, n>> \in DOMAIN library' => n > Len(Tail(s))
    BY <1>2, <1>7, <2>1, <2>5
  <2>7. NewFilesFit(p)'
    BY <1>2, <2>1, <2>2, <2>6 DEF NewFilesFit
  <2> QED
    BY <2>2, <2>3, <2>7 DEF SearchFits
<1>12. CASE Fails(p)
  <2>1. run'[p].at = 5 /\ s' = s /\ ~(5 < 5) /\ 5 \notin {0, 2, 3, 4}
    BY <1>12 DEF Fails
  <2> QED
    BY <1>1, <2>1 DEF TodoFits, NewFilesFit, SearchFits, S
<1> QED
  BY <1>8, <1>9, <1>10, <1>11, <1>12 DEF Copied

(* What has been taught stays in the files, and there once.                *)
LEMMA CopyTeaches ==
  ASSUME NEW p \in Procs, Copying(p), Copied(p), TodoFits(p), NewFilesFit(p),
         taught \subseteq LearningsList(library)
  PROVE  /\ taught' \subseteq LearningsList(library')
         /\ (LearntOnce /\ SearchFits(p)) => LearntOnce'
<1>1. /\ run[p].at \in {2, 3, 4} => run[p].todo \in Seq(ToSet(Cmd(p).lessons))
                                      /\ run[p].todo # <<>>
      /\ Cmd(p).project # Nothing
  BY DEF Copying, Copies, TodoFits
<1>2. Lesson(p) # Malformed
  BY <1>1 DEF Lesson, Malformed
<1>3. CASE library' = library
  <2>1. \/ taught' = taught
        \/ Lesson(p) \in LearningsList(library) /\ taught' = taught \cup {Lesson(p)}
    <3>1. CASE UNCHANGED knowledgeVars
      BY <3>1 DEF knowledgeVars
    <3>2. CASE Finds(p) \/ Creates(p)
      BY <3>2 DEF Finds, Creates
    <3>3. CASE Fills(p)
      <4>1. library = Stored(NewFile(p), Lesson(p)) /\ taught' = taught \cup {Lesson(p)}
        BY <1>3, <3>3 DEF Fills
      <4>2. NewFile(p) \in DOMAIN library /\ library[NewFile(p)].text = Lesson(p)
        BY <4>1 DEF Stored
      <4> QED
        BY <1>2, <4>1, <4>2, Learnable
    <3> QED
      BY <3>1, <3>2, <3>3 DEF Copied, Lists, Passes, Misses, Fails
  <2> QED
    BY <1>3, <2>1 DEF LearntOnce
<1>4. CASE Creates(p) \/ Fills(p)
  <2>1. run[p].at \in {3, 4} /\ run[p].at < 5
    BY <1>4 DEF Creates, Fills
  <2>2. Len(run[p].todo) \in Nat
    BY <1>1, <2>1, LeftOver
  <2>3. \A n \in Nat : ~(n > n)
    OBVIOUS
  <2>4. NewFile(p) \in DOMAIN library =>
          run[p].at = 4 /\ library[NewFile(p)].text = Malformed
    BY <2>1, <2>2, <2>3 DEF NewFilesFit, NewFile, Copying
  <2>5. /\ DOMAIN library' = DOMAIN library \cup {NewFile(p)}
        /\ library'[NewFile(p)].text \in {Malformed, Lesson(p)}
        /\ Fills(p) => library'[NewFile(p)].text = Lesson(p)
        /\ \A g \in DOMAIN library \ {NewFile(p)} : library'[g] = library[g]
        /\ \/ taught' = taught
           \/ Fills(p) /\ taught' = taught \cup {Lesson(p)}
    <3>1. CASE Creates(p) /\ ~Fills(p)
      <4>1. library' = Stored(NewFile(p), Malformed) /\ taught' = taught
        BY <3>1 DEF Creates
      <4> QED
        BY <3>1, <4>1 DEF Stored
    <3>2. CASE Fills(p)
      <4>1. library' = Stored(NewFile(p), Lesson(p)) /\ taught' = taught \cup {Lesson(p)}
        BY <3>2 DEF Fills
      <4> QED
        BY <3>2, <4>1 DEF Stored
    <3> QED
      BY <1>4, <3>1, <3>2
  <2>6. LearningsList(library) \subseteq LearningsList(library')
    BY <2>4, <2>5, Learnable
  <2>7. Fills(p) => Lesson(p) \in LearningsList(library')
    BY <1>2, <2>5, Learnable
  <2>8. ASSUME LearntOnce, SearchFits(p) PROVE LearntOnce'
    <3>1. \A f \in DOMAIN library : library[f].text # Lesson(p)
      <4>1. run[p].at \in {2, 3, 4} /\ run[p].at # 2
        BY <2>1
      <4> QED
        BY <2>8, <4>1 DEF SearchFits
    <3>2. ASSUME NEW f \in DOMAIN library', NEW g \in DOMAIN library',
                 library'[f].text # Malformed, library'[f].text = library'[g].text, f # g
          PROVE  FALSE
      <4>1. CASE f = NewFile(p)
        BY <2>5, <3>1, <3>2, <4>1
      <4>2. CASE g = NewFile(p)
        BY <2>5, <3>1, <3>2, <4>2
      <4>3. CASE f # NewFile(p) /\ g # NewFile(p)
        BY <2>5, <2>8, <3>2, <4>3 DEF LearntOnce
      <4> QED
        BY <4>1, <4>2, <4>3
    <3> QED
      BY <3>2 DEF LearntOnce
  <2> QED
    BY <2>5, <2>6, <2>7, <2>8
<1> QED
  BY <1>3, <1>4 DEF Copied, Lists, Passes, Misses, Finds, Fails, knowledgeVars

(* Nor does an unlinked file take away what was not removed.               *)
LEMMA CleaningTeaches ==
  ASSUME Cleans, taught \subseteq LearningsList(library)
  PROVE  /\ taught' \subseteq LearningsList(library') /\ (LearntOnce => LearntOnce')
         /\ DOMAIN library' \subseteq DOMAIN library
         /\ \A f \in DOMAIN library' : library'[f] = library[f]
<1>1. CASE UNCHANGED knowledgeVars
  BY <1>1 DEF knowledgeVars, LearntOnce
<1>2. ASSUME NEW f \in DOMAIN library, library' = Without(f),
             taught' = taught \ (IF library[f].text \in LearningsList(Without(f)) THEN {}
                                 ELSE {library[f].text})
      PROVE  /\ taught' \subseteq LearningsList(library') /\ (LearntOnce => LearntOnce')
             /\ DOMAIN library' \subseteq DOMAIN library
             /\ \A g \in DOMAIN library' : library'[g] = library[g]
  <2>1. /\ DOMAIN library' = DOMAIN library \ {f}
        /\ \A g \in DOMAIN library \ {f} : library'[g] = library[g]
    BY <1>2, FilesWithout
  <2>2. ASSUME NEW e \in taught' PROVE e \in LearningsList(library')
    <3>1. e \in taught /\ (e = library[f].text => e \in LearningsList(library'))
      BY <1>2, <2>2
    <3>2. e # Malformed /\ \E g \in DOMAIN library : library[g].text = e
      BY <3>1, Learnable
    <3> QED
      BY <2>1, <3>1, <3>2, Learnable
  <2> QED
    BY <2>1, <2>2 DEF LearntOnce
<1> QED
  BY <1>1, <1>2 DEF Cleans

(* A call that does not move keeps what it promises while the files of     *)
(* others come and go, if no other copy runs.                              *)
LEMMA OthersLearn ==
  ASSUME NEW q \in Procs, run'[q] = run[q], killed \subseteq killed',
         \A f \in DOMAIN library' :
           \/ f \in DOMAIN library /\ library'[f] = library[f]
           \/ \A n \in Nat : f # <<q, n>>
  PROVE  /\ TodoFits(q) => TodoFits(q)'
         /\ NewFilesFit(q) => NewFilesFit(q)'
         /\ Copying(q)' => Copying(q)
         /\ (\A f \in DOMAIN library' : f \in DOMAIN library /\ library'[f] = library[f])
              => (SearchFits(q) => SearchFits(q)')
<1>1. /\ Copies(q)' = Copies(q) /\ Cmd(q)' = Cmd(q) /\ Lesson(q)' = Lesson(q)
      /\ Copying(q)' => Copying(q)
  BY DEF Copies, Copying, Running, Started, Steps, Cmd, Lesson
<1>2. TodoFits(q) => TodoFits(q)'
  BY <1>1 DEF TodoFits
<1>3. NewFilesFit(q) => NewFilesFit(q)'
  BY <1>1 DEF NewFilesFit
<1>4. ASSUME \A f \in DOMAIN library' : f \in DOMAIN library /\ library'[f] = library[f],
             SearchFits(q)
      PROVE  SearchFits(q)'
  BY <1>1, <1>4 DEF SearchFits
<1> QED
  BY <1>1, <1>2, <1>3, <1>4

(* Every step keeps all of this.                                           *)
LEMMA KnowledgeInvStep ==
  ASSUME LockInv, KnowledgeInv, [Next]_vars
  PROVE  KnowledgeInv'
<1>0. Formed
  BY DEF LockInv
<1>1. TogetherFits' /\ (CopiesApart' => CopiesApart)
  BY TogetherStep DEF KnowledgeInv, CopiesApart
<1>2. \A q \in Procs : Cmd(q)' = Cmd(q)
  BY RunsOn
<1> DEFINE Kept(q) == /\ TodoFits(q)' /\ NewFilesFit(q)'
                      /\ CopiesApart' => SearchFits(q)'
           Learnt == /\ taught' \subseteq LearningsList(library')
                     /\ CopiesApart' => LearntOnce'
<1>3. ASSUME UNCHANGED knowledgeVars PROVE Learnt
  BY <1>1, <1>3 DEF KnowledgeInv, LearntOnce, knowledgeVars
<1>4. ASSUME NEW q \in Procs, run'[q] = run[q], killed \subseteq killed',
             UNCHANGED knowledgeVars
      PROVE  Kept(q)
  <2>1. library' = library
    BY <1>4 DEF knowledgeVars
  <2> QED
    BY <1>1, <1>4, <2>1, OthersLearn DEF KnowledgeInv
<1>5. CASE Resting
  BY <1>1, <1>3, <1>4, <1>5 DEF Resting, KnowledgeInv
<1>6. ASSUME NEW p \in Procs, Opens(p) PROVE KnowledgeInv'
  <2>1. DOMAIN run = Procs /\ DOMAIN run[p] = Fields /\ run[p].at = 0 /\ library' = library
    BY <1>0, <1>6 DEF Formed, CallFormed, Opens, knowledgeVars
  <2>2. run' = [run EXCEPT ![p].at = @ + 1] /\ killed' = killed
    BY <1>6 DEF Opens, Call, Go
  <2>3. run'[p].at = 1 /\ run'[p].todo = run[p].todo /\ run'[p].cmd = run[p].cmd
    BY <2>1, <2>2, FieldsAre
  <2>4. \A q \in Procs \ {p} : run'[q] = run[q]
    BY <2>1, <2>2
  <2>5. Copies(p)' = Copies(p) /\ Cmd(p)' = Cmd(p)
    BY <2>3 DEF Copies, Cmd
  <2>6. TodoFits(p)'
    <3>1. TodoFits(p) /\ run'[p].at \notin {0, 2, 3, 4} /\ run'[p].todo = run[p].todo
      BY <2>3 DEF KnowledgeInv
    <3> QED
      BY <2>5, <3>1 DEF TodoFits
  <2>7. NewFilesFit(p)'
    <3>1. TodoFits(p) /\ NewFilesFit(p) /\ run[p].at = 0 /\ library' = library
      BY <2>1 DEF KnowledgeInv
    <3>2. Copies(p) => \A n \in Nat : <<p, n>> \notin DOMAIN library
      BY <3>1 DEF TodoFits, NewFilesFit
    <3> QED
      BY <2>5, <3>1, <3>2 DEF NewFilesFit
  <2>8. SearchFits(p)'
    BY <2>3 DEF SearchFits
  <2>9. UNCHANGED knowledgeVars
    BY <1>6 DEF Opens
  <2> QED
    BY <1>1, <1>3, <1>4, <2>2, <2>4, <2>6, <2>7, <2>8, <2>9 DEF KnowledgeInv
<1>7. ASSUME NEW p \in Procs, Away(p) PROVE KnowledgeInv'
  <2>1. ~Copies(p)'
    BY <1>2, <1>7 DEF Away, Acts, Copies, KnowledgeCommands, KnowledgeProgram
  <2>2. Kept(p)
    BY <2>1 DEF TodoFits, NewFilesFit, SearchFits, Copying
  <2> QED
    BY <1>1, <1>3, <1>4, <1>7, <2>2 DEF Away, Acts, OneMoves, KnowledgeInv
<1>8. ASSUME NEW p \in Procs, OnLearnings(p) PROVE KnowledgeInv'
  <2>1. /\ Running(p) /\ Cmd(p).name \in KnowledgeCommands /\ Cmd(p) # Nothing
        /\ killed' = killed /\ \A q \in Procs \ {p} : run'[q] = run[q]
    BY <1>0, <1>8 DEF OnLearnings, Acts, OneMoves, Formed, CallFormed, Running
  <2>2. CASE Cmd(p).name = "copy"
    <3>1. Copied(p) /\ Copying(p)
      BY <1>0, <1>8, <2>1, <2>2, LearningActs DEF Copying, Copies
    <3>2. TodoFits(p) /\ NewFilesFit(p) /\ (CopiesApart => SearchFits(p) /\ LearntOnce)
          /\ taught \subseteq LearningsList(library)
      BY DEF KnowledgeInv
    <3>3. Kept(p)
      BY <1>1, <1>2, <3>1, <3>2, CopyKeeps
    <3>4. Learnt
      BY <1>1, <3>1, <3>2, CopyTeaches
    <3>5. ASSUME NEW q \in Procs \ {p} PROVE Kept(q)
      <4>1. \A f \in DOMAIN library' :
              \/ f \in DOMAIN library /\ library'[f] = library[f]
              \/ \A n \in Nat : f # <<q, n>>
        <5>1. CASE library' = library
          BY <5>1
        <5>2. CASE \E t : library' = Stored(NewFile(p), t)
          <6>1. \A n \in Nat : NewFile(p) # <<q, n>>
            BY <3>5 DEF NewFile
          <6> QED
            BY <5>2, <6>1 DEF Stored
        <5> QED
          BY <3>1, <5>1, <5>2 DEF Copied, Lists, Passes, Misses, Finds, Creates, Fills, Fails,
             knowledgeVars
      <4>2. Copying(q)' /\ CopiesApart' => FALSE
        <5> SUFFICES ASSUME Copying(q)', CopiesApart' PROVE FALSE
          OBVIOUS
        <5>1. Copying(q)
          BY <2>1, <3>5, <4>1, OthersLearn
        <5>3. Related(Cmd(p).name, Cmd(q).name)
          BY <3>1, <5>1 DEF Related, Copying, Copies, KnowledgeCommands, KnowledgeProgram
        <5>2. {p, q} \in together
          BY <3>1, <3>5, <5>1, <5>3 DEF KnowledgeInv, TogetherFits, Copying
        <5> QED
          BY <1>1, <3>1, <3>5, <5>1, <5>2 DEF CopiesApart, Apart, Is, Copying, Copies, Running
      <4> QED
        BY <2>1, <3>5, <4>1, <4>2, OthersLearn DEF KnowledgeInv, SearchFits
    <3> QED
      BY <1>1, <3>3, <3>4, <3>5 DEF KnowledgeInv
  <2>3. CASE Cmd(p).name # "copy"
    <3>1. Cleans
      BY <1>0, <1>8, <2>3, LearningActs
    <3>2. /\ Learnt
          /\ \A f \in DOMAIN library' : f \in DOMAIN library /\ library'[f] = library[f]
      BY <1>1, <3>1, CleaningTeaches DEF KnowledgeInv
    <3>3. ~Copies(p)'
      BY <1>2, <2>3 DEF Copies
    <3>4. Kept(p)
      BY <3>3 DEF TodoFits, NewFilesFit, SearchFits, Copying
    <3>5. ASSUME NEW q \in Procs \ {p} PROVE Kept(q)
      BY <1>1, <2>1, <3>2, <3>5, OthersLearn DEF KnowledgeInv
    <3> QED
      BY <1>1, <3>2, <3>4, <3>5 DEF KnowledgeInv
  <2> QED
    BY <2>2, <2>3
<1> QED
  BY <1>5, <1>6, <1>7, <1>8, StepsOfCalls DEF Away, Acts, OnLearnings

(* It holds before anything is called.                                     *)
LEMMA KnowledgeInvInit == Init => KnowledgeInv
<1> SUFFICES ASSUME Init PROVE KnowledgeInv
  OBVIOUS
<1>1. PICK w \in Sessions : KnowledgeInit(w.library) /\ ProcessInit(w.calls)
  BY DEF Init
<1>2. \A p \in Procs : run[p].at = 0 /\ run[p].todo = <<>> /\ Cmd(p) = w.calls[p]
  BY <1>1 DEF ProcessInit, ToCall, Cmd
<1>3. \A p \in Procs : ~Running(p)
  BY <1>2 DEF Running, Started
<1>4. \A p \in Procs : TodoFits(p)
  <2>1. ASSUME NEW p \in Procs, Copies(p)
        PROVE  /\ Cmd(p).project # Nothing
               /\ Cmd(p).lessons \in Seq(ToSet(Cmd(p).lessons)) \ {<<>>}
    BY <1>2, <2>1, SessionsAssumption DEF Copies
  <2>2. \A S : <<>> \in Seq(S)
    OBVIOUS
  <2> QED
    <3>1. \A p \in Procs : run[p].at \notin {2, 3, 4} /\ run[p].todo = <<>>
      BY <1>2
    <3> QED
      BY <2>1, <2>2, <3>1 DEF TodoFits
<1>5. ASSUME NEW p \in Procs PROVE NewFilesFit(p)
  <2>1. \A f \in DOMAIN library : f[1] # p
    BY <1>1, SessionsAssumption DEF KnowledgeInit
  <2>2. \A n \in Nat : <<p, n>>[1] = p
    OBVIOUS
  <2>3. \A n \in Nat : <<p, n>> \notin DOMAIN library
    BY <2>1, <2>2
  <2> QED
    BY <2>3 DEF NewFilesFit
<1>6. LearntOnce /\ taught \subseteq LearningsList(library)
  BY <1>1, SessionsAssumption DEF KnowledgeInit, LearntOnce
<1> QED
  BY <1>3, <1>4, <1>5, <1>6 DEF KnowledgeInv, TogetherFits, SearchFits, Copying

(* What a copy reported as stored can be read until it is pruned or        *)
(* deleted, whoever was killed or failed in the middle of a write, and     *)
(* copies that did not overlap keep it once, for any number of calls.      *)
THEOREM KnowledgeIsSafe == Spec => []KnowledgeIsKept
<1>1. KnowledgeInv => KnowledgeIsKept
  BY DEF KnowledgeInv, KnowledgeIsKept, LearntOnce, CopiesApart
<1>2. Init => KnowledgeInv
  BY KnowledgeInvInit
<1>3. LockInv /\ KnowledgeInv /\ [Next]_vars => KnowledgeInv'
  BY KnowledgeInvStep
<1> QED
  BY <1>1, <1>2, <1>3, LocksAreOwned, PTL DEF Spec

-----------------------------------------------------------------------------
(***************************************************************************)
(* The profiles and the models of the agents.                              *)
(***************************************************************************)
\* What the property takes for granted.
Unhindered ==
  /\ killed = {} /\ Apart(ProfileCommands, ProfileCommands)
  /\ Readable(before, "opencode") /\ (Readable(before, "oc") \/ faults = 0)

\* The files have the fields they need, and the user's agents are those of b.
ProfilesFormed(oc) ==
  /\ {"current", "presets"} \subseteq DOMAIN oc
  /\ \A n \in DOMAIN oc.presets : DOMAIN oc.presets[n] \subseteq Kinds
AgentsFormed(b, oj) ==
  /\ {"agent", "allowed"} \subseteq DOMAIN oj
  /\ Obey(oj.agent, UsersOf(b.opencode.agent))

OcFits(b, all) ==
  /\ Readable(b, "oc") => "oc" \in DOMAIN all
  /\ Readable(all, "oc") => ProfilesFormed(all.oc)
OpencodeFits(b, all) ==
  /\ "opencode" \in DOMAIN all
  /\ Readable(all, "opencode") => AgentsFormed(b, all.opencode)
AllFits(b, all) == OcFits(b, all) /\ OpencodeFits(b, all) /\ AgentsFollow(all)

\* What a call that restores leaves, from what it has kept.
Undone(all, kept, copies) ==
  IF kept = Nothing THEN all ELSE Put(all, kept[1], copies[kept])
CanUndo(p) ==
  IF run[p].kept = Nothing THEN ~Readable(before, "oc")
  ELSE AllFits(before, Undone(settings, run[p].kept, backups))

\* The steps before a backup, and those that write opencode.json.
Early == {"look at profile", "fetch catalog", "read profiles", "back up oc",
          "look at opencode", "back up opencode", "read permission"}
AtAgents == {"empty opencode", "fill opencode"}

\* The profile a call has chosen is there, and says what all kinds run on.
ChoiceFits(p) ==
  LET c == Cmd(p).name  copy == run[p].copy  was == run[p].was IN
  /\ c = "inline" /\ Now(p) \in {"read profiles"} \cup Saving =>
       DOMAIN Cmd(p).models = Kinds
  /\ c = "pick" /\ Now(p) \in {"fetch catalog"} \cup Saving =>
       /\ was \in DOMAIN copy.presets
       /\ Now(p) # "fetch catalog" => DOMAIN copy.presets[was] = Kinds
  /\ c # "inline" /\ Now(p) = "fetch catalog" => ProfilesFormed(copy)
  /\ Now(p) \in Saving => ProfilesFormed(copy)

\* What the agents are to run on is what the current profile says.
BodyFits(p) ==
  LET c == Cmd(p).name  oc == settings.oc  was == run[p].was IN
  /\ c = "rewrite" /\ Now(p) \in {"back up opencode", "read profile"}
       => Readable(settings, "oc") /\ oc.current = was
  /\ c # "rewrite" /\ Now(p) = "read profile" =>
       /\ Readable(settings, "oc") /\ oc.current = was
       /\ was \in DOMAIN oc.presets /\ DOMAIN oc.presets[was] = Kinds
  /\ c # "allow" /\ Now(p) \in {"read opencode"} \cup AtAgents =>
       /\ Readable(settings, "oc") /\ DOMAIN run[p].body \subseteq Kinds
       /\ run[p].body = oc.presets[oc.current]

\* What a call has read of the agents.
TextFits(p) ==
  LET c == Cmd(p).name  text == run[p].text IN
  /\ c = "allow" /\ Now(p) = "back up opencode" =>
       Readable(settings, "opencode") /\ text = settings.opencode
  /\ Now(p) \in AtAgents => AgentsFormed(before, text)
  /\ c = "allow" /\ Now(p) \in AtAgents /\ Readable(settings, "oc") =>
       Obey(text.agent, settings.oc.presets[settings.oc.current])

\* What the files say meanwhile, and that they can be put back.
FilesFit(p) ==
  /\ OcFits(before, settings) /\ OpencodeFits(before, settings)
  /\ Now(p) \in Early \cup {"empty oc", "fill oc"} => AgentsFollow(settings)
  /\ Cmd(p).name = "rewrite" /\ Now(p) = "read profile" => AgentsFollow(settings)
  /\ Now(p) = "restore" /\ run[p].kept = Nothing => AgentsFollow(settings)
  /\ Now(p) \in Early => run[p].kept = Nothing
  /\ Now(p) \notin Early => CanUndo(p)
  /\ Now(p) \in Saving /\ run[p].kept # Nothing => run[p].kept[1] = "oc"

CallFits(p) == ChoiceFits(p) /\ BodyFits(p) /\ TextFits(p) /\ FilesFit(p)

ProfileInv ==
  /\ faults \in Nat
  /\ \A p \in Procs : run[p].at = 0 => run[p].kept = Nothing
  /\ TogetherFits
  /\ Unhindered =>
       /\ (\A p \in Procs : ~Profiling(p)) => AllFits(before, settings)
       /\ \A p \in Procs : Profiling(p) => CallFits(p)

\* What a step of a call on the profiles may take for granted.
Turn(p) ==
  /\ Formed /\ Profiling(p) /\ run'[p].cmd = run[p].cmd /\ killed' = killed
  /\ before' = before /\ Unhindered /\ Unhindered' /\ CallFits(p)

\* What it has to leave behind.
Left(p) == IF Profiling(p)' THEN CallFits(p)' ELSE AllFits(before, settings)'

(* A call that ends leaves the files as they are to be.                    *)
LEMMA EndsWell ==
  ASSUME NEW p \in Procs, Turn(p), Stop(p), AllFits(before, settings')
  PROVE  Left(p)
<1>1. run'[p].at = Len(Steps(p)) + 1
  BY StopChanges DEF Turn, Changes
<1>2. ~Profiling(p)'
  BY <1>1, WhereProfile DEF Turn
<1>3. AllFits(before, settings)'
  BY DEF Turn
<1> QED
  BY <1>2, <1>3 DEF Left

(* Before anything is written.                                             *)
LEMMA StillEarly ==
  ASSUME NEW p \in Procs, Turn(p), UNCHANGED profileVars, Now(p) \in Early
  PROVE  /\ AllFits(before, settings')
         /\ Now(p)' \in Early /\ run'[p].kept = run[p].kept => FilesFit(p)'
<1>1. AllFits(before, settings) /\ run[p].kept = Nothing
  BY DEF Turn, CallFits, FilesFit, AllFits
<1>2. Early \cap {"restore", "read profile"} = {} /\ "back up oc" \in Early
      /\ \A x \in Early : x \in Saving => x = "back up oc"
  BY DEF Early, Saving
<1>3. settings' = settings /\ before' = before
  BY DEF profileVars
<1>4. ASSUME Now(p)' \in Early, run'[p].kept = run[p].kept PROVE FilesFit(p)'
  BY <1>1, <1>2, <1>3, <1>4 DEF FilesFit, AllFits
<1> QED
  BY <1>1, <1>3, <1>4

\* A step that leaves the locals of a call alone but one of them.
SameBut(p, f) ==
  /\ f # "copy" => run'[p].copy = run[p].copy
  /\ f # "was"  => run'[p].was = run[p].was
  /\ f # "body" => run'[p].body = run[p].body
  /\ f # "text" => run'[p].text = run[p].text
  /\ f # "kept" => run'[p].kept = run[p].kept

(* On to the next step of the command.                                     *)
LEMMA GoingOn ==
  ASSUME NEW p \in Procs, Turn(p), Go(p), Now(p) # "restore"
  PROVE  /\ Profiling(p)' /\ Now(p)' = After(Cmd(p).name, Now(p)) /\ Cmd(p)' = Cmd(p)
         /\ SameBut(p, "at")
<1>1. run'[p].at = run[p].at + 1
  BY GoChanges DEF Turn, Changes
<1>2. SameBut(p, "at")
  BY FieldsAre DEF Turn, Formed, CallFormed, Go, SameBut
<1> QED
  BY <1>1, <1>2, WhereProfile DEF Turn

(* On, with something it has read or kept.                                 *)
LEMMA GoingWith ==
  ASSUME NEW p \in Procs, NEW f \in {"was", "body", "text", "kept"}, NEW v,
         Turn(p), GoWith(p, f, v), Now(p) # "restore"
  PROVE  /\ Profiling(p)' /\ Now(p)' = After(Cmd(p).name, Now(p)) /\ Cmd(p)' = Cmd(p)
         /\ SameBut(p, f) /\ run'[p][f] = v
<1>1. f \in Fields \ {"at", "cmd", "forced", "scope"}
  BY FieldsAre
<1>2. run'[p].at = run[p].at + 1 /\ run'[p][f] = v
  BY <1>1, GoWithChanges DEF Turn, Changes
<1>3. SameBut(p, f)
  BY FieldsAre DEF Turn, Formed, CallFormed, GoWith, SameBut
<1> QED
  BY <1>2, <1>3, WhereProfile DEF Turn

(* To the step that restores.                                              *)
LEMMA GoingBack ==
  ASSUME NEW p \in Procs, Turn(p), GoTo(p, "restore")
  PROVE  /\ Profiling(p)' /\ Now(p)' = "restore" /\ Cmd(p)' = Cmd(p)
         /\ SameBut(p, "at")
<1>1. run'[p].at = StepNo(p, "restore")
  BY GoToChanges DEF Turn, Changes
<1>2. SameBut(p, "at")
  BY FieldsAre DEF Turn, Formed, CallFormed, GoTo, SameBut
<1> QED
  BY <1>1, <1>2, WhereProfile DEF Turn

(* Which commands have the step.                                           *)
LEMMA WhoIsAt ==
  ASSUME NEW p \in Procs, Turn(p)
  PROVE  LET c == Cmd(p).name IN
         /\ c \in {"inline", "pick", "rewrite", "allow"}
         /\ Now(p) = "look at profile"  => c = "pick"
         /\ Now(p) = "look at opencode" => c = "rewrite"
         /\ Now(p) = "read permission"  => c = "allow"
         /\ Now(p) = "fetch catalog"    => c \in {"inline", "pick"}
         /\ Now(p) = "read profiles"    => c \in {"inline", "pick", "rewrite"}
         /\ Now(p) \in Saving           => c \in {"inline", "pick"}
         /\ Now(p) = "back up opencode" => c \in {"rewrite", "allow"}
         /\ Now(p) \in {"read profile", "read opencode"} => c # "allow"
<1>1. Cmd(p).name \in {"inline", "pick", "rewrite", "allow"}
      /\ Now(p) \in StepsOf(Cmd(p).name)
  BY WhereProfile DEF Turn
<1> QED
  BY <1>1 DEF StepsOf, Saving, Applying

(* The steps before a backup.                                              *)
LEMMA EarlyKeeps ==
  ASSUME NEW p \in Procs, Turn(p),
         \/ LookAtProfile(p) \/ ReadProfiles(p) \/ FetchCatalog(p)
         \/ LookAtOpencode(p) \/ ReadPermission(p)
  PROVE  Left(p)
<1> DEFINE c == Cmd(p).name
<1>1. /\ UNCHANGED profileVars /\ settings' = settings /\ before' = before
      /\ LookAtProfile(p) => Now(p) = "look at profile"
      /\ ReadProfiles(p) => Now(p) = "read profiles"
      /\ FetchCatalog(p) => Now(p) = "fetch catalog"
      /\ LookAtOpencode(p) => Now(p) = "look at opencode"
      /\ ReadPermission(p) => Now(p) = "read permission"
  BY AtNow DEF LookAtProfile, ReadProfiles, FetchCatalog, LookAtOpencode, ReadPermission,
     Quietly, profileVars
<1>2. Now(p) \in Early /\ Now(p) # "restore"
  BY <1>1 DEF Early
<1>3. /\ AllFits(before, settings') /\ OcFits(before, settings)
      /\ OpencodeFits(before, settings)
      /\ Now(p)' \in Early /\ run'[p].kept = run[p].kept => FilesFit(p)'
  BY <1>1, <1>2, StillEarly DEF Turn, CallFits, FilesFit
<1>4. CASE Stop(p)
  BY <1>3, <1>4, EndsWell
<1>5. ChoiceFits(p)
  BY DEF Turn, CallFits
<1>6. CASE LookAtProfile(p) /\ ~Stop(p)
  <2>1. \E v : GoWith(p, "was", v)
    BY <1>6 DEF LookAtProfile
  <2>2. c = "pick"
    BY <1>1, <1>6, WhoIsAt
  <2>3. /\ Profiling(p)' /\ Now(p)' = "read profiles" /\ Cmd(p)' = Cmd(p)
        /\ run'[p].kept = run[p].kept
    BY <1>1, <1>2, <1>6, <2>1, GoingWith DEF SameBut, After
  <2> QED
    BY <1>3, <2>2, <2>3 DEF Left, CallFits, ChoiceFits, BodyFits, TextFits, Early, Saving,
       AtAgents
<1>7. CASE LookAtOpencode(p) /\ ~Stop(p)
  <2>1. Go(p)
    BY <1>7 DEF LookAtOpencode
  <2>2. c = "rewrite"
    BY <1>1, <1>7, WhoIsAt
  <2>3. /\ Profiling(p)' /\ Now(p)' = "read profiles" /\ Cmd(p)' = Cmd(p)
        /\ run'[p].kept = run[p].kept
    BY <1>1, <1>2, <1>7, <2>1, GoingOn DEF SameBut, After
  <2> QED
    BY <1>3, <2>2, <2>3 DEF Left, CallFits, ChoiceFits, BodyFits, TextFits, Early, Saving,
       AtAgents
<1>8. CASE ReadPermission(p) /\ ~Stop(p)
  <2>1. GoWith(p, "text", CurrentAgents) /\ ~Broken(settings, "opencode")
    BY <1>8 DEF ReadPermission
  <2>2. c = "allow"
    BY <1>1, <1>8, WhoIsAt
  <2>3. /\ Profiling(p)' /\ Now(p)' = "back up opencode" /\ Cmd(p)' = Cmd(p)
        /\ run'[p].kept = run[p].kept /\ run'[p].text = CurrentAgents
    BY <1>1, <1>2, <1>8, <2>1, GoingWith DEF SameBut, After
  <2>4. Readable(settings, "opencode") /\ CurrentAgents = settings.opencode
    BY <1>3, <2>1 DEF OpencodeFits, Broken, Readable, CurrentAgents
  <2> QED
    BY <1>1, <1>3, <2>2, <2>3, <2>4 DEF Left, CallFits, ChoiceFits, BodyFits, TextFits, Early,
       Saving, AtAgents
<1>9. CASE FetchCatalog(p) /\ ~Stop(p)
  <2>1. Go(p) /\ ValidateProfile(IF Is(p, {"inline"}) THEN Cmd(p).models
                                 ELSE run[p].copy.presets[run[p].was])
    BY <1>9 DEF FetchCatalog
  <2>2. c \in {"inline", "pick"} /\ (Is(p, {"inline"}) <=> c = "inline")
    BY <1>1, <1>9, WhoIsAt DEF Is, Turn, Profiling, Running
  <2>3. /\ Profiling(p)' /\ Cmd(p)' = Cmd(p)
        /\ Now(p)' = IF c = "inline" THEN "read profiles" ELSE "back up oc"
        /\ SameBut(p, "at")
    BY <1>1, <1>2, <1>9, <2>1, GoingOn DEF After
  <2>4. c = "inline" => DOMAIN Cmd(p).models = Kinds
    BY <2>1, <2>2 DEF ValidateProfile
  <2>5. c = "pick" => /\ DOMAIN run[p].copy.presets[run[p].was] = Kinds
                      /\ run[p].was \in DOMAIN run[p].copy.presets
                      /\ ProfilesFormed(run[p].copy)
    BY <1>1, <1>5, <1>9, <2>1, <2>2 DEF ValidateProfile, ChoiceFits
  <2>6. ChoiceFits(p)'
    BY <2>2, <2>3, <2>4, <2>5 DEF ChoiceFits, SameBut, Saving
  <2> QED
    BY <1>3, <2>3, <2>6 DEF Left, CallFits, BodyFits, TextFits, Early, AtAgents, SameBut
<1>10. CASE ReadProfiles(p) /\ ~Stop(p)
  <2> DEFINE there == Readable(settings, "oc")
             name  == IF Is(p, {"inline"}) THEN Cmd(p).profile
                      ELSE IF Is(p, {"rewrite"}) /\ there THEN settings.oc.current
                      ELSE run[p].was
             new   == IF there THEN settings.oc ELSE NoProfiles
  <2>1. /\ run' = [run EXCEPT ![p].at = @ + 1, ![p].was = name, ![p].copy = new]
        /\ IF Is(p, {"inline"}) THEN ~Broken(settings, "oc") ELSE HasPreset(name)
    BY <1>10 DEF ReadProfiles
  <2>2. c \in {"inline", "pick", "rewrite"} /\ \A x : Is(p, {x}) <=> c = x
    BY <1>1, <1>10, WhoIsAt DEF Is, Turn, Profiling, Running
  <2>3. ProfilesFormed(new)
    <3>1. ProfilesFormed(NoProfiles)
      BY DEF ProfilesFormed, NoProfiles
    <3> QED
      BY <1>3, <3>1 DEF OcFits
  <2>4. c # "inline" => there /\ new = settings.oc /\ name \in DOMAIN new.presets
    BY <2>1, <2>2 DEF HasPreset
  <2>5. c = "rewrite" => name = settings.oc.current
    BY <2>2, <2>4
  <2> HIDE DEF name, new, there
  <2>6. /\ run'[p].at = run[p].at + 1 /\ run'[p].was = name /\ run'[p].copy = new
        /\ run'[p].kept = run[p].kept
    BY <2>1, FieldsAre DEF Turn, Formed, CallFormed
  <2>7. /\ Profiling(p)' /\ Cmd(p)' = Cmd(p)
        /\ Now(p)' = IF c = "inline" THEN "back up oc" ELSE IF c = "pick" THEN "fetch catalog"
                     ELSE "back up opencode"
    BY <1>1, <1>2, <1>10, <2>6, WhereProfile DEF Turn, After
  <2>8. ChoiceFits(p)'
    <3>1. c = "inline" => DOMAIN Cmd(p).models = Kinds
      BY <1>1, <1>5, <1>10 DEF ChoiceFits
    <3> QED
      BY <2>2, <2>3, <2>4, <2>6, <2>7, <3>1 DEF ChoiceFits, Saving
  <2>9. BodyFits(p)'
    <3>1. c = "rewrite" => Readable(settings', "oc") /\ settings'.oc.current = run'[p].was
      BY <1>1, <2>4, <2>5, <2>6 DEF there
    <3> QED
      BY <2>2, <2>7, <3>1 DEF BodyFits, AtAgents
  <2> QED
    BY <1>3, <2>2, <2>6, <2>7, <2>8, <2>9 DEF Left, CallFits, TextFits, Early, AtAgents
<1> QED
  BY <1>4, <1>6, <1>7, <1>8, <1>9, <1>10

\* Settings in which the two files say the same.
SameFile(a, b, file) ==
  (file \in DOMAIN a <=> file \in DOMAIN b) /\ (file \in DOMAIN a => a[file] = b[file])
SameFiles(a, b) == SameFile(a, b, "oc") /\ SameFile(a, b, "opencode")

(* What the settings fit depends on the two files alone.                   *)
LEMMA SameFits ==
  ASSUME NEW b, NEW s, NEW t
  PROVE  /\ SameFile(s, t, "oc") => (OcFits(b, s) => OcFits(b, t))
         /\ SameFile(s, t, "opencode") => (OpencodeFits(b, s) => OpencodeFits(b, t))
         /\ SameFiles(s, t) => (AllFits(b, s) => AllFits(b, t))
<1>1. SameFile(s, t, "oc") => (Readable(s, "oc") <=> Readable(t, "oc"))
                                /\ (Readable(t, "oc") => s.oc = t.oc)
  BY DEF SameFile, Readable
<1>2. SameFile(s, t, "opencode") =>
        /\ (Readable(s, "opencode") <=> Readable(t, "opencode"))
        /\ (Readable(t, "opencode") => s.opencode = t.opencode)
  BY DEF SameFile, Readable
<1>3. SameFile(s, t, "oc") => (OcFits(b, s) => OcFits(b, t))
  BY <1>1 DEF OcFits, SameFile
<1>4. SameFile(s, t, "opencode") => (OpencodeFits(b, s) => OpencodeFits(b, t))
  BY <1>2 DEF OpencodeFits, SameFile
<1>5. SameFiles(s, t) => (AgentsFollow(s) => AgentsFollow(t))
  BY <1>1, <1>2 DEF AgentsFollow, SameFiles
<1> QED
  BY <1>3, <1>4, <1>5 DEF AllFits, SameFiles

(* One file is written, the others stay.                                   *)
LEMMA PutSays ==
  ASSUME NEW s, NEW k, NEW v
  PROVE  /\ k \in DOMAIN Put(s, k, v) /\ Put(s, k, v)[k] = v
         /\ \A x : x # k => SameFile(s, Put(s, k, v), x)
BY DEF Put, SameFile

(* It does not matter what was there.                                      *)
LEMMA PutOver ==
  ASSUME NEW s, NEW t, NEW k, NEW v,
         \A x \in {"oc", "opencode"} : x # k => SameFile(s, t, x)
  PROVE  SameFiles(Put(s, k, v), Put(t, k, v))
<1>1. \A x \in {"oc", "opencode"} : SameFile(Put(s, k, v), Put(t, k, v), x)
  BY PutSays DEF SameFile
<1> QED
  BY <1>1 DEF SameFiles

(* A file put back as it is.                                               *)
LEMMA PutBack ==
  ASSUME NEW s, NEW k \in DOMAIN s
  PROVE  SameFiles(s, Put(s, k, s[k]))
BY DEF SameFiles, SameFile, Put

(* What is copied can be put back.                                         *)
LEMMA BackupKeeps ==
  ASSUME NEW p \in Procs, NEW file \in {"oc", "opencode"}, Turn(p), CreateBackup(p, file)
  PROVE  Left(p)
<1> DEFINE c == Cmd(p).name
<1>1. Now(p) = (IF file = "oc" THEN "back up oc" ELSE "back up opencode")
      /\ settings' = settings /\ before' = before /\ Now(p) # "restore" /\ Now(p) \in Early
  <2>1. settings' = settings /\ before' = before /\ Now(p) = StepsOn(file).backup
    BY AtNow DEF CreateBackup
  <2>2. StepsOn(file).backup = (IF file = "oc" THEN "back up oc" ELSE "back up opencode")
    BY DEF StepsOn
  <2> QED
    BY <2>1, <2>2 DEF Early
<1>2. /\ ChoiceFits(p) /\ BodyFits(p) /\ TextFits(p) /\ run[p].kept = Nothing
      /\ OcFits(before, settings) /\ OpencodeFits(before, settings)
      /\ AgentsFollow(settings) /\ AllFits(before, settings)
  BY <1>1 DEF Turn, CallFits, FilesFit, AllFits
<1>3. c \in {"inline", "pick", "rewrite", "allow"}
      /\ (file = "oc" => c \in {"inline", "pick"})
      /\ (file = "opencode" => c \in {"rewrite", "allow"})
  BY <1>1, WhoIsAt DEF Saving
<1>4. CASE Stop(p)
  BY <1>1, <1>2, <1>4, EndsWell
<1> DEFINE next == IF file = "oc" THEN "empty oc"
                   ELSE IF c = "allow" THEN "empty opencode" ELSE "read profile"
<1>5. ASSUME Profiling(p)', Now(p)' = After(c, Now(p)), Cmd(p)' = Cmd(p), SameBut(p, "kept"),
             CanUndo(p)', run'[p].kept # Nothing => run'[p].kept[1] = file
      PROVE  Left(p)
  <2>1. Now(p)' = next
    BY <1>1, <1>3, <1>5 DEF After
  <2>2. ChoiceFits(p)'
    BY <1>1, <1>2, <1>3, <1>5, <2>1 DEF ChoiceFits, SameBut, Saving
  <2>3. BodyFits(p)'
    BY <1>1, <1>2, <1>3, <1>5, <2>1 DEF BodyFits, SameBut, AtAgents
  <2>4. TextFits(p)'
    <3>1. CASE file = "opencode" /\ c = "allow"
      <4>1. Readable(settings, "opencode") /\ run'[p].text = settings.opencode
        BY <1>1, <1>2, <1>5, <3>1 DEF TextFits, SameBut
      <4>2. AgentsFormed(before, run'[p].text)
        BY <1>2, <4>1 DEF OpencodeFits
      <4>3. Readable(settings, "oc") =>
              Obey(run'[p].text.agent, settings.oc.presets[settings.oc.current])
        BY <1>2, <4>1 DEF AgentsFollow
      <4> QED
        BY <1>1, <1>5, <2>1, <3>1, <4>2, <4>3 DEF TextFits
    <3>2. CASE ~(file = "opencode" /\ c = "allow")
      BY <2>1, <1>3, <3>2 DEF TextFits, AtAgents
    <3> QED
      BY <3>1, <3>2
  <2>5. FilesFit(p)'
    <3>1. Now(p)' \notin Early /\ Now(p)' # "restore" /\ (Now(p)' \in Saving => file = "oc")
      BY <1>3, <2>1 DEF Early, Saving
    <3> QED
      BY <1>1, <1>2, <1>5, <3>1 DEF FilesFit
  <2> QED
    BY <1>5, <2>2, <2>3, <2>4, <2>5 DEF Left, CallFits
<1>6. CASE file \notin DOMAIN settings /\ ~Stop(p)
  <2>1. Go(p) /\ file = "oc" /\ ~Readable(before, "oc")
    BY <1>2, <1>6 DEF CreateBackup, OpencodeFits, OcFits
  <2>2. /\ Profiling(p)' /\ Now(p)' = After(c, Now(p)) /\ Cmd(p)' = Cmd(p)
        /\ SameBut(p, "at") /\ run'[p].kept = Nothing
    BY <1>1, <1>2, <2>1, GoingOn DEF SameBut
  <2>3. CanUndo(p)'
    BY <1>1, <2>1, <2>2 DEF CanUndo
  <2> QED
    BY <1>5, <2>2, <2>3 DEF SameBut
<1>7. CASE file \in DOMAIN settings /\ ~Stop(p)
  <2>1. PICK second \in {p, Nothing} :
          /\ backups' = Put(backups, <<file, second>>, settings[file])
          /\ GoWith(p, "kept", <<file, second>>)
    BY <1>7 DEF CreateBackup
  <2>2. /\ Profiling(p)' /\ Now(p)' = After(c, Now(p)) /\ Cmd(p)' = Cmd(p)
        /\ SameBut(p, "kept") /\ run'[p].kept = <<file, second>>
    BY <1>1, <2>1, GoingWith
  <2>3. <<file, second>> # Nothing
    <3>1. <<file, second>> \in {"oc", "opencode"} \X (Procs \cup {Nothing})
      OBVIOUS
    <3> QED
      BY <3>1, ProfileAssumption, Zenon
  <2>8. <<file, second>>[1] = file
    OBVIOUS
  <2>4. backups'[<<file, second>>] = settings[file]
    BY <2>1, PutSays
  <2>5. Undone(settings, run'[p].kept, backups') = Put(settings, file, settings[file])
    BY <2>2, <2>3, <2>4, <2>8 DEF Undone
  <2>6. AllFits(before, Put(settings, file, settings[file]))
    BY <1>2, <1>7, PutBack, SameFits
  <2>7. CanUndo(p)'
    BY <1>1, <2>2, <2>3, <2>5, <2>6 DEF CanUndo
  <2> QED
    BY <1>5, <2>2, <2>3, <2>7, <2>8
<1> QED
  BY <1>4, <1>6, <1>7

(* A file that is empty for a while can be put back,                       *)
LEMMA EmptyKeeps ==
  ASSUME NEW p \in Procs, NEW file \in {"oc", "opencode"}, Turn(p), Empty(p, file)
  PROVE  Left(p)
<1> DEFINE c == Cmd(p).name
<1>1. Now(p) = (IF file = "oc" THEN "empty oc" ELSE "empty opencode")
      /\ settings' = Put(settings, file, OcTorn) /\ before' = before /\ backups' = backups
  <2>1. Now(p) = StepsOn(file).empty
    BY AtNow DEF Empty
  <2>2. StepsOn(file).empty = (IF file = "oc" THEN "empty oc" ELSE "empty opencode")
    BY DEF StepsOn
  <2> QED
    BY <2>1, <2>2 DEF Empty
<1>2. /\ ChoiceFits(p) /\ BodyFits(p) /\ TextFits(p) /\ CanUndo(p)
      /\ OcFits(before, settings) /\ OpencodeFits(before, settings)
      /\ file = "oc" /\ run[p].kept # Nothing => run[p].kept[1] = "oc"
  BY <1>1 DEF Turn, CallFits, FilesFit, Early, Saving
<1>3. c \in {"inline", "pick", "rewrite", "allow"} /\ (file = "oc" => c \in {"inline", "pick"})
  BY <1>1, WhoIsAt DEF Saving
<1>4. /\ Profiling(p)' /\ Cmd(p)' = Cmd(p) /\ SameBut(p, "at")
      /\ Now(p)' = IF file = "oc" THEN "fill oc" ELSE "fill opencode"
  <2>1. Go(p) /\ Now(p) # "restore"
    BY <1>1 DEF Empty
  <2> QED
    BY <1>1, <2>1, GoingOn DEF After
<1>5. /\ file \in DOMAIN settings' /\ ~Readable(settings', file)
      /\ \A x : x # file => SameFile(settings, settings', x)
  <2>1. file \in DOMAIN settings' /\ settings'[file] = OcTorn
    BY <1>1, PutSays
  <2>2. \A x : x # file => SameFile(settings, settings', x)
    BY <1>1, PutSays
  <2> QED
    BY <2>1, <2>2 DEF Readable
<1>6. OcFits(before, settings')
  <2>1. CASE file = "oc"
    BY <1>5, <2>1 DEF OcFits
  <2>2. CASE file # "oc"
    BY <1>2, <1>5, <2>2, SameFits
  <2> QED
    BY <2>1, <2>2
<1>7. OpencodeFits(before, settings')
  <2>1. CASE file = "opencode"
    BY <1>5, <2>1 DEF OpencodeFits
  <2>2. CASE file # "opencode"
    BY <1>2, <1>5, <2>2, SameFits
  <2> QED
    BY <2>1, <2>2
<1>8. AgentsFollow(settings')
  BY <1>5 DEF AgentsFollow
<1>9. ASSUME run[p].kept # Nothing
      PROVE  AllFits(before, Undone(settings', run[p].kept, backups))
  <2> DEFINE k == run[p].kept[1]  v == backups[run[p].kept]
  <2>1. /\ AllFits(before, Put(settings, k, v))
        /\ Undone(settings', run[p].kept, backups) = Put(settings', k, v)
    BY <1>2, <1>9 DEF CanUndo, Undone
  <2> HIDE DEF k, v
  <2>2. CASE k = file
    <3>1. \A x \in {"oc", "opencode"} : x # k => SameFile(settings, settings', x)
      BY <1>5, <2>2
    <3>2. SameFiles(Put(settings, k, v), Put(settings', k, v))
      BY <3>1, PutOver
    <3> QED
      BY <2>1, <3>2, SameFits
  <2>3. CASE k # file
    <3>1. file = "opencode" /\ k # "opencode"
      BY <1>2, <1>9, <2>3 DEF k
    <3>2. SameFile(settings', Put(settings', k, v), "opencode")
      BY <3>1, PutSays
    <3>3. /\ "opencode" \in DOMAIN Put(settings', k, v)
          /\ ~Readable(Put(settings', k, v), "opencode")
      BY <1>5, <3>1, <3>2 DEF SameFile, Readable
    <3>4. SameFile(Put(settings, k, v), Put(settings', k, v), "oc")
      <4>1. SameFile(settings, settings', "oc")
        BY <1>5, <3>1
      <4>2. SameFile(settings, Put(settings, k, v), "oc") \/ k = "oc"
        BY PutSays
      <4>3. SameFile(settings', Put(settings', k, v), "oc") \/ k = "oc"
        BY PutSays
      <4>4. k = "oc" => SameFile(Put(settings, k, v), Put(settings', k, v), "oc")
        <5>1. /\ k \in DOMAIN Put(settings, k, v) /\ Put(settings, k, v)[k] = v
              /\ k \in DOMAIN Put(settings', k, v) /\ Put(settings', k, v)[k] = v
          BY PutSays
        <5> QED
          BY <5>1 DEF SameFile
      <4> QED
        BY <4>1, <4>2, <4>3, <4>4 DEF SameFile
    <3>5. OcFits(before, Put(settings', k, v))
      BY <2>1, <3>4, SameFits DEF AllFits
    <3>6. OpencodeFits(before, Put(settings', k, v)) /\ AgentsFollow(Put(settings', k, v))
      BY <3>3 DEF OpencodeFits, AgentsFollow
    <3> QED
      BY <2>1, <3>5, <3>6 DEF AllFits
  <2> QED
    BY <2>2, <2>3
<1>10. CanUndo(p)'
  BY <1>1, <1>2, <1>4, <1>9 DEF CanUndo, SameBut
<1>11. ChoiceFits(p)'
  BY <1>1, <1>2, <1>4 DEF ChoiceFits, SameBut, Saving
<1>12. file = "opencode" /\ Readable(settings, "oc")
         => Readable(settings', "oc") /\ settings'.oc = settings.oc
  BY <1>5 DEF SameFile, Readable
<1>13. file = "opencode" /\ Readable(settings', "oc")
         => Readable(settings, "oc") /\ settings'.oc = settings.oc
  BY <1>5 DEF SameFile, Readable
<1>14. BodyFits(p)'
  BY <1>1, <1>2, <1>4, <1>12 DEF BodyFits, SameBut, AtAgents
<1>15. TextFits(p)'
  BY <1>1, <1>2, <1>4, <1>13 DEF TextFits, SameBut, AtAgents
<1>16. FilesFit(p)'
  <2>1. Now(p)' \notin Early /\ Now(p)' # "restore" /\ (Now(p)' \in Saving => file = "oc")
    BY <1>4 DEF Early, Saving
  <2> QED
    BY <1>1, <1>2, <1>4, <1>6, <1>7, <1>8, <1>10, <2>1 DEF FilesFit, SameBut
<1> QED
  BY <1>4, <1>11, <1>14, <1>15, <1>16 DEF Left, CallFits

(* and one that is filled, too.                                            *)
LEMMA FillOc ==
  ASSUME NEW p \in Procs, Turn(p), Fill(p, "oc")
  PROVE  Left(p)
<1> DEFINE c == Cmd(p).name  new == NewContent(p, "oc")
           copy == run[p].copy  was == run[p].was
<1>1. /\ Now(p) = "fill oc" /\ settings' = Put(settings, "oc", new) /\ before' = before
      /\ backups' = backups /\ Go(p)
  BY AtNow DEF Fill, StepsOn
<1>2. /\ ChoiceFits(p) /\ CanUndo(p) /\ OpencodeFits(before, settings)
      /\ run[p].kept # Nothing => run[p].kept[1] = "oc"
  BY <1>1 DEF Turn, CallFits, FilesFit, Early, Saving
<1>3. c \in {"inline", "pick"} /\ (Is(p, {"inline"}) <=> c = "inline")
  BY <1>1, WhoIsAt DEF Saving, Is, Turn, Profiling, Running
<1>4. /\ Profiling(p)' /\ Cmd(p)' = Cmd(p) /\ SameBut(p, "at") /\ Now(p)' = "read profile"
  BY <1>1, GoingOn DEF After
<1>5. /\ ProfilesFormed(copy)
      /\ c = "inline" => DOMAIN Cmd(p).models = Kinds
      /\ c = "pick" => was \in DOMAIN copy.presets /\ DOMAIN copy.presets[was] = Kinds
  BY <1>1, <1>2 DEF ChoiceFits, Saving
<1> DEFINE presets == IF c = "inline" THEN Put(copy.presets, was, Cmd(p).models)
                      ELSE copy.presets
<1>6. DOMAIN new = DOMAIN copy /\ new.current = was /\ new.presets = presets
  BY <1>3, <1>5 DEF NewContent, ProfilesFormed
<1> HIDE DEF new
<1>7. /\ was \in DOMAIN presets /\ DOMAIN presets[was] = Kinds
      /\ \A n \in DOMAIN presets : DOMAIN presets[n] \subseteq Kinds
  <2>1. CASE c = "inline"
    BY <1>5, <2>1 DEF Put, ProfilesFormed
  <2>2. CASE c # "inline"
    BY <1>3, <1>5, <2>2 DEF ProfilesFormed
  <2> QED
    BY <2>1, <2>2
<1> HIDE DEF presets
<1>8. ProfilesFormed(new) /\ new # OcTorn
  <2>1. ProfilesFormed(new)
    BY <1>5, <1>6, <1>7 DEF ProfilesFormed
  <2>2. "current" \in DOMAIN new /\ "current" \notin DOMAIN OcTorn
    BY <2>1 DEF ProfilesFormed, OcTorn
  <2> QED
    BY <2>1, <2>2
<1>9. /\ "oc" \in DOMAIN settings' /\ settings'["oc"] = new
      /\ SameFile(settings, settings', "opencode")
  BY <1>1, PutSays
<1>10. Readable(settings', "oc") /\ settings'.oc = new
  BY <1>8, <1>9 DEF Readable
<1>11. OcFits(before, settings')
  BY <1>8, <1>9, <1>10 DEF OcFits
<1>12. OpencodeFits(before, settings')
  BY <1>2, <1>9, SameFits
<1>13. CanUndo(p)'
  <2>1. CASE run[p].kept = Nothing
    BY <1>1, <1>2, <1>4, <2>1 DEF CanUndo, SameBut
  <2>2. CASE run[p].kept # Nothing
    <3> DEFINE v == backups[run[p].kept]
    <3>1. \A x \in {"oc", "opencode"} : x # "oc" => SameFile(settings, settings', x)
      BY <1>9
    <3>2. SameFiles(Put(settings, "oc", v), Put(settings', "oc", v))
      BY <3>1, PutOver
    <3>3. AllFits(before, Put(settings, "oc", v))
      BY <1>2, <2>2 DEF CanUndo, Undone
    <3>4. AllFits(before, Put(settings', "oc", v))
      BY <3>2, <3>3, SameFits
    <3> QED
      BY <1>1, <1>2, <1>4, <2>2, <3>4 DEF CanUndo, SameBut, Undone
  <2> QED
    BY <2>1, <2>2
<1>14. FilesFit(p)'
  <2>1. "read profile" \notin Early \cup Saving
    BY DEF Early, Saving
  <2> QED
    BY <1>1, <1>3, <1>4, <1>11, <1>12, <1>13, <2>1 DEF FilesFit
<1>15. ChoiceFits(p)'
  BY <1>3, <1>4, <1>5 DEF ChoiceFits, Saving
<1>16. BodyFits(p)'
  BY <1>3, <1>4, <1>6, <1>7, <1>10 DEF BodyFits, SameBut, AtAgents
<1>17. TextFits(p)'
  BY <1>3, <1>4 DEF TextFits, AtAgents
<1> QED
  BY <1>4, <1>14, <1>15, <1>16, <1>17 DEF Left, CallFits

(* A profile is applied as it is read.                                     *)
LEMMA ReadProfileKeeps ==
  ASSUME NEW p \in Procs, Turn(p), ReadProfile(p)
  PROVE  Left(p)
<1> DEFINE c == Cmd(p).name  was == run[p].was  oc == settings.oc
<1>1. Now(p) = "read profile" /\ settings' = settings /\ before' = before
      /\ backups' = backups
  BY AtNow DEF ReadProfile, Quietly, profileVars
<1>2. /\ BodyFits(p) /\ CanUndo(p)
      /\ OcFits(before, settings) /\ OpencodeFits(before, settings)
      /\ c = "rewrite" => AgentsFollow(settings)
  BY <1>1 DEF Turn, CallFits, FilesFit, Early
<1>3. c \in {"inline", "pick", "rewrite"}
  BY <1>1, WhoIsAt
<1>4. /\ Readable(settings, "oc") /\ oc.current = was
      /\ c # "rewrite" => was \in DOMAIN oc.presets /\ DOMAIN oc.presets[was] = Kinds
  BY <1>1, <1>2, <1>3 DEF BodyFits
<1>5. CASE GoWith(p, "body", oc.presets[was]) /\ HasPreset(was)
  <2>1. /\ Profiling(p)' /\ Now(p)' = "read opencode" /\ Cmd(p)' = Cmd(p)
        /\ SameBut(p, "body") /\ run'[p].body = oc.presets[was]
    BY <1>1, <1>5, GoingWith DEF After
  <2>2. DOMAIN oc.presets[was] \subseteq Kinds
    BY <1>2, <1>4, <1>5 DEF OcFits, ProfilesFormed, HasPreset
  <2>3. BodyFits(p)'
    BY <1>1, <1>4, <2>1, <2>2 DEF BodyFits
  <2>4. CanUndo(p)'
    BY <1>1, <1>2, <2>1 DEF CanUndo, SameBut
  <2>5. FilesFit(p)'
    BY <1>1, <1>2, <2>1, <2>4 DEF FilesFit, Early, Saving
  <2> QED
    BY <1>3, <2>1, <2>3, <2>5 DEF Left, CallFits, ChoiceFits, TextFits, Saving, AtAgents
<1>6. CASE GoTo(p, "restore") /\ ~(HasPreset(was) /\ DOMAIN oc.presets[was] # {})
  <2>1. /\ Profiling(p)' /\ Now(p)' = "restore" /\ Cmd(p)' = Cmd(p) /\ SameBut(p, "at")
    BY <1>6, GoingBack
  <2>2. c = "rewrite"
    <3>1. Kinds # {}
      BY DEF Kinds
    <3> QED
      BY <1>3, <1>4, <1>6, <3>1 DEF HasPreset
  <2>3. CanUndo(p)'
    BY <1>1, <1>2, <2>1 DEF CanUndo, SameBut
  <2>4. FilesFit(p)'
    BY <1>1, <1>2, <2>1, <2>2, <2>3 DEF FilesFit, Early, Saving
  <2> QED
    BY <2>1, <2>2, <2>4 DEF Left, CallFits, ChoiceFits, BodyFits, TextFits, Saving, AtAgents
<1> QED
  BY <1>5, <1>6 DEF ReadProfile

(* So are the agents, if they can be read.                                 *)
LEMMA ReadOpencodeKeeps ==
  ASSUME NEW p \in Procs, Turn(p), ReadOpencode(p)
  PROVE  Left(p)
<1> DEFINE c == Cmd(p).name
<1>1. Now(p) = "read opencode" /\ settings' = settings /\ before' = before
      /\ backups' = backups
  BY AtNow DEF ReadOpencode, Quietly, profileVars
<1>2. /\ BodyFits(p) /\ CanUndo(p)
      /\ OcFits(before, settings) /\ OpencodeFits(before, settings)
  BY <1>1 DEF Turn, CallFits, FilesFit, Early
<1>3. c \in {"inline", "pick", "rewrite"}
  BY <1>1, WhoIsAt
<1>4. CASE Broken(settings, "opencode") /\ GoTo(p, "restore")
  <2>1. /\ Profiling(p)' /\ Now(p)' = "restore" /\ Cmd(p)' = Cmd(p) /\ SameBut(p, "at")
    BY <1>4, GoingBack
  <2>2. CanUndo(p)'
    BY <1>1, <1>2, <2>1 DEF CanUndo, SameBut
  <2>3. AgentsFollow(settings)
    BY <1>4 DEF AgentsFollow, Broken, Readable
  <2>4. FilesFit(p)'
    BY <1>1, <1>2, <2>1, <2>2, <2>3 DEF FilesFit, Early, Saving
  <2> QED
    BY <2>1, <2>4 DEF Left, CallFits, ChoiceFits, BodyFits, TextFits, Saving, AtAgents
<1>5. CASE ~Broken(settings, "opencode") /\ GoWith(p, "text", CurrentAgents)
  <2>1. /\ Profiling(p)' /\ Now(p)' = "empty opencode" /\ Cmd(p)' = Cmd(p)
        /\ SameBut(p, "text") /\ run'[p].text = CurrentAgents
    BY <1>1, <1>5, GoingWith DEF After
  <2>2. Readable(settings, "opencode") /\ CurrentAgents = settings.opencode
    BY <1>2, <1>5 DEF OpencodeFits, Broken, Readable, CurrentAgents
  <2>3. AgentsFormed(before, run'[p].text)
    BY <1>2, <2>1, <2>2 DEF OpencodeFits
  <2>4. BodyFits(p)'
    BY <1>1, <1>2, <1>3, <2>1 DEF BodyFits, SameBut, AtAgents
  <2>5. CanUndo(p)'
    BY <1>1, <1>2, <2>1 DEF CanUndo, SameBut
  <2>6. FilesFit(p)'
    BY <1>1, <1>2, <2>1, <2>5 DEF FilesFit, Early, Saving
  <2>7. TextFits(p)'
    BY <1>1, <1>3, <2>1, <2>3 DEF TextFits
  <2> QED
    BY <1>3, <2>1, <2>4, <2>6, <2>7 DEF Left, CallFits, ChoiceFits, Saving
<1> QED
  BY <1>4, <1>5 DEF ReadOpencode

(* What is written into opencode.json follows the current profile.         *)
LEMMA FillOpencode ==
  ASSUME NEW p \in Procs, Turn(p), Fill(p, "opencode")
  PROVE  Left(p)
<1> DEFINE c == Cmd(p).name  new == NewContent(p, "opencode")
           text == run[p].text  body == run[p].body
<1>1. /\ Now(p) = "fill opencode" /\ settings' = Put(settings, "opencode", new)
      /\ before' = before /\ Stop(p)
  BY AtNow DEF Fill, StepsOn
<1>2. /\ BodyFits(p) /\ TextFits(p) /\ OcFits(before, settings)
  BY DEF Turn, CallFits, FilesFit
<1>3. c \in {"inline", "pick", "rewrite", "allow"} /\ (Is(p, {"allow"}) <=> c = "allow")
  BY WhoIsAt DEF Is, Turn, Profiling, Running
<1>4. /\ AgentsFormed(before, text)
      /\ c # "allow" => /\ Readable(settings, "oc") /\ DOMAIN body \subseteq Kinds
                        /\ body = settings.oc.presets[settings.oc.current]
      /\ c = "allow" /\ Readable(settings, "oc") =>
           Obey(text.agent, settings.oc.presets[settings.oc.current])
  BY <1>1, <1>2 DEF BodyFits, TextFits, AtAgents
<1>5. /\ DOMAIN new = DOMAIN text
      /\ new.agent = IF c = "allow" THEN text.agent ELSE ModelsOf(text.agent, body)
  <2>1. {"agent", "allowed"} \subseteq DOMAIN text
    BY <1>4 DEF AgentsFormed
  <2>2. CASE c = "allow"
    BY <1>3, <2>1, <2>2 DEF NewContent
  <2>3. CASE c # "allow"
    BY <1>3, <2>1, <2>3 DEF NewContent
  <2> QED
    BY <2>2, <2>3
<1> HIDE DEF new
<1>6. AgentsFormed(before, new)
  <2>1. CASE c = "allow"
    BY <1>4, <1>5, <2>1 DEF AgentsFormed
  <2>2. CASE c # "allow"
    <3>1. DOMAIN UsersOf(before.opencode.agent) \cap Kinds = {}
      BY DEF UsersOf
    <3>2. Obey(text.agent, UsersOf(before.opencode.agent))
      BY <1>4 DEF AgentsFormed
    <3>3. Obey(ModelsOf(text.agent, body), UsersOf(before.opencode.agent))
      BY <1>4, <2>2, <3>1, <3>2 DEF Obey, ModelsOf
    <3> QED
      BY <1>4, <1>5, <2>2, <3>3 DEF AgentsFormed
  <2> QED
    BY <2>1, <2>2
<1>7. Obey(ModelsOf(text.agent, body), body)
  BY DEF Obey, ModelsOf
<1>8. Readable(settings, "oc") =>
        Obey(new.agent, settings.oc.presets[settings.oc.current])
  BY <1>4, <1>5, <1>7
<1>9. /\ "opencode" \in DOMAIN settings' /\ settings'["opencode"] = new
      /\ SameFile(settings, settings', "oc")
  BY <1>1, PutSays
<1>10. Readable(settings', "oc") => Readable(settings, "oc") /\ settings'.oc = settings.oc
  BY <1>9 DEF SameFile, Readable
<1>11. OcFits(before, settings')
  BY <1>2, <1>9, SameFits
<1>12. settings'.opencode = new
  BY <1>9
<1>13. OpencodeFits(before, settings') /\ AgentsFollow(settings')
  BY <1>6, <1>8, <1>9, <1>10, <1>12 DEF OpencodeFits, AgentsFollow
<1> QED
  BY <1>1, <1>11, <1>13, EndsWell DEF AllFits

(* A write that fails leaves what was there, or something to put back.     *)
LEMMA FailureKeeps ==
  ASSUME NEW p \in Procs, NEW file \in {"oc", "opencode"}, Turn(p), WriteFails(p, file),
         faults \in Nat
  PROVE  Left(p)
<1> DEFINE c == Cmd(p).name
<1>1. /\ settings' = settings /\ before' = before /\ backups' = backups
      /\ faults' = faults + 1
      /\ Now(p) \in IF file = "oc" THEN {"empty oc", "fill oc"} ELSE AtAgents
  <2>1. Now(p) \in {StepsOn(file).empty, StepsOn(file).fill}
    BY AtNow DEF WriteFails
  <2> QED
    BY <2>1 DEF StepsOn, AtAgents, WriteFails, profileVars, Fault
<1>2. /\ OcFits(before, settings) /\ OpencodeFits(before, settings) /\ CanUndo(p)
      /\ file = "oc" => AgentsFollow(settings)
  BY <1>1 DEF Turn, CallFits, FilesFit, Early, AtAgents
<1>3. CASE file = "oc"
  BY <1>1, <1>2, <1>3, EndsWell DEF WriteFails, AllFits
<1>4. CASE file = "opencode"
  <2>1. /\ Profiling(p)' /\ Now(p)' = "restore" /\ Cmd(p)' = Cmd(p) /\ SameBut(p, "at")
    <3>1. GoTo(p, "restore")
      BY <1>4 DEF WriteFails
    <3> QED
      BY <3>1, GoingBack
  <2>2. faults' # 0
    <3>1. faults' = faults + 1
      BY DEF WriteFails, Fault
    <3>2. \A n \in Nat : n + 1 # 0
      OBVIOUS
    <3> QED
      BY <3>1, <3>2, Zenon
  <2>3. Readable(before', "oc")
    BY <2>2 DEF Turn, Unhindered
  <2>4. run[p].kept # Nothing
    BY <1>1, <1>2, <2>3 DEF CanUndo
  <2>5. CanUndo(p)'
    BY <1>1, <1>2, <2>1 DEF CanUndo, SameBut
  <2>6. FilesFit(p)'
    BY <1>1, <1>2, <2>1, <2>4, <2>5 DEF FilesFit, Early, Saving, SameBut
  <2> QED
    BY <2>1, <2>6 DEF Left, CallFits, ChoiceFits, BodyFits, TextFits, Saving, AtAgents
<1> QED
  BY <1>3, <1>4

(* What was kept goes back.                                                *)
LEMMA RestoreKeeps ==
  ASSUME NEW p \in Procs, Turn(p), Restore(p)
  PROVE  Left(p)
<1>1. /\ Now(p) = "restore" /\ before' = before /\ Stop(p)
      /\ settings' = Undone(settings, run[p].kept, backups)
  BY AtNow DEF Restore, Undone
<1>2. /\ OcFits(before, settings) /\ OpencodeFits(before, settings) /\ CanUndo(p)
      /\ run[p].kept = Nothing => AgentsFollow(settings)
  BY <1>1 DEF Turn, CallFits, FilesFit, Early
<1>3. AllFits(before, settings')
  BY <1>1, <1>2 DEF AllFits, CanUndo, Undone
<1> QED
  BY <1>1, <1>3, EndsWell

(* Each step of a call leaves what the next one needs.                     *)
LEMMA ProfileStepKeeps ==
  ASSUME NEW p \in Procs, Turn(p), ProfileStep(p), faults \in Nat
  PROVE  Left(p)
<1>1. CASE \/ LookAtProfile(p) \/ ReadProfiles(p) \/ FetchCatalog(p) \/ ReadPermission(p)
           \/ LookAtOpencode(p)
  BY <1>1, EarlyKeeps
<1>2. CASE ReadProfile(p) \/ ReadOpencode(p) \/ Restore(p)
  BY <1>2, ReadProfileKeeps, ReadOpencodeKeeps, RestoreKeeps
<1>3. ASSUME NEW file \in {"oc", "opencode"},
             CreateBackup(p, file) \/ Empty(p, file) \/ Fill(p, file) \/ WriteFails(p, file)
      PROVE  Left(p)
  BY <1>3, BackupKeeps, EmptyKeeps, FillOc, FillOpencode, FailureKeeps
<1> QED
  BY <1>1, <1>2, <1>3 DEF ProfileStep

(* No two calls on the profiles run at the same time.                      *)
LEMMA OnlyOne ==
  ASSUME TogetherFits, Apart(ProfileCommands, ProfileCommands),
         NEW p \in Procs, NEW q \in Procs, Profiling(p), Profiling(q)
  PROVE  p = q
<1> SUFFICES ASSUME p # q PROVE FALSE
  OBVIOUS
<1>1. Related(Cmd(p).name, Cmd(q).name)
  BY DEF Related, Profiling
<1>2. {p, q} \in together
  BY <1>1 DEF TogetherFits, Profiling
<1> QED
  BY <1>2 DEF Apart, Is, Profiling, Running

(* The same, after a step.                                                 *)
LEMMA OnlyOneAfter ==
  ASSUME TogetherFits', Apart(ProfileCommands, ProfileCommands)',
         NEW p \in Procs, NEW q \in Procs, Profiling(p)', Profiling(q)'
  PROVE  p = q
<1> SUFFICES ASSUME p # q PROVE FALSE
  OBVIOUS
<1>1. Related(Cmd(p).name, Cmd(q).name)'
  BY DEF Related, Profiling
<1>2. {p, q} \in together'
  BY <1>1 DEF TogetherFits, Profiling
<1> QED
  BY <1>2 DEF Apart, Is, Profiling, Running

(* A call that does not move keeps what it has, if nobody writes.          *)
LEMMA OthersFit ==
  ASSUME NEW q \in Procs, run'[q] = run[q], killed' = killed, UNCHANGED profileVars
  PROVE  Profiling(q)' = Profiling(q) /\ (CallFits(q) => CallFits(q)')
<1>1. /\ Cmd(q)' = Cmd(q) /\ Now(q)' = Now(q) /\ Profiling(q)' = Profiling(q)
      /\ settings' = settings /\ before' = before /\ backups' = backups
  BY DEF Cmd, Now, Profiling, Running, Started, Steps, profileVars
<1>2. /\ ChoiceFits(q) => ChoiceFits(q)'
      /\ BodyFits(q) => BodyFits(q)'
      /\ TextFits(q) => TextFits(q)'
  BY <1>1 DEF ChoiceFits, BodyFits, TextFits
<1>3. CanUndo(q) => CanUndo(q)'
  BY <1>1 DEF CanUndo
<1>4. FilesFit(q) => FilesFit(q)'
  BY <1>1, <1>3 DEF FilesFit
<1> QED
  BY <1>1, <1>2, <1>4 DEF CallFits

(* A call begins where the files are as they are to be.                    *)
LEMMA ProfileCall ==
  ASSUME Formed, NEW p \in Procs, Opens(p), Cmd(p).name \in ProfileCommands,
         killed = {}, run[p].kept = Nothing
  PROVE  Profiling(p)' /\ (AllFits(before, settings) => CallFits(p)')
<1> DEFINE c == Cmd(p).name
<1>1. /\ DOMAIN run = Procs /\ DOMAIN run[p] = Fields /\ run[p].at = 0
      /\ run' = [run EXCEPT ![p].at = @ + 1] /\ killed' = killed
      /\ settings' = settings /\ before' = before /\ backups' = backups
  BY DEF Formed, CallFormed, Opens, Call, Go, profileVars
<1>2. run'[p].at = 1 /\ run'[p].cmd = run[p].cmd /\ run'[p].kept = Nothing
  BY <1>1, FieldsAre
<1>3. /\ c \in {"inline", "pick", "rewrite", "allow"}
      /\ Chain(c, Program[c], StepsOf(c), FirstOf(c), "restore")
  BY ProfileChain
<1>4. Cmd(p)' = Cmd(p) /\ Steps(p)' = Program[c] /\ Now(p)' = Program[c][1]
  BY <1>2 DEF Cmd, Steps, Now
<1>5. Now(p)' = FirstOf(c) /\ 1 <= Len(Program[c]) /\ 1 > 0
  <2>1. Len(Program[c]) > 0 /\ Len(Program[c]) \in Nat /\ Program[c][1] = FirstOf(c)
    BY <1>3 DEF Chain
  <2>2. \A n \in Nat : n > 0 => 1 <= n
    OBVIOUS
  <2>3. 1 > 0
    OBVIOUS
  <2> QED
    BY <1>4, <2>1, <2>2, <2>3, Zenon
<1>6. Profiling(p)'
  BY <1>1, <1>2, <1>4, <1>5 DEF Profiling, Running, Started
<1>7. Now(p)' \in {"fetch catalog", "look at profile", "look at opencode", "read permission"}
      /\ (Now(p)' = "fetch catalog" => c = "inline")
  BY <1>3, <1>5 DEF FirstOf
<1>8. AllFits(before, settings) => FilesFit(p)'
  <2>1. Now(p)' \in Early /\ Now(p)' \notin Saving /\ Now(p)' \notin {"restore", "read profile"}
    BY <1>7 DEF Early, Saving
  <2> QED
    BY <1>1, <1>2, <2>1 DEF FilesFit, AllFits
<1>9. ChoiceFits(p)' /\ BodyFits(p)' /\ TextFits(p)'
  BY <1>4, <1>7 DEF ChoiceFits, BodyFits, TextFits, Saving, AtAgents
<1> QED
  BY <1>6, <1>8, <1>9 DEF CallFits

(* What the files said at the start is only remembered.                    *)
LEMMA BeforeStays ==
  ASSUME NEW p \in Procs, ProfileStep(p)
  PROVE  before' = before
BY DEF ProfileStep, LookAtProfile, ReadProfiles, FetchCatalog, ReadProfile, ReadOpencode,
   ReadPermission, LookAtOpencode, Restore, CreateBackup, Empty, Fill, WriteFails, Quietly,
   profileVars

(* Every step keeps the profiles and the agents together.                  *)
LEMMA ProfileInvStep ==
  ASSUME LockInv, ProfileInv, [Next]_vars
  PROVE  ProfileInv'
<1>0. Formed /\ TogetherFits /\ faults \in Nat
      /\ \A q \in Procs : run[q].at = 0 => run[q].kept = Nothing
  BY DEF LockInv, ProfileInv
<1>1. /\ TogetherFits'
      /\ Apart(ProfileCommands, ProfileCommands)' => Apart(ProfileCommands, ProfileCommands)
  BY <1>0, TogetherStep
<1> DEFINE Others(p) == \A q \in Procs \ {p} : run'[q] = run[q]
           Fitting == /\ (\A q \in Procs : ~Profiling(q)) => AllFits(before, settings)
                      /\ \A q \in Procs : Profiling(q) => CallFits(q)
           Early0 == \A q \in Procs : run[q].at = 0 => run[q].kept = Nothing
<1>2. ASSUME faults' = faults \/ Fault, before' = before, killed \subseteq killed'
      PROVE  faults' \in Nat /\ (Unhindered' => Unhindered /\ Fitting)
  <2>1. faults' \in Nat /\ (faults' = 0 => faults = 0)
    <3>1. faults' = faults \/ faults' = faults + 1
      BY <1>2 DEF Fault
    <3> QED
      BY <1>0, <3>1
  <2>2. Unhindered' => Unhindered
    <3>1. killed' = {} => killed = {}
      BY <1>2
    <3> QED
      BY <1>1, <1>2, <2>1, <3>1 DEF Unhindered
  <2> QED
    BY <2>1, <2>2 DEF ProfileInv
<1>3. ASSUME \A q \in Procs : run'[q] = run[q] \/ run'[q].at # 0 PROVE Early0'
  BY <1>0, <1>3
<1>4. ASSUME faults' \in Nat, Early0', Unhindered' => Fitting' PROVE ProfileInv'
  BY <1>1, <1>4 DEF ProfileInv
<1> HIDE DEF Early0, Fitting
<1>5. CASE Resting
  <2>1. /\ run' = run /\ faults' = faults /\ killed \subseteq killed' /\ UNCHANGED profileVars
        /\ before' = before /\ settings' = settings
    BY <1>5 DEF Resting, profileVars
  <2>2. ASSUME Unhindered' PROVE Fitting'
    <3>1. killed' = killed /\ Fitting
      BY <1>2, <2>1, <2>2 DEF Unhindered
    <3>2. \A q \in Procs : Profiling(q)' = Profiling(q) /\ (CallFits(q) => CallFits(q)')
      BY <2>1, <3>1, OthersFit
    <3> QED
      BY <2>1, <3>1, <3>2 DEF Fitting
  <2> QED
    BY <1>2, <1>3, <1>4, <2>1, <2>2
<1>6. ASSUME NEW p \in Procs, Opens(p) PROVE ProfileInv'
  <2>1. /\ Others(p) /\ faults' = faults /\ killed' = killed /\ UNCHANGED profileVars
        /\ before' = before /\ settings' = settings /\ run[p].at = 0
        /\ run' = [run EXCEPT ![p].at = @ + 1]
    BY <1>0, <1>6 DEF Opens, Call, Go, Formed, profileVars
  <2>2. run'[p].at # 0 /\ run'[p].cmd = run[p].cmd /\ ~Profiling(p)
    <3>1. DOMAIN run = Procs /\ DOMAIN run[p] = Fields
      BY <1>0 DEF Formed, CallFormed
    <3>2. run'[p].at = 1 /\ run'[p].cmd = run[p].cmd
      BY <2>1, <3>1, FieldsAre
    <3>3. ~Profiling(p)
      BY <2>1 DEF Profiling, Running, Started
    <3> QED
      BY <3>2, <3>3
  <2>3. ASSUME Unhindered' PROVE Fitting'
    <3>1. Unhindered /\ Fitting
      BY <1>2, <2>1, <2>3
    <3>2. \A q \in Procs \ {p} :
            Profiling(q)' = Profiling(q) /\ (CallFits(q) => CallFits(q)')
      BY <2>1, OthersFit
    <3>3. CASE Cmd(p).name \notin ProfileCommands
      <4>1. ~Profiling(p)'
        BY <2>2, <3>3 DEF Profiling, Cmd
      <4> QED
        BY <2>1, <2>2, <3>1, <3>2, <4>1 DEF Fitting
    <3>4. CASE Cmd(p).name \in ProfileCommands
      <4>0. killed = {} /\ run[p].kept = Nothing
        BY <1>0, <2>1, <3>1 DEF Unhindered
      <4>1. Profiling(p)' /\ (AllFits(before, settings) => CallFits(p)')
        BY <1>0, <1>6, <3>4, <4>0, ProfileCall
      <4>2. \A q \in Procs \ {p} : ~Profiling(q)'
        BY <1>1, <2>3, <4>1, OnlyOneAfter DEF Unhindered
      <4>3. AllFits(before, settings)
        BY <2>2, <3>1, <3>2, <4>2 DEF Fitting
      <4> QED
        BY <3>2, <4>1, <4>2, <4>3 DEF Fitting
    <3> QED
      BY <3>3, <3>4
  <2> QED
    BY <1>2, <1>3, <1>4, <2>1, <2>2, <2>3
<1>7. ASSUME NEW p \in Procs, Acts(p) PROVE ProfileInv'
  <2>1. /\ Running(p) /\ Others(p) /\ killed' = killed /\ run'[p].cmd = run[p].cmd
        /\ run'[p].at # 0 /\ (faults' = faults \/ Fault)
    BY <1>7 DEF Acts, OneMoves, NotesKept
  <2>2. CASE Cmd(p).name \notin ProfileCommands
    <3>1. UNCHANGED profileVars /\ before' = before /\ settings' = settings
      BY <1>7, <2>2 DEF Acts, profileVars
    <3>2. ~Profiling(p) /\ ~Profiling(p)'
      BY <2>1, <2>2 DEF Profiling, Cmd
    <3>3. \A q \in Procs \ {p} :
            Profiling(q)' = Profiling(q) /\ (CallFits(q) => CallFits(q)')
      BY <2>1, <3>1, OthersFit
    <3>4. Fitting => Fitting'
      BY <3>1, <3>2, <3>3 DEF Fitting
    <3> QED
      BY <1>2, <1>3, <1>4, <2>1, <3>1, <3>4
  <2>3. CASE Cmd(p).name \in ProfileCommands
    <3>1. ProfileStep(p) /\ Profiling(p)
      BY <1>7, <2>1, <2>3 DEF Acts, Profiling
    <3>2. before' = before
      BY <3>1, BeforeStays
    <3>3. ASSUME Unhindered' PROVE Fitting'
      <4>1. Unhindered /\ Fitting
        BY <1>2, <2>1, <3>2, <3>3
      <4>2. CallFits(p)
        BY <3>1, <4>1 DEF Fitting
      <4>3. Turn(p)
        BY <1>0, <2>1, <3>1, <3>2, <3>3, <4>1, <4>2 DEF Turn
      <4>4. Left(p)
        BY <1>0, <3>1, <4>3, ProfileStepKeeps
      <4>5. \A q \in Procs \ {p} : ~Profiling(q)
        BY <1>0, <3>1, <4>1, OnlyOne DEF Unhindered
      <4>6. \A q \in Procs \ {p} : ~Profiling(q)'
        <5>1. \A q \in Procs \ {p} : Profiling(q)' = Profiling(q)
          BY <2>1 DEF Profiling, Running, Started, Steps, Cmd
        <5> QED
          BY <4>5, <5>1
      <4> QED
        BY <4>4, <4>6 DEF Left, Fitting
    <3> QED
      BY <1>2, <1>3, <1>4, <2>1, <3>2, <3>3
  <2> QED
    BY <2>2, <2>3
<1> QED
  BY <1>5, <1>6, <1>7, StepsOfCalls

(* It holds before anything is called.                                     *)
LEMMA ProfileInvInit == Init => ProfileInv
<1> SUFFICES ASSUME Init PROVE ProfileInv
  OBVIOUS
<1>1. PICK w \in Sessions : ProfileInit(w.profiles) /\ ProcessInit(w.calls)
  BY DEF Init
<1>2. faults \in Nat /\ \A p \in Procs : run[p].at = 0 /\ run[p].kept = Nothing
  BY <1>1 DEF ProcessInit, ToCall
<1>3. \A p \in Procs : ~Running(p) /\ ~Profiling(p)
  BY <1>2 DEF Running, Started, Profiling
<1>4. ASSUME Unhindered PROVE AllFits(before, settings)
  <2>1. settings = w.profiles /\ before = w.profiles /\ Readable(w.profiles, "opencode")
    BY <1>1, <1>4 DEF ProfileInit, Unhindered
  <2>2. OcFits(w.profiles, w.profiles)
    <3>1. Readable(w.profiles, "oc") => "oc" \in DOMAIN w.profiles
      BY DEF Readable
    <3>2. Readable(w.profiles, "oc") => ProfilesFormed(w.profiles.oc)
      BY SessionsAssumption DEF ProfilesFormed
    <3> QED
      BY <3>1, <3>2 DEF OcFits
  <2>3. OpencodeFits(w.profiles, w.profiles)
    <3>1. "opencode" \in DOMAIN w.profiles
      BY <2>1 DEF Readable
    <3>2. {"agent", "allowed"} \subseteq DOMAIN w.profiles.opencode
      BY <2>1, SessionsAssumption
    <3>3. Obey(w.profiles.opencode.agent, UsersOf(w.profiles.opencode.agent))
      BY DEF Obey, UsersOf
    <3> QED
      BY <3>1, <3>2, <3>3 DEF OpencodeFits, AgentsFormed
  <2>4. AgentsFollow(w.profiles)
    BY SessionsAssumption
  <2> QED
    BY <2>1, <2>2, <2>3, <2>4 DEF AllFits
<1>5. TogetherFits
  BY <1>3 DEF TogetherFits
<1> QED
  BY <1>2, <1>3, <1>4, <1>5 DEF ProfileInv

(* After calls that did not overlap and were not killed, gsd's agents run  *)
(* on the models of the current profile and the user's on their own,       *)
(* whatever writes have failed, for any number of calls, profiles and      *)
(* models.                                                                 *)
THEOREM AgentsAreServed == Spec => []AgentsFollowTheProfile
<1>1. ProfileInv => AgentsFollowTheProfile
  <2> SUFFICES ASSUME ProfileInv, Unhindered, Quiet, Readable(settings, "opencode")
               PROVE  /\ AgentsFollow(settings)
                      /\ Obey(settings.opencode.agent, UsersOf(before.opencode.agent))
    BY DEF AgentsFollowTheProfile, Unhindered
  <2>1. \A p \in Procs : ~Profiling(p)
    BY DEF Quiet, Profiling
  <2>2. AllFits(before, settings)
    BY <2>1 DEF ProfileInv
  <2> QED
    BY <2>2 DEF AllFits, OpencodeFits, AgentsFormed
<1>2. Init => ProfileInv
  BY ProfileInvInit
<1>3. LockInv /\ ProfileInv /\ [Next]_vars => ProfileInv'
  BY ProfileInvStep
<1> QED
  BY <1>1, <1>2, <1>3, LocksAreOwned, PTL DEF Spec
-----------------------------------------------------------------------------
(***************************************************************************)
(* What was set in config.json.                                            *)
(***************************************************************************)
\* The steps after which health knows what to mend, and those of a migration.
Mending   == {"back up state", "lock state", "regenerate state", "unlock state", "repair",
              "truncate config", "fill config"}
Migrating == {"look for work", "look for target", "make target", "look", "move", "undo",
              "discard"}

\* Those in which health makes a STATE.md that was not there.
Regenerating == {"back up state", "lock state", "regenerate state"}

\* In the command c the step y may come next after x, as far as settings and
\* STATE.md go.
Follows(c, x, y) ==
  /\ y = "write config" => x = "read config"
  /\ y = "fill config" <=> x = "truncate config"
  /\ y = "truncate config" => x \in {"load config", "repair"}
  /\ y = "write defaults" => x = IF c = "new" THEN "make scope" ELSE "look for config"
  /\ c = "new" /\ y = "make scope" => x = "look for config"
  /\ c # "new" /\ x = "look for config" => y = "write defaults"
  /\ x = "route" => y = "heal"
  /\ x = "look for state" => y = "write new state"
  /\ c = "health" /\ y \in Mending => x \in Mending \cup {"inspect"}
  /\ c = "health" /\ y \in Regenerating => x \in {"inspect", "back up state", "lock state"}
  /\ c = "create" /\ y \in Migrating => x \in Migrating \cup {"look for mode"}
  /\ c = "create" /\ y = "move" => x = "look"
  /\ y = "unlock planning" => c \in {"set", "profile"}

\* The steps s follow each other so, from x to y.
Linked(c, s, x, y) ==
  /\ \E X : s \in Seq(X)
  /\ Len(s) \in Nat \ {0} /\ s[1] = x /\ s[Len(s)] = y
  /\ \A i \in 1 .. Len(s) - 1 : Follows(c, s[i], s[i + 1])

(* Two blocks that follow each other.                                      *)
LEMMA LinkedJoin ==
  ASSUME NEW c, NEW s, NEW t, NEW x, NEW y, NEW z, NEW w,
         Linked(c, s, x, y), Linked(c, t, z, w), Follows(c, y, z)
  PROVE  Linked(c, s \o t, x, w)
<1> DEFINE e == s \o t
<1>0. PICK X, Y : s \in Seq(X) /\ t \in Seq(Y)
  BY DEF Linked
<1>1. /\ e \in Seq(X \cup Y) /\ Len(e) = Len(s) + Len(t)
      /\ \A i \in 1 .. Len(s) : e[i] = s[i]
      /\ \A i \in 1 .. Len(t) : e[Len(s) + i] = t[i]
  BY <1>0, JoinPlaces
<1>2. Len(s) \in Nat \ {0} /\ Len(t) \in Nat \ {0}
  BY DEF Linked
<1> HIDE DEF e
<1>3. Len(e) \in Nat \ {0} /\ e[1] = x /\ e[Len(e)] = w
  <2>1. 1 \in 1 .. Len(s) /\ Len(t) \in 1 .. Len(t) /\ Len(e) \in Nat \ {0}
    BY <1>1, <1>2
  <2>2. e[1] = s[1] /\ e[Len(e)] = t[Len(t)]
    BY <1>1, <2>1
  <2> QED
    BY <2>1, <2>2, Zenon DEF Linked
<1>4. ASSUME NEW i \in 1 .. Len(e) - 1 PROVE Follows(c, e[i], e[i + 1])
  <2>1. \/ i \in 1 .. Len(s) - 1 /\ i \in 1 .. Len(s) /\ i + 1 \in 1 .. Len(s)
        \/ i = Len(s) /\ i \in 1 .. Len(s) /\ 1 \in 1 .. Len(t)
        \/ \E j \in 1 .. Len(t) - 1 :
             /\ i = Len(s) + j /\ i + 1 = Len(s) + (j + 1)
             /\ j \in 1 .. Len(t) /\ j + 1 \in 1 .. Len(t)
    <3>1. i \in Int /\ i <= Len(s) + Len(t) - 1 /\ i >= 1
      BY <1>1, <1>2
    <3>2. CASE i <= Len(s)
      BY <1>2, <3>1, <3>2
    <3>3. CASE i > Len(s)
      <4>1. i - Len(s) \in 1 .. Len(t) - 1 /\ i = Len(s) + (i - Len(s))
            /\ i + 1 = Len(s) + ((i - Len(s)) + 1)
            /\ (i - Len(s)) \in 1 .. Len(t) /\ (i - Len(s)) + 1 \in 1 .. Len(t)
        BY <1>2, <3>1, <3>3
      <4> QED
        BY <4>1
    <3> QED
      BY <1>2, <3>1, <3>2, <3>3
  <2>2. CASE i \in 1 .. Len(s) - 1 /\ i \in 1 .. Len(s) /\ i + 1 \in 1 .. Len(s)
    <3>1. e[i + 1] = s[i + 1] /\ e[i] = s[i]
      BY <1>1, <2>2
    <3> QED
      BY <2>2, <3>1, Zenon DEF Linked
  <2>3. CASE i = Len(s) /\ i \in 1 .. Len(s) /\ 1 \in 1 .. Len(t)
    <3>1. e[i + 1] = t[1] /\ e[i] = s[Len(s)]
      BY <1>1, <2>3
    <3> QED
      BY <3>1, Zenon DEF Linked
  <2>4. ASSUME NEW j \in 1 .. Len(t) - 1, i = Len(s) + j, i + 1 = Len(s) + (j + 1),
               j \in 1 .. Len(t), j + 1 \in 1 .. Len(t)
        PROVE  Follows(c, e[i], e[i + 1])
    <3>1. e[i + 1] = t[j + 1] /\ e[i] = t[j]
      BY <1>1, <2>4
    <3> QED
      BY <2>4, <3>1, Zenon DEF Linked
  <2> QED
    BY <2>1, <2>2, <2>3, <2>4
<1> QED
  BY <1>1, <1>3, <1>4 DEF Linked, e

(* The steps of workstream create follow each other.                       *)
LEMMA CreateLinks == Linked("create", SpaceProgram["create"], "look for stream", "point")
<1> DEFINE s == SpaceProgram["create"]
<1>1. /\ \E X : s \in Seq(X)
      /\ Len(s) = 14
      /\ s[1] = "look for stream" /\ s[2] = "look for mode" /\ s[3] = "look for work"
      /\ s[4] = "look for target" /\ s[5] = "make target" /\ s[6] = "look"
      /\ s[7] = "move" /\ s[8] = "undo" /\ s[9] = "discard"
      /\ s[10] = "drop workstreams" /\ s[11] = "make stream" /\ s[12] = "look for state"
      /\ s[13] = "write new state" /\ s[14] = "point"
  <2>1. s \in Seq({"look for stream", "look for mode", "look for work", "look for target",
                   "make target", "look", "move", "undo", "discard", "drop workstreams",
                   "make stream", "look for state", "write new state", "point"})
    BY DEF SpaceProgram
  <2> QED
    BY <2>1 DEF SpaceProgram
<1>2. 14 \in Nat \ {0} /\ \A i \in 1 .. 14 - 1 :
        \/ (i = 1 /\ i + 1 = 2)
        \/ (i = 2 /\ i + 1 = 3)
        \/ (i = 3 /\ i + 1 = 4)
        \/ (i = 4 /\ i + 1 = 5)
        \/ (i = 5 /\ i + 1 = 6)
        \/ (i = 6 /\ i + 1 = 7)
        \/ (i = 7 /\ i + 1 = 8)
        \/ (i = 8 /\ i + 1 = 9)
        \/ (i = 9 /\ i + 1 = 10)
        \/ (i = 10 /\ i + 1 = 11)
        \/ (i = 11 /\ i + 1 = 12)
        \/ (i = 12 /\ i + 1 = 13)
        \/ (i = 13 /\ i + 1 = 14)
  OBVIOUS
<1> HIDE DEF s
<1>3. /\ Follows("create", s[1], s[2]) /\ Follows("create", s[2], s[3])
      /\ Follows("create", s[3], s[4]) /\ Follows("create", s[4], s[5])
      /\ Follows("create", s[5], s[6]) /\ Follows("create", s[6], s[7])
      /\ Follows("create", s[7], s[8]) /\ Follows("create", s[8], s[9])
      /\ Follows("create", s[9], s[10]) /\ Follows("create", s[10], s[11])
      /\ Follows("create", s[11], s[12]) /\ Follows("create", s[12], s[13])
      /\ Follows("create", s[13], s[14])
  BY <1>1 DEF Follows, Mending, Regenerating, Migrating
<1>4. Len(s) = 14
  BY <1>1
<1>5. ASSUME NEW i \in 1 .. 14 - 1 PROVE Follows("create", s[i], s[i + 1])
  BY <1>2, <1>3
<1>6. \A i \in 1 .. Len(s) - 1 : Follows("create", s[i], s[i + 1])
  BY <1>4, <1>5, Zenon
<1> QED
  BY <1>1, <1>2, <1>4, <1>6, Zenon DEF Linked, s

(* So do those of workstream complete and of workstream set.               *)
LEMMA FinishLinks ==
  /\ Linked("finish", SpaceProgram["finish"], "look for stream", "drop workstreams")
  /\ Linked("switch", SpaceProgram["switch"], "look for stream", "point")
<1> DEFINE s == SpaceProgram["finish"]  t == SpaceProgram["switch"]
           X == {"look for stream", "unpoint", "pick archive", "make archive",
                 "list entries", "move", "undo", "discard", "point", "remove stream",
                 "drop workstreams"}
<1>1. /\ s \in Seq(X) /\ Len(s) = 11 /\ s[1] = "look for stream"
      /\ s[11] = "drop workstreams"
      /\ t \in Seq(X) /\ Len(t) = 2 /\ t[1] = "look for stream" /\ t[2] = "point"
  BY DEF SpaceProgram
<1> HIDE DEF s, t
<1>2. ASSUME NEW c \in {"finish", "switch"}, NEW x \in X, NEW y \in X PROVE Follows(c, x, y)
  BY DEF Follows, Mending, Regenerating, Migrating
<1>3. \A i \in 1 .. 11 : s[i] \in X
  <2>1. s \in Seq(X)
    BY <1>1
  <2>2. Len(s) = 11
    BY <1>1
  <2> HIDE DEF X
  <2>3. \A i \in 1 .. Len(s) : s[i] \in X
    BY <2>1
  <2> QED
    BY <2>2, <2>3, Zenon
<1>4. /\ 11 \in Nat \ {0} /\ 2 \in Nat \ {0}
      /\ \A i \in 1 .. 11 - 1 : i \in 1 .. 11 /\ i + 1 \in 1 .. 11
      /\ \A i \in 1 .. 2 - 1 : i = 1 /\ i + 1 = 2
  OBVIOUS
<1>5. Len(s) = 11 /\ Len(t) = 2 /\ t[1] \in X /\ t[2] \in X
      /\ (\E Y : s \in Seq(Y)) /\ \E Y : t \in Seq(Y)
  BY <1>1
<1> HIDE DEF X
<1>6. /\ \A i \in 1 .. Len(s) - 1 : Follows("finish", s[i], s[i + 1])
      /\ \A i \in 1 .. Len(t) - 1 : Follows("switch", t[i], t[i + 1])
  BY <1>2, <1>3, <1>4, <1>5, Zenon
<1> QED
  BY <1>1, <1>4, <1>5, <1>6, Zenon DEF Linked, s, t

(* Two steps that follow each other.                                       *)
LEMMA LinkedTwo ==
  ASSUME NEW c, NEW x, NEW y, Follows(c, x, y)
  PROVE  Linked(c, <<x, y>>, x, y)
<1> DEFINE s == <<x, y>>
<1>1. s \in Seq({x, y}) /\ Len(s) = 2 /\ s[1] = x /\ s[2] = y
  OBVIOUS
<1>2. \A i \in 1 .. 2 - 1 : i = 1 /\ i + 1 = 2
  OBVIOUS
<1> HIDE DEF s
<1>3. \A i \in 1 .. Len(s) - 1 : Follows(c, s[i], s[i + 1])
  BY <1>1, <1>2, Zenon
<1>4. Len(s) \in Nat \ {0}
  BY <1>1
<1> QED
  BY <1>1, <1>3, <1>4, Zenon DEF Linked, s

(* Three steps that follow each other.                                     *)
LEMMA LinkedThree ==
  ASSUME NEW c, NEW x, NEW y, NEW z, Follows(c, x, y), Follows(c, y, z)
  PROVE  Linked(c, <<x, y, z>>, x, z)
<1> DEFINE s == <<x, y, z>>
<1>1. s \in Seq({x, y, z}) /\ Len(s) = 3 /\ s[1] = x /\ s[2] = y /\ s[3] = z
  OBVIOUS
<1>2. \A i \in 1 .. 3 - 1 : (i = 1 /\ i + 1 = 2) \/ (i = 2 /\ i + 1 = 3)
  OBVIOUS
<1> HIDE DEF s
<1>3. \A i \in 1 .. Len(s) - 1 : Follows(c, s[i], s[i + 1])
  BY <1>1, <1>2, Zenon
<1>4. Len(s) \in Nat \ {0}
  BY <1>1
<1> QED
  BY <1>1, <1>3, <1>4, Zenon DEF Linked, s

(* So do those of the commands on config.json.                             *)
LEMMA ConfigLinks ==
  /\ Linked("ensure", SpaceProgram["ensure"], "route", "write defaults")
  /\ Linked("new", SpaceProgram["new"], "route", "write defaults")
  /\ Linked("profile", SpaceProgram["profile"], "route", "unlock planning")
  /\ Linked("set", SpaceProgram["set"], "route", "unlock planning")
  /\ Linked("load", SpaceProgram["load"], "route", "fill config")
  /\ Linked("health", SpaceProgram["health"], "route", "fill config")
<1> USE DEF Mending, Regenerating, Migrating
<1> DEFINE new == <<"look for config", "make scope", "write defaults">>
           loading == <<"load config">>
           mending == <<"inspect", "back up state", "lock state", "regenerate state",
                        "unlock state", "repair">>
<1>1. /\ SpaceProgram["ensure"] = Routing \o MakeConfig
      /\ SpaceProgram["new"] = Routing \o new
      /\ SpaceProgram["profile"] = (Routing \o MakeConfig) \o SetConfig
      /\ SpaceProgram["set"] = Routing \o SetConfig
      /\ SpaceProgram["load"] = (Routing \o loading) \o Rewrite
      /\ SpaceProgram["health"] = (Routing \o mending) \o Rewrite
  BY DEF SpaceProgram
<1>2. ASSUME NEW c PROVE Linked(c, Routing, "route", "heal")
  <2>1. Follows(c, "route", "heal")
    BY DEF Follows
  <2> QED
    BY <2>1, LinkedTwo DEF Routing
<1>3. ASSUME NEW c \in {"ensure", "profile"}
      PROVE  Linked(c, MakeConfig, "make scope", "write defaults")
  <2>1. Follows(c, "make scope", "look for config")
        /\ Follows(c, "look for config", "write defaults")
    BY DEF Follows
  <2> QED
    BY <2>1, LinkedThree DEF MakeConfig
<1>4. ASSUME NEW c \in {"set", "profile"}
      PROVE  Linked(c, SetConfig, "make scope", "unlock planning")
  <2> DEFINE s == SetConfig
  <2>1. s \in Seq({"make scope", "lock planning", "read config", "write config",
                   "unlock planning"}) /\ Len(s) = 5
        /\ s[1] = "make scope" /\ s[2] = "lock planning" /\ s[3] = "read config"
        /\ s[4] = "write config" /\ s[5] = "unlock planning"
    BY DEF SetConfig
  <2>2. 5 \in Nat \ {0} /\ \A i \in 1 .. 5 - 1 : (i = 1 /\ i + 1 = 2) \/ (i = 2 /\ i + 1 = 3)
                              \/ (i = 3 /\ i + 1 = 4) \/ (i = 4 /\ i + 1 = 5)
    OBVIOUS
  <2> HIDE DEF s
  <2>3. /\ Follows(c, s[1], s[2]) /\ Follows(c, s[2], s[3])
        /\ Follows(c, s[3], s[4]) /\ Follows(c, s[4], s[5])
    BY <2>1 DEF Follows
  <2>4. \A i \in 1 .. Len(s) - 1 : Follows(c, s[i], s[i + 1])
    BY <2>1, <2>2, <2>3, Zenon
  <2>5. Len(s) \in Nat \ {0}
    BY <2>1, <2>2, Zenon
  <2>6. Linked(c, s, "make scope", "unlock planning")
    BY <2>1, <2>4, <2>5, Zenon DEF Linked
  <2> QED
    BY <2>6 DEF s
<1>5. ASSUME NEW c \in {"load", "health"}
      PROVE  Linked(c, Rewrite, "truncate config", "fill config")
  <2>1. Follows(c, "truncate config", "fill config")
    BY DEF Follows
  <2> QED
    BY <2>1, LinkedTwo DEF Rewrite
<1>6. Linked("new", new, "look for config", "write defaults")
  <2>1. Follows("new", "look for config", "make scope")
        /\ Follows("new", "make scope", "write defaults")
    BY DEF Follows
  <2> QED
    BY <2>1, LinkedThree
<1>7. Linked("load", loading, "load config", "load config")
  <2>1. loading \in Seq({"load config"}) /\ Len(loading) = 1 /\ loading[1] = "load config"
    OBVIOUS
  <2> HIDE DEF loading
  <2>2. 1 \in Nat \ {0} /\ \A i : i \notin 1 .. 1 - 1
    OBVIOUS
  <2> QED
    BY <2>1, <2>2, Zenon DEF Linked
<1>8. Linked("health", mending, "inspect", "repair")
  <2> DEFINE s == mending
  <2>1. s \in Seq({"inspect", "back up state", "lock state", "regenerate state",
                   "unlock state", "repair"}) /\ Len(s) = 6
        /\ s[1] = "inspect" /\ s[2] = "back up state" /\ s[3] = "lock state"
        /\ s[4] = "regenerate state" /\ s[5] = "unlock state" /\ s[6] = "repair"
    OBVIOUS
  <2>2. 6 \in Nat \ {0} /\ \A i \in 1 .. 6 - 1 : (i = 1 /\ i + 1 = 2) \/ (i = 2 /\ i + 1 = 3)
                              \/ (i = 3 /\ i + 1 = 4) \/ (i = 4 /\ i + 1 = 5)
                              \/ (i = 5 /\ i + 1 = 6)
    OBVIOUS
  <2> HIDE DEF s
  <2>3. /\ Follows("health", s[1], s[2]) /\ Follows("health", s[2], s[3])
        /\ Follows("health", s[3], s[4]) /\ Follows("health", s[4], s[5])
        /\ Follows("health", s[5], s[6])
    BY <2>1 DEF Follows
  <2>4. \A i \in 1 .. Len(s) - 1 : Follows("health", s[i], s[i + 1])
    BY <2>1, <2>2, <2>3, Zenon
  <2>5. Len(s) \in Nat \ {0}
    BY <2>1, <2>2, Zenon
  <2>6. Linked("health", s, "inspect", "repair")
    BY <2>1, <2>4, <2>5, Zenon DEF Linked
  <2> QED
    BY <2>6 DEF s
<1> HIDE DEF new, loading, mending
<1>9. /\ \A c : Follows(c, "heal", "make scope") \/ c = "new"
      /\ Follows("new", "heal", "look for config")
      /\ \A c \in {"ensure", "profile"} : Follows(c, "write defaults", "make scope")
      /\ Follows("load", "heal", "load config")
      /\ Follows("load", "load config", "truncate config")
      /\ Follows("health", "heal", "inspect") /\ Follows("health", "repair", "truncate config")
  BY DEF Follows
<1>10. /\ Follows("ensure", "heal", "make scope") /\ Follows("profile", "heal", "make scope")
       /\ Follows("set", "heal", "make scope")
  BY <1>9
<1>11. /\ Linked("ensure", Routing \o MakeConfig, "route", "write defaults")
       /\ Linked("profile", Routing \o MakeConfig, "route", "write defaults")
  BY <1>2, <1>3, <1>10, LinkedJoin
<1>12. Linked("new", Routing \o new, "route", "write defaults")
  BY <1>2, <1>6, <1>9, LinkedJoin
<1>13. Linked("profile", (Routing \o MakeConfig) \o SetConfig, "route", "unlock planning")
  BY <1>4, <1>9, <1>11, LinkedJoin
<1>14. Linked("set", Routing \o SetConfig, "route", "unlock planning")
  BY <1>2, <1>4, <1>10, LinkedJoin
<1>15. /\ Linked("load", Routing \o loading, "route", "load config")
       /\ Linked("health", Routing \o mending, "route", "repair")
  BY <1>2, <1>7, <1>8, <1>9, LinkedJoin
<1>16. /\ Linked("load", (Routing \o loading) \o Rewrite, "route", "fill config")
       /\ Linked("health", (Routing \o mending) \o Rewrite, "route", "fill config")
  BY <1>5, <1>9, <1>15, LinkedJoin
<1> QED
  BY <1>1, <1>11, <1>12, <1>13, <1>14, <1>16, Zenon

Laying(p) == Running(p) /\ Cmd(p).name \in SpaceCommands

(* Each program is linked, and does not end in emptying the file.          *)
LEMMA SpaceLinks ==
  ASSUME NEW c \in SpaceCommands
  PROVE  \E x, y : /\ Linked(c, Program[c], x, y) /\ x \in {"route", "look for stream"}
                   /\ y \notin {"truncate config", "look for config"}
<1>1. c \in {"create", "finish", "switch", "ensure", "new", "profile", "set", "load", "health"}
  BY CommandsAre
<1>2. Program[c] = SpaceProgram[c]
  BY <1>1, CommandsAre DEF Program, Commands
<1>3. \E x, y : /\ Linked(c, SpaceProgram[c], x, y) /\ x \in {"route", "look for stream"}
                /\ y \in {"point", "drop workstreams", "write defaults", "unlock planning",
                          "fill config"}
  BY <1>1, CreateLinks, FinishLinks, ConfigLinks, Zenon
<1> QED
  BY <1>2, <1>3

(* Where a call on the layout or the settings is, and where it goes.       *)
LEMMA WhereSpace ==
  ASSUME Formed, NEW p \in Procs, Laying(p), run'[p].cmd = run[p].cmd, killed' = killed,
         Len(Steps(p)) \in Nat, run'[p].at \in Nat
  PROVE  LET c == Cmd(p).name IN
         /\ c \in SpaceCommands /\ Cmd(p)' = Cmd(p) /\ Steps(p)' = Steps(p)
         /\ run'[p].at = run[p].at => Now(p)' = Now(p)
         /\ run'[p].at = run[p].at + 1 /\ Laying(p)' => Follows(c, Now(p), Now(p)')
         /\ run'[p].at = run[p].at + 1 /\ Now(p) = "truncate config" => Laying(p)'
         /\ run'[p].at = run[p].at + 2 /\ Laying(p)' =>
              \E y : Follows(c, Now(p), y) /\ Follows(c, y, Now(p)')
         /\ run'[p].at = run[p].at - 1 /\ Laying(p)' => Follows(c, Now(p)', Now(p))
         /\ \A x : Occurs(c, x) /\ run'[p].at = StepNo(p, x) => Now(p)' = x
         /\ run'[p].at = Len(Steps(p)) + 1 => ~Laying(p)'
<1> DEFINE c == Cmd(p).name  s == Steps(p)  i == run[p].at  j == run'[p].at
<1>1. c \in SpaceCommands /\ i \in 1 .. Len(s) /\ s = Program[c]
  BY StepLeads DEF Laying, Steps, Cmd
<1>2. PICK x, y : /\ Linked(c, s, x, y) /\ x \in {"route", "look for stream"}
                  /\ y \notin {"truncate config", "look for config"}
  BY <1>1, SpaceLinks, Zenon
<1>3. Cmd(p)' = Cmd(p) /\ Steps(p)' = s /\ Now(p) = s[i] /\ Now(p)' = s[j]
  BY DEF Cmd, Steps, Now
<1>4. Laying(p)' <=> j > 0 /\ j <= Len(s)
  BY <1>1, <1>3 DEF Laying, Running, Started
<1>5. /\ s[Len(s)] = y /\ \A k \in 1 .. Len(s) - 1 : Follows(c, s[k], s[k + 1])
  BY <1>2 DEF Linked
<1>6. \A x1 : Occurs(c, x1) /\ j = StepNo(p, x1) => Now(p)' = x1
  <2>1. ASSUME NEW x1, Occurs(c, x1) PROVE s[StepNo(p, x1)] = x1
    <3>1. DOMAIN s = 1 .. Len(s)
      <4>1. PICK X : s \in Seq(X)
        BY <1>2, Zenon DEF Linked
      <4> QED
        BY <4>1
    <3>2. \E k \in DOMAIN s : s[k] = x1
      BY <1>1, <2>1, <3>1, Zenon DEF Occurs, Contains
    <3> QED
      BY <3>2, Zenon DEF StepNo
  <2> QED
    BY <1>3, <2>1, Zenon
<1> HIDE DEF s, i, j
<1>7. Len(s) \in Nat /\ i \in Nat /\ j \in Nat /\ i >= 1 /\ i <= Len(s)
  BY <1>1 DEF s, j
<1>8. j = i + 1 /\ j <= Len(s) => Follows(c, s[i], s[j])
  BY <1>5, <1>7
<1>9. j = i + 1 /\ s[i] = "truncate config" => j > 0 /\ j <= Len(s)
  <2>1. s[i] # "truncate config" \/ i # Len(s)
    BY <1>2, <1>5, Zenon
  <2>2. i # Len(s) /\ j = i + 1 => j > 0 /\ j <= Len(s)
    BY <1>7
  <2> QED
    BY <2>1, <2>2, Zenon
<1>10. ASSUME j = i + 2, j <= Len(s) PROVE Follows(c, s[i], s[i + 1]) /\ Follows(c, s[i + 1], s[j])
  <2>1. i \in 1 .. Len(s) - 1 /\ i + 1 \in 1 .. Len(s) - 1 /\ (i + 1) + 1 = j
    BY <1>7, <1>10
  <2> QED
    BY <1>5, <2>1, Zenon
<1>11. ASSUME j = i - 1, j > 0 PROVE Follows(c, s[j], s[i])
  <2>1. j \in 1 .. Len(s) - 1 /\ j + 1 = i
    BY <1>7, <1>11
  <2> QED
    BY <1>5, <2>1, Zenon
<1>12. j = Len(s) + 1 => ~(j <= Len(s))
  BY <1>7
<1> QED
  BY <1>1, <1>3, <1>4, <1>6, <1>8, <1>9, <1>10, <1>11, <1>12, Zenon DEF s, i, j

-----------------------------------------------------------------------------
\* What a setting may have been lost to, once and for all.
Excused(t) ==
  \/ Disturbed(t.scope) \/ Raced(t)
  \/ \E p \in Procs : p \in killed /\ Filling(p) /\ run[p].scope = t.scope

\* A config.json says what was set in its directory; nothing was that counts.
Holds(config, scope) == \A t \in told : t.scope = scope => Excused(t) \/ Tells(config, t)
Voided(scope) == \A t \in told : t.scope = scope => Excused(t)

\* The file says it, unless someone is about to fill it again.
HasConfig(scope) == Has(PlanningDir(scope), "config.json")
FileOf(scope) == tree[PlanningDir(scope)]["config.json"]
FileTells(t) ==
  /\ HasConfig(t.scope)
  /\ \/ Tells(FileOf(t.scope), t)
     \/ /\ FileOf(t.scope) = Torn
        /\ \E q \in Procs : Running(q) /\ Filling(q) /\ run[q].scope = t.scope

\* Before the step x the command c has in hand what it is to write, and it is
\* right; what it has not found, a file or workstreams, is not there.
ToWrite == {"write config", "truncate config", "fill config"}
Remaking(c, x) == x = "write defaults" \/ (c = "new" /\ x = "make scope")
Fits(c, x, copy, todo, scope, into) ==
  /\ x \in ToWrite => Holds(copy, scope)
  /\ c = "load" /\ x \in {"truncate config", "fill config"} =>
       todo = <<>> \/ \E d : (todo = <<d>> /\ Holds(d, scope))
  /\ c = "health" /\ x \in Mending =>
       todo \in {<<>>, <<"nyquist">>, <<"phase">>} \/ (todo = <<"config">> /\ Voided(scope))
  /\ Remaking(c, x) => Voided(scope)
  /\ c = "create" /\ x \in Migrating => Voided(into)
SettingsFit(p) ==
  Laying(p) =>
    Fits(Cmd(p).name, Now(p), run[p].copy, run[p].todo, run[p].scope, Cmd(p).into)

\* What a call of create moves is work.
Work == {"ROADMAP.md", "STATE.md", "REQUIREMENTS.md", "phases"}
MovesFit(p) ==
  Cmd(p) # Nothing /\ Cmd(p).name = "create" =>
    run[p].todo \in Seq(Work) /\ run[p].moved \in Seq(Work)

\* A call names a workstream, and no internal key.
CallFine(p) ==
  Cmd(p) # Nothing /\ Cmd(p).name \in SpaceCommands =>
    Cmd(p).into \in Streams \cup {Nothing} /\ Cmd(p).setting \notin InternalKeys \cup DOMAIN Torn

\* Whoever is inside the lock of a workstream has locked it.
StreamOwners ==
  \A p \in Procs : \A s \in Streams :
    Running(p) /\ Inside(p, s) /\ ~Disturbed(s) => lock[s] = p

ToldFits ==
  \A t \in told :
    t.scope \in Scopes /\ t.by \in Procs /\ t.setting \notin InternalKeys \cup DOMAIN Torn
StreamsInside ==
  \A s \in Streams : Exists(Workstream(s)) => Exists(Workstreams)

SettingsInv ==
  /\ ToldFits /\ StreamsInside /\ StreamOwners
  /\ \A t \in told : Excused(t) \/ FileTells(t)
  /\ \A p \in Procs : CallFine(p) /\ MovesFit(p) /\ SettingsFit(p)

(* What disturbs a scope stays,                                            *)
LEMMA DisturbedStays ==
  ASSUME LockInv, [Next]_vars, NEW scope, Disturbed(scope)
  PROVE  Disturbed(scope)'
<1>0. /\ together \subseteq together'
      /\ \A q \in Procs : Cmd(q)' = Cmd(q) /\ (Started(q) => Started(q)')
  BY RunsOn
<1>1. usurped \subseteq usurped' /\ lost \subseteq lost'
  BY NextSteps DEF Still, Begins, Elsewhere, AtALock, OnPhases, OneMoves
<1>2. \A X : \A q \in Procs : Is(q, X) => Is(q, X)'
  BY <1>0 DEF Is
<1>3. CASE scope \in usurped \/ [config |-> scope] \in lost
  BY <1>1, <1>3 DEF Disturbed
<1>4. CASE \E p \in Procs : Is(p, {"finish"}) /\ Cmd(p).stream = scope
  BY <1>0, <1>2, <1>4 DEF Disturbed
<1>5. CASE \E p, q \in Procs :
             /\ {p, q} \in together
             /\ \/ Is(p, {"health"}) /\ Is(q, {"load", "health"})
                \/ Is(p, {"create"}) /\ Cmd(p).into = scope /\ Is(q, {"set", "profile"})
  <2>1. PICK p \in Procs, q \in Procs :
             /\ {p, q} \in together
             /\ \/ Is(p, {"health"}) /\ Is(q, {"load", "health"})
                \/ Is(p, {"create"}) /\ Cmd(p).into = scope /\ Is(q, {"set", "profile"})
    BY <1>5
  <2>2. /\ {p, q} \in together'
        /\ \/ Is(p, {"health"})' /\ Is(q, {"load", "health"})'
           \/ Is(p, {"create"})' /\ Cmd(p)'.into = scope /\ Is(q, {"set", "profile"})'
    BY <1>0, <1>2, <2>1
  <2> QED
    BY <2>2 DEF Disturbed
<1> QED
  BY <1>3, <1>4, <1>5 DEF Disturbed

(* and an excuse is one for good.                                          *)
LEMMA ExcusedStays ==
  ASSUME LockInv, [Next]_vars, NEW t, Excused(t)
  PROVE  Excused(t)'
<1>0. /\ together \subseteq together'
      /\ \A q \in Procs : Cmd(q)' = Cmd(q) /\ (Started(q) => Started(q)')
  BY RunsOn
<1>1. killed \subseteq killed' /\ \A q \in Procs : q \in killed /\ Started(q) => run'[q] = run[q]
  <2>1. Still \/ \E p \in Procs : (Running(p) \/ run[p].at = 0) /\ OneMoves(p)
    BY NextSteps, Zenon DEF Begins, Elsewhere, AtALock, OnPhases
  <2>2. CASE Still
    BY <2>2 DEF Still
  <2>3. CASE \E p \in Procs : (Running(p) \/ run[p].at = 0) /\ OneMoves(p)
    BY <2>3 DEF OneMoves, Running, Started
  <2> QED
    BY <2>1, <2>2, <2>3
<1>2. \A X : \A q \in Procs : Is(q, X) => Is(q, X)'
  BY <1>0 DEF Is
<1>3. CASE Disturbed(t.scope)
  BY <1>3, DisturbedStays DEF Excused
<1>4. CASE Raced(t)
  BY <1>0, <1>2, <1>4 DEF Excused, Raced
<1>5. CASE \E p \in Procs : p \in killed /\ Filling(p) /\ run[p].scope = t.scope
  <2>1. PICK p \in Procs : p \in killed /\ Filling(p) /\ run[p].scope = t.scope
    BY <1>5
  <2>2. run'[p] = run[p]
    BY <1>1, <2>1 DEF Filling, Is
  <2>3. Filling(p)' /\ p \in killed' /\ run'[p].scope = t.scope
    BY <1>1, <2>1, <2>2 DEF Filling, Is, Started, Cmd, Steps
  <2> QED
    BY <2>3 DEF Excused
<1> QED
  BY <1>3, <1>4, <1>5 DEF Excused

(* So what holds, holds on, while nothing is set.                          *)
LEMMA FitsOn ==
  ASSUME told' = told, \A t : Excused(t) => Excused(t)'
  PROVE  /\ \A config, scope : Holds(config, scope) => Holds(config, scope)'
         /\ \A scope : Voided(scope) => Voided(scope)'
<1>1. /\ \A config, scope : Holds(config, scope) => Holds(config, scope)'
      /\ \A scope : Voided(scope) => Voided(scope)'
  BY DEF Holds, Voided, Tells
<1> QED
  BY <1>1

\* What fits before the step x fits before the step y.
Carries(c, x, y) ==
  /\ y \in ToWrite => x \in ToWrite
  /\ c = "load" /\ y \in {"truncate config", "fill config"} =>
       x \in {"truncate config", "fill config"}
  /\ Remaking(c, y) => Remaking(c, x)
  /\ c = "health" /\ y \in Mending => x \in Mending
  /\ c = "health" /\ y \in Regenerating => x \in Regenerating
  /\ c = "create" /\ y \in Migrating => x \in Migrating

\* The steps that decide what is to be written.
Deciding == {"read config", "load config", "repair", "look for config", "inspect",
             "look for mode"}

(* It does before the next step and before some others.                    *)
LEMMA CarriesOn ==
  /\ \A c, x : Carries(c, x, x)
  /\ \A c, x, y : Follows(c, x, y) /\ x \notin Deciding => Carries(c, x, y)
  /\ \A c, x, y, z : Follows(c, x, y) /\ Follows(c, y, z)
       /\ (x \in {"route", "look for state"} \/ (x = "look for config" /\ c # "new"))
       => Carries(c, x, z)
  /\ \A c, y : y \in {"make stream", "remove stream"} => \A x : Carries(c, x, y)
  /\ \A x, y : Carries("finish", x, y) \/ y \in ToWrite \cup {"write defaults"}
  /\ \A c : Carries(c, "move", "undo")
  /\ \A y : Carries("health", "fill config", "repair")
  /\ \A c, y : Follows(c, "write config", y) => Carries(c, "route", y)
<1> USE DEF Carries, Follows, Mending, Regenerating, Migrating, ToWrite, Remaking, Deciding
<1>1. \A c, x : Carries(c, x, x)
  OBVIOUS
<1>2. ASSUME NEW c, NEW x, NEW y, Follows(c, x, y), x \notin Deciding PROVE Carries(c, x, y)
  BY <1>2
<1>3. ASSUME NEW c, NEW x, NEW y, NEW z, Follows(c, x, y), Follows(c, y, z),
             x \in {"route", "look for state"} \/ (x = "look for config" /\ c # "new")
      PROVE  Carries(c, x, z)
  <2>1. y \in {"heal", "write new state", "write defaults"}
    BY <1>3
  <2> QED
    BY <1>3, <2>1
<1>4. /\ \A c, y : y \in {"make stream", "remove stream"} => \A x : Carries(c, x, y)
      /\ \A x, y : Carries("finish", x, y) \/ y \in ToWrite \cup {"write defaults"}
      /\ \A c : Carries(c, "move", "undo")
      /\ \A y : Carries("health", "fill config", "repair")
  OBVIOUS
<1>5. ASSUME NEW c, NEW y, Follows(c, "write config", y) PROVE Carries(c, "route", y)
  BY <1>5
<1> HIDE DEF Carries, Follows, Mending, Regenerating, Migrating, ToWrite, Remaking, Deciding
<1> QED
  BY <1>1, <1>2, <1>3, <1>4, <1>5, Zenon

\* A step of p that writes no setting and decides nothing about it.
Carried(p) ==
  /\ told' = told /\ run'[p].copy = run[p].copy
  /\ Cmd(p).name \in {"load", "health"} => run'[p].todo = run[p].todo
  /\ Now(p) = "route" \/ run'[p].scope = run[p].scope
  /\ Laying(p)' => Carries(Cmd(p).name, Now(p), Now(p)')

(* It leaves what fits as it is.                                           *)
LEMMA CarriedFits ==
  ASSUME NEW p \in Procs, Laying(p), Carried(p), SettingsFit(p), Cmd(p)' = Cmd(p),
         \A t : Excused(t) => Excused(t)'
  PROVE  SettingsFit(p)'
<1>1. SUFFICES ASSUME Laying(p)'
               PROVE  Fits(Cmd(p).name, Now(p), run[p].copy, run[p].todo, run[p].scope,
                           Cmd(p).into)'
  BY DEF SettingsFit
<1>2. /\ told' = told
      /\ Carries(Cmd(p).name, Now(p), Now(p)')
      /\ Fits(Cmd(p).name, Now(p), run[p].copy, run[p].todo, run[p].scope, Cmd(p).into)
  BY <1>1 DEF Carried, SettingsFit
<1>3. /\ \A config, scope : Holds(config, scope) => Holds(config, scope)'
      /\ \A scope : Voided(scope) => Voided(scope)'
  BY <1>2, FitsOn
<1>4. CASE Now(p) = "route"
  BY <1>2, <1>4 DEF Fits, Carries, ToWrite, Remaking, Mending, Regenerating, Migrating
<1>5. CASE run'[p].scope = run[p].scope
  BY <1>2, <1>3, <1>5
     DEF Carried, Fits, Carries, ToWrite, Remaking, Mending, Regenerating, Migrating
<1> QED
  BY <1>4, <1>5 DEF Carried

\* What a call has in hand stays.
Hands(p) == run'[p].copy = run[p].copy /\ run'[p].scope = run[p].scope

(* What the moves of a call leave of what it has in hand.                  *)
LEMMA HandsStay ==
  ASSUME Formed, NEW p \in Procs
  PROVE  /\ Go(p) => /\ Hands(p) /\ run'[p].todo = run[p].todo
                     /\ run'[p].moved = run[p].moved /\ run'[p].at = run[p].at + 1
         /\ Stop(p) => /\ Hands(p) /\ run'[p].todo = run[p].todo
                       /\ run'[p].moved = run[p].moved /\ run'[p].at = Len(Steps(p)) + 1
         /\ Skip(p) => /\ Hands(p) /\ run'[p].todo = run[p].todo
                       /\ run'[p].moved = run[p].moved /\ run'[p].at = run[p].at + 2
         /\ \A x : GoTo(p, x) => /\ Hands(p) /\ run'[p].todo = run[p].todo
                                 /\ run'[p].moved = run[p].moved /\ run'[p].at = StepNo(p, x)
         /\ \A v : GoWith(p, "was", v) \/ GoWith(p, "num", v) =>
              /\ Hands(p) /\ run'[p].todo = run[p].todo
              /\ run'[p].moved = run[p].moved /\ run'[p].at = run[p].at + 1
         /\ \A v : GoWith(p, "todo", v) =>
              /\ Hands(p) /\ run'[p].todo = v
              /\ run'[p].moved = run[p].moved /\ run'[p].at = run[p].at + 1
         /\ \A v : GoWith(p, "copy", v) =>
              /\ run'[p].scope = run[p].scope /\ run'[p].todo = run[p].todo /\ run'[p].copy = v
              /\ run'[p].moved = run[p].moved /\ run'[p].at = run[p].at + 1
<1>1. DOMAIN run = Procs /\ DOMAIN run[p] = Fields
  BY DEF Formed, CallFormed
<1>2. {"at", "copy", "scope", "todo", "moved", "was", "num"} \subseteq Fields
  BY FieldsAre
<1> HIDE DEF Fields
<1>4. Go(p) => /\ Hands(p) /\ run'[p].todo = run[p].todo
               /\ run'[p].moved = run[p].moved /\ run'[p].at = run[p].at + 1
  BY <1>1, <1>2 DEF Go, Hands
<1>5. Stop(p) => /\ Hands(p) /\ run'[p].todo = run[p].todo
                 /\ run'[p].moved = run[p].moved /\ run'[p].at = Len(Steps(p)) + 1
  BY <1>1, <1>2 DEF Stop, Hands
<1>6. Skip(p) => /\ Hands(p) /\ run'[p].todo = run[p].todo
                 /\ run'[p].moved = run[p].moved /\ run'[p].at = run[p].at + 2
  BY <1>1, <1>2 DEF Skip, Hands
<1>7. ASSUME NEW x, GoTo(p, x)
      PROVE  /\ Hands(p) /\ run'[p].todo = run[p].todo
             /\ run'[p].moved = run[p].moved /\ run'[p].at = StepNo(p, x)
  BY <1>1, <1>2, <1>7 DEF GoTo, Hands
<1>8. ASSUME NEW v, GoWith(p, "was", v) \/ GoWith(p, "num", v)
      PROVE  /\ Hands(p) /\ run'[p].todo = run[p].todo
             /\ run'[p].moved = run[p].moved /\ run'[p].at = run[p].at + 1
  BY <1>1, <1>2, <1>8 DEF GoWith, Hands
<1>9. ASSUME NEW v, GoWith(p, "todo", v)
      PROVE  /\ Hands(p) /\ run'[p].todo = v
             /\ run'[p].moved = run[p].moved /\ run'[p].at = run[p].at + 1
  BY <1>1, <1>2, <1>9 DEF GoWith, Hands
<1>10. ASSUME NEW v, GoWith(p, "copy", v)
       PROVE  /\ run'[p].scope = run[p].scope /\ run'[p].todo = run[p].todo
              /\ run'[p].copy = v
              /\ run'[p].moved = run[p].moved /\ run'[p].at = run[p].at + 1
  BY <1>1, <1>2, <1>10 DEF GoWith
<1> QED
  BY <1>4, <1>5, <1>6, <1>7, <1>8, <1>9, <1>10

\* What a step of PlanningSpace leaves alone: who p is, and who is killed.
Same(p) ==
  /\ run'[p].cmd = run[p].cmd /\ killed' = killed
  /\ Len(Steps(p)) \in Nat /\ run'[p].at \in Nat
  /\ \A q \in Procs \ {p} : run'[q] = run[q]

(* It does.                                                                *)
LEMMA SpaceIsSame ==
  ASSUME LockInv, NEW p \in Procs, Laying(p), SpaceStep(p)
  PROVE  Same(p)
<1>1. Local(p) /\ Formed
  BY SpaceStepIsLocal DEF LockInv
<1>2. OneMoves(p) /\ Len(Steps(p)) \in Nat
  BY <1>1, LocalIsOne, SpaceStepLoses, StepLeads DEF Laying
<1> QED
  BY <1>2 DEF OneMoves, Same

(* A step that goes on, stays or ends carries what fits.                   *)
LEMMA GoingIsCarried ==
  ASSUME Formed, NEW p \in Procs, Laying(p), Same(p), told' = told, Hands(p),
         run'[p].todo = run[p].todo \/ Cmd(p).name \notin {"load", "health"},
         \/ run'[p].at \in {run[p].at, Len(Steps(p)) + 1}
         \/ run'[p].at = run[p].at + 1 /\ Now(p) \notin Deciding
         \/ /\ run'[p].at = run[p].at + 2
            /\ \/ Now(p) = "look for state"
               \/ Now(p) = "look for config" /\ Cmd(p).name # "new"
         \/ \E x : /\ Occurs(Cmd(p).name, x) /\ run'[p].at = StepNo(p, x)
                   /\ Carries(Cmd(p).name, Now(p), x)
  PROVE  Carried(p)
<1> DEFINE c == Cmd(p).name
<1>1. /\ run'[p].at = run[p].at => Now(p)' = Now(p)
      /\ run'[p].at = run[p].at + 1 /\ Laying(p)' => Follows(c, Now(p), Now(p)')
      /\ run'[p].at = run[p].at + 2 /\ Laying(p)' =>
              \E y : Follows(c, Now(p), y) /\ Follows(c, y, Now(p)')
      /\ \A x : Occurs(c, x) /\ run'[p].at = StepNo(p, x) => Now(p)' = x
      /\ run'[p].at = Len(Steps(p)) + 1 => ~Laying(p)'
  BY WhereSpace DEF Same
<1>2. ASSUME Laying(p)' PROVE Carries(c, Now(p), Now(p)')
  <2>1. CASE run'[p].at \in {run[p].at, Len(Steps(p)) + 1}
    BY <1>1, <1>2, <2>1, CarriesOn, Zenon
  <2>2. CASE run'[p].at = run[p].at + 1 /\ Now(p) \notin Deciding
    BY <1>1, <1>2, <2>2, CarriesOn, Zenon
  <2>3. CASE /\ run'[p].at = run[p].at + 2
             /\ \/ Now(p) = "look for state"
                \/ Now(p) = "look for config" /\ Cmd(p).name # "new"
    <3>1. PICK y : Follows(c, Now(p), y) /\ Follows(c, y, Now(p)')
      BY <1>1, <1>2, <2>3
    <3>2. Now(p) \in {"route", "look for state"} \/ (Now(p) = "look for config" /\ c # "new")
      BY <2>3, Zenon
    <3> QED
      BY <3>1, <3>2, CarriesOn
  <2>4. CASE \E x : /\ Occurs(c, x) /\ run'[p].at = StepNo(p, x)
                    /\ Carries(c, Now(p), x)
    BY <1>1, <2>4, Zenon
  <2> QED
    BY <2>1, <2>2, <2>3, <2>4
<1> QED
  BY <1>2 DEF Carried, Hands

\* The steps that are about settings.
Decides(p) ==
  \/ LookForMode(p) \/ LookForConfig(p) \/ ReadConfig(p) \/ LoadConfig(p) \/ Inspect(p)
  \/ Repair(p) \/ WriteConfig(p) \/ FillConfig(p) \/ RewriteFails(p)

(* The others carry what fits.                                             *)
LEMMA SpaceMoves ==
  ASSUME LockInv, NEW p \in Procs, Laying(p), SpaceStep(p)
  PROVE  Carried(p) \/ Decides(p)
<1> DEFINE c == Cmd(p).name
<1>1. Formed /\ Same(p) /\ Local(p) /\ LooksFirst
  BY SpaceIsSame, SpaceStepIsLocal DEF LockInv
<1>2. /\ Go(p) => /\ Hands(p) /\ run'[p].todo = run[p].todo /\ run'[p].at = run[p].at + 1
      /\ Stop(p) => /\ Hands(p) /\ run'[p].todo = run[p].todo
                    /\ run'[p].at = Len(Steps(p)) + 1
      /\ Skip(p) => /\ Hands(p) /\ run'[p].todo = run[p].todo /\ run'[p].at = run[p].at + 2
      /\ \A x : GoTo(p, x) => /\ Hands(p) /\ run'[p].todo = run[p].todo
                              /\ run'[p].at = StepNo(p, x)
      /\ \A v : GoWith(p, "was", v) \/ GoWith(p, "num", v) =>
              /\ Hands(p) /\ run'[p].todo = run[p].todo /\ run'[p].at = run[p].at + 1
      /\ \A v : GoWith(p, "todo", v) => Hands(p) /\ run'[p].at = run[p].at + 1
  BY <1>1, HandsStay
<1>3. ASSUME told' = told, Go(p) \/ Stop(p), Now(p) \notin Deciding
      PROVE  Carried(p)
  BY <1>1, <1>2, <1>3, GoingIsCarried
<1>4. CASE \/ Heal(p) \/ MakeArchive(p) \/ RemoveStream(p) \/ MakeStream(p) \/ MakeScope(p)
           \/ TruncateConfig(p) \/ BackUpState(p) \/ RegenerateState(p) \/ Point(p)
           \/ DropWorkstreams(p) \/ LookForStream(p)
  <2>1. told' = told /\ (Go(p) \/ Stop(p))
    BY <1>4 DEF Heal, MakeArchive, RemoveStream, MakeStream, MakeScope, TruncateConfig,
           BackUpState, RegenerateState, Point, DropWorkstreams, LookForStream, OnlyTree, Idle
  <2>2. Now(p) \in {"heal", "make archive", "remove stream", "make stream", "make scope",
                    "truncate config", "back up state", "regenerate state", "point",
                    "drop workstreams", "look for stream"}
    BY <1>4, AtNow DEF Heal, MakeArchive, RemoveStream, MakeStream, MakeScope,
           TruncateConfig, BackUpState, RegenerateState, Point, DropWorkstreams, LookForStream
  <2>3. Now(p) \notin Deciding
    BY <2>2 DEF Deciding
  <2> QED
    BY <1>3, <2>1, <2>3
<1>5. CASE \/ LookForTarget(p) \/ WriteNewState(p) \/ WriteDefaults(p) \/ Discard(p)
           \/ LockInVain(p)
  <2>1. told' = told /\ (Go(p) \/ Stop(p))
    BY <1>5 DEF LookForTarget, WriteNewState, WriteDefaults, Discard, LockInVain, OnlyTree, Idle
  <2>2. Now(p) \in {"look for target", "write new state", "write defaults", "discard",
                    "lock planning"}
    BY <1>5, AtNow DEF LookForTarget, WriteNewState, WriteDefaults, Discard, LockInVain, InVain
  <2>3. Now(p) \notin Deciding
    BY <2>2 DEF Deciding
  <2> QED
    BY <1>3, <2>1, <2>3
<1>22. CASE ConfigFails(p) \/ (StateFails(p) /\ ~At(p, "back up state"))
  <2>1. told' = told /\ (Go(p) \/ Stop(p))
    BY <1>22 DEF ConfigFails, StateFails
  <2>2. Now(p) \in {"write defaults", "write config", "write new state", "regenerate state"}
    BY <1>22, AtNow DEF ConfigFails, StateFails
  <2>3. Now(p) \notin Deciding
    BY <2>2 DEF Deciding
  <2> QED
    BY <1>3, <2>1, <2>3
<1>23. CASE StateFails(p) /\ At(p, "back up state")
  <2>1. told' = told /\ Now(p) = "back up state" /\ GoTo(p, "repair")
    BY <1>23, AtNow DEF StateFails, At
  <2>2. c = "health"
    BY <1>1, <2>1, Takers DEF Laying
  <2>3. Occurs("health", "repair") /\ Carries("health", "back up state", "repair")
    BY Targets DEF Carries, ToWrite, Remaking, Mending, Regenerating
  <2>4. Hands(p) /\ run'[p].todo = run[p].todo /\ run'[p].at = StepNo(p, "repair")
    BY <1>2, <2>1
  <2> QED
    BY <1>1, <2>1, <2>2, <2>3, <2>4, GoingIsCarried
<1>6. CASE Unpoint(p) \/ PickArchive(p)
  <2>1. told' = told
    BY <1>6 DEF Unpoint, PickArchive, Idle
  <2>2. Now(p) \in {"unpoint", "pick archive"}
    BY <1>6, AtNow DEF Unpoint, PickArchive
  <2>3. Go(p) \/ \E v : GoWith(p, "was", v) \/ GoWith(p, "num", v)
    BY <1>6 DEF Unpoint, PickArchive
  <2>4. Now(p) \notin Deciding
    BY <2>2 DEF Deciding
  <2> QED
    BY <1>1, <1>2, <2>1, <2>3, <2>4, GoingIsCarried
<1>7. CASE LookForState(p)
  <2>1. told' = told /\ Now(p) = "look for state" /\ (Go(p) \/ Skip(p))
    BY <1>7, AtNow DEF LookForState, Idle
  <2>2. Now(p) \notin Deciding
    BY <2>1 DEF Deciding
  <2> QED
    BY <1>1, <1>2, <2>1, <2>2, GoingIsCarried
<1>8. Leads(c, Mode(p), Now(p), Modes(c)[run[p].at + 1])
  BY <1>1, StepLeads DEF Now, Laying
<1>9. ASSUME Now(p) \in {"look for work", "make target", "list entries", "look", "move", "undo"}
      PROVE  c \in {"create", "finish"}
  BY <1>8, <1>9 DEF Leads, Loose
<1>10. /\ \A x \in {"make stream", "undo"} : Occurs("create", x)
       /\ \A x \in {"discard", "undo", "remove stream"} : Occurs("finish", x)
  BY Targets
<1>11. ASSUME told' = told, Hands(p), Now(p) \notin Deciding, c \in {"create", "finish"},
              \/ run'[p].at \in {run[p].at, run[p].at + 1}
              \/ \E x : /\ Occurs(c, x) /\ run'[p].at = StepNo(p, x)
                        /\ \/ x \in {"make stream", "remove stream"}
                           \/ c = "finish" /\ x = "discard"
                           \/ x = "undo" /\ Now(p) = "move"
       PROVE  Carried(p)
  <2>1. \A x : (\/ x \in {"make stream", "remove stream"}
                \/ c = "finish" /\ x = "discard"
                \/ x = "undo" /\ Now(p) = "move") => Carries(c, Now(p), x)
    BY CarriesOn DEF ToWrite
  <2>2. \/ run'[p].at \in {run[p].at, Len(Steps(p)) + 1}
        \/ run'[p].at = run[p].at + 1 /\ Now(p) \notin Deciding
        \/ \E x : /\ Occurs(c, x) /\ run'[p].at = StepNo(p, x) /\ Carries(c, Now(p), x)
    BY <1>11, <2>1
  <2>3. c \notin {"load", "health"}
    BY <1>11
  <2> QED
    BY <1>1, <1>11, <2>2, <2>3, GoingIsCarried
<1>12. DOMAIN run = Procs /\ DOMAIN run[p] = Fields
  BY <1>1 DEF Formed, CallFormed
<1>13. CASE LookForWork(p)
  <2>1. told' = told /\ Now(p) = "look for work" /\ (Go(p) \/ GoTo(p, "make stream"))
    BY <1>13, AtNow DEF LookForWork, OnlyTree
  <2>2. c = "create"
    BY <1>1, <2>1, Takers DEF Laying
  <2>3. Hands(p) /\ run'[p].at \in {run[p].at + 1, StepNo(p, "make stream")}
    BY <1>2, <2>1
  <2>4. Occurs(c, "make stream") /\ Now(p) \notin Deciding
    BY <1>10, <2>1, <2>2 DEF Deciding
  <2> QED
    BY <1>11, <2>1, <2>2, <2>3, <2>4
<1>14. CASE MakeTarget(p)
  <2>1. told' = told /\ Now(p) = "make target" /\ GoWith(p, "todo", WorkFiles)
    BY <1>14, AtNow DEF MakeTarget, OnlyTree
  <2> QED
    BY <1>2, <1>9, <1>11, <2>1 DEF Deciding
<1>15. CASE ListEntries(p)
  <2>1. told' = told /\ Now(p) = "list entries"
        /\ ((\E v : GoWith(p, "todo", v)) \/ GoTo(p, "discard"))
    BY <1>15, AtNow DEF ListEntries, Idle
  <2>2. c = "finish"
    BY <1>1, <2>1, Takers DEF Laying
  <2>3. Hands(p) /\ run'[p].at \in {run[p].at + 1, StepNo(p, "discard")}
    BY <1>2, <2>1
  <2>4. Occurs(c, "discard") /\ Now(p) \notin Deciding
    BY <1>10, <2>1, <2>2 DEF Deciding
  <2> QED
    BY <1>11, <2>1, <2>2, <2>3, <2>4
<1>16. CASE Look(p)
  <2>1. told' = told /\ Now(p) = "look"
        /\ (Go(p) \/ GoTo(p, "make stream") \/ run' = [run EXCEPT ![p].todo = Tail(@)])
    BY <1>16, AtNow DEF Look, Idle
  <2>2. c = "create"
    BY <1>1, <2>1, Takers DEF Laying
  <2>3. run' = [run EXCEPT ![p].todo = Tail(@)] => Hands(p) /\ run'[p].at = run[p].at
    BY <1>12, FieldsAre DEF Hands
  <2>4. /\ Hands(p)
        /\ run'[p].at \in {run[p].at, run[p].at + 1, StepNo(p, "make stream")}
    BY <1>2, <2>1, <2>3
  <2>5. Occurs(c, "make stream") /\ Now(p) \notin Deciding
    BY <1>10, <2>1, <2>2 DEF Deciding
  <2> QED
    BY <1>11, <2>1, <2>2, <2>4, <2>5
<1>17. CASE Moved(p)
  <2>1. told' = told /\ Now(p) = "move"
    BY <1>17, AtNow DEF Moved
  <2>2. c \in {"create", "finish"}
    BY <1>9, <2>1
  <2>3. Hands(p) /\ run'[p].at = IF Is(p, {"create"}) THEN run[p].at - 1 ELSE run[p].at
    BY <1>12, <1>17, FieldsAre DEF Hands, Moved
  <2>4. CASE ~Is(p, {"create"})
    BY <1>11, <2>1, <2>2, <2>3, <2>4 DEF Deciding
  <2>5. CASE Is(p, {"create"})
    <3>1. c = "create" /\ run'[p].at = run[p].at - 1
      BY <2>3, <2>5 DEF Is
    <3>2. Laying(p)' => Follows(c, Now(p)', Now(p))
      BY <1>1, <3>1, WhereSpace DEF Same
    <3>3. Laying(p)' => Now(p)' = "look"
      BY <2>1, <3>1, <3>2 DEF Follows
    <3>4. Carries("create", "move", "look")
      BY DEF Carries, ToWrite, Remaking, Migrating
    <3>5. Laying(p)' => Carries(c, Now(p), Now(p)')
      BY <2>1, <3>1, <3>3, <3>4
    <3> QED
      BY <2>1, <2>3, <3>1, <3>5 DEF Carried, Hands
  <2> QED
    BY <2>4, <2>5
<1>18. CASE MoveFails(p)
  <2>1. told' = told /\ Now(p) = "move" /\ GoTo(p, "undo")
    BY <1>18, AtNow DEF MoveFails
  <2>2. c \in {"create", "finish"}
    BY <1>9, <2>1
  <2> QED
    BY <1>2, <1>10, <1>11, <2>1, <2>2 DEF Deciding
<1>19. CASE AllMoved(p)
  <2>1. told' = told /\ Now(p) = "move" /\ GoTo(p, "remove stream") /\ run[p].todo = <<>>
    BY <1>19, AtNow DEF AllMoved, Idle
  <2>2. c \in {"create", "finish"} /\ Started(p)
    BY <1>9, <2>1 DEF Laying, Running
  <2>3. Mode(p) # "looked"
    BY <1>1, <2>1, <2>2 DEF LooksFirst
  <2>4. c = "finish"
    BY <1>8, <2>1, <2>2, <2>3 DEF Leads, Loose
  <2>5. Hands(p) /\ run'[p].at = StepNo(p, "remove stream")
    BY <1>2, <2>1
  <2>6. Occurs(c, "remove stream") /\ Now(p) \notin Deciding
    BY <1>10, <2>1, <2>4 DEF Deciding
  <2> QED
    BY <1>11, <2>1, <2>4, <2>5, <2>6
<1>20. CASE Undo(p) \/ AllUndone(p)
  <2>1. told' = told /\ Now(p) = "undo"
        /\ (Go(p) \/ run' = [run EXCEPT ![p].moved = Tail(@)])
    BY <1>20, AtNow DEF Undo, AllUndone, Idle
  <2>2. c \in {"create", "finish"}
    BY <1>9, <2>1
  <2>3. run' = [run EXCEPT ![p].moved = Tail(@)] => Hands(p) /\ run'[p].at = run[p].at
    BY <1>12, FieldsAre DEF Hands
  <2> QED
    BY <1>2, <1>11, <2>1, <2>2, <2>3 DEF Deciding
<1>21. CASE Route(p)
  <2>1. told' = told /\ Now(p) = "route"
    BY <1>21, AtNow DEF Route, Idle
  <2>2. CASE Go(p)
    BY <1>3, <2>1, <2>2 DEF Deciding
  <2>3. CASE ~Go(p)
    <3>1. /\ run'[p].copy = run[p].copy /\ run'[p].todo = run[p].todo
          /\ run'[p].at = run[p].at + 2
      BY <1>12, <1>21, <2>3, FieldsAre DEF Route
    <3>2. ASSUME Laying(p)' PROVE Carries(c, Now(p), Now(p)')
      <4>1. PICK y : Follows(c, Now(p), y) /\ Follows(c, y, Now(p)')
        BY <1>1, <3>1, <3>2, WhereSpace DEF Same
      <4>2. Now(p) \in {"route", "look for state"}
        BY <2>1
      <4> QED
        BY <4>1, <4>2, CarriesOn
    <3> QED
      BY <2>1, <3>1, <3>2 DEF Carried
  <2> QED
    BY <2>2, <2>3
<1> QED
  BY <1>4, <1>5, <1>6, <1>7, <1>13, <1>14, <1>15, <1>16, <1>17, <1>18, <1>19, <1>20, <1>21,
     <1>22, <1>23
     DEF SpaceStep, Decides

(* What a config.json says stays said when another key is put into it,     *)
LEMMA PutTells ==
  ASSUME NEW config, NEW t, NEW key, NEW v, Tells(config, t), key # t.setting
  PROVE  Tells(Put(config, key, v), t)
BY DEF Tells, Put, Shadowed, Loaded, TopLevel

(* and a key that is put in is said.                                       *)
LEMMA PutIsTold ==
  ASSUME NEW config, NEW t, NEW v, t.by = v
  PROVE  Tells(Put(config, t.setting, v), t)
BY DEF Tells, Put, Shadowed, Loaded, TopLevel

(* when an internal key is dropped,                                        *)
LEMMA DropTells ==
  ASSUME NEW config, NEW t, NEW key \in InternalKeys, Tells(config, t),
         t.setting \notin InternalKeys
  PROVE  Tells(Drop(config, {key}), t)
<1>1. /\ key \notin {"branching_strategy", "commit_docs"} /\ key # t.setting
      /\ key # "commit"
  BY DEF InternalKeys
<1>2. \A k : /\ k \in DOMAIN Drop(config, {key}) <=> k \in DOMAIN config /\ k # key
             /\ k \in DOMAIN config /\ k # key => Drop(config, {key})[k] = config[k]
  BY DEF Drop
<1>3. \A k \in DOMAIN TopLevel : TopLevel[k] \in {"branching_strategy", "commit_docs"}
  BY DEF TopLevel
<1>4. Shadowed(config, t.setting) <=> Shadowed(Drop(config, {key}), t.setting)
  BY <1>1, <1>2, <1>3 DEF Shadowed
<1>5. Shadowed(config, t.setting) =>
        config[TopLevel[t.setting]] = Drop(config, {key})[TopLevel[t.setting]]
  BY <1>1, <1>2, <1>3 DEF Shadowed
<1> QED
  BY <1>1, <1>2, <1>4, <1>5 DEF Tells, Loaded

(* and when loadConfig rewrites it.                                        *)
LEMMA GranularTells ==
  ASSUME NEW config, NEW t, Tells(config, t), t.setting \notin InternalKeys
  PROVE  Tells(Granular(config), t)
<1>1. CASE "depth" \in DOMAIN config /\ "granularity" \notin DOMAIN config
  <2> DEFINE put == Put(config, "granularity", config["depth"])
  <2>1. "granularity" # t.setting
    BY <1>1 DEF Tells
  <2>2. Tells(put, t)
    BY <2>1, PutTells
  <2>3. Granular(config) = Drop(put, {"depth"}) /\ "depth" \in InternalKeys
    BY <1>1 DEF Granular, InternalKeys
  <2> HIDE DEF put
  <2> QED
    BY <2>2, <2>3, DropTells
<1>2. CASE ~("depth" \in DOMAIN config /\ "granularity" \notin DOMAIN config)
  BY <1>2 DEF Granular
<1> QED
  BY <1>1, <1>2

(* when the old keys are brought up to date,                               *)
LEMMA SynchronizedTells ==
  ASSUME NEW config, NEW t, Tells(config, t), t.setting \notin InternalKeys
  PROVE  Tells(Synchronized(config), t)
<1> DEFINE listed == Put(config, "repos", Repos)
           off == Put(listed, "commit", "off")
<1>1. "repos" \in InternalKeys /\ "multiRepo" \in InternalKeys
  BY DEF InternalKeys
<1>2. Tells(listed, t)
  BY <1>1, PutTells
<1>3. Tells(off, t)
  <2>1. CASE t.setting # "commit"
    <3> HIDE DEF listed
    <3> QED
      BY <1>2, <2>1, PutTells
  <2>2. CASE t.setting = "commit"
    BY <2>2 DEF Tells, Put
  <2> QED
    BY <2>1, <2>2
<1>4. Tells(Drop(off, {"multiRepo"}), t)
  <2> HIDE DEF off
  <2> QED
    BY <1>1, <1>3, DropTells
<1>5. Synchronized(config) \in {config, listed, Drop(off, {"multiRepo"})}
  BY DEF Synchronized
<1> HIDE DEF listed, off
<1> QED
  BY <1>2, <1>4, <1>5

(* Two sequences of one make one of two.                                   *)
LEMMA Pair ==
  ASSUME NEW a, NEW b
  PROVE  <<a>> \o <<b>> = <<a, b>>
<1> DEFINE s == <<a>>  t == <<b>>  f == <<a, b>>
<1>0. s \in Seq({a, b}) /\ t \in Seq({a, b})
  OBVIOUS
<1>9.  Len(s) = 1 /\ Len(t) = 1 /\ s[1] = a /\ t[1] = b
  OBVIOUS
<1>1. f \in Seq({a, b}) /\ Len(f) = 2 /\ f[1] = a /\ f[2] = b
  OBVIOUS
<1> HIDE DEF s, t, f
<1>2. \A i \in 1 .. 2 : (s \o t)[i] = f[i]
  <2>1. (s \o t)[1] = s[1]
    BY <1>0, <1>9
  <2>2. (s \o t)[Len(s) + 1] = t[1]
    <3>1. 1 \in 1 .. Len(t)
      BY <1>9
    <3> QED
      BY <1>0, <3>1
  <2>4. Len(s) + 1 = 2
    BY <1>9
  <2>3. \A i \in 1 .. 2 : i = 1 \/ i = 2
    OBVIOUS
  <2> QED
    BY <1>9, <1>1, <2>1, <2>2, <2>3, <2>4, Zenon
<1>4. Len(s \o t) = 2 /\ s \o t \in Seq({a, b})
  <2>1. Len(s \o t) = Len(s) + Len(t) /\ s \o t \in Seq({a, b})
    BY <1>0
  <2> QED
    BY <1>9, <2>1
<1>7. s \o t = f
  <2>1. \A i \in 1 .. Len(f) : (s \o t)[i] = f[i]
    BY <1>1, <1>2, Zenon
  <2>2. Len(s \o t) = Len(f)
    BY <1>1, <1>4, Zenon
  <2> QED
    BY <1>1, <1>4, <2>1, <2>2
<1> QED
  BY <1>7 DEF f, s, t

(* So each of its rewrites says what the file said.                        *)
LEMMA RewritesTell ==
  ASSUME NEW config, NEW scope, Holds(config, scope), ToldFits, Rewrites(config) # <<>>
  PROVE  /\ Holds(Head(Rewrites(config)), scope)
         /\ \/ Tail(Rewrites(config)) = <<>>
            \/ \E d : Tail(Rewrites(config)) = <<d>> /\ Holds(d, scope)
<1> DEFINE first == Granular(config)  both == Synchronized(first)
<1>1. Holds(first, scope)
  BY GranularTells DEF Holds, ToldFits
<1>2. Holds(both, scope)
  <2> HIDE DEF first
  <2> QED
    BY <1>1, SynchronizedTells DEF Holds, ToldFits
<1>3. Rewrites(config) = (IF first = config THEN <<>> ELSE <<first>>)
                           \o (IF both = first THEN <<>> ELSE <<both>>)
  BY DEF Rewrites
<1> HIDE DEF first, both
<1>4. \/ Rewrites(config) = <<first>> \/ Rewrites(config) = <<both>>
      \/ Rewrites(config) = <<first, both>>
  <2>1. <<>> \o <<>> = <<>>
    OBVIOUS
  <2>2. <<first>> \o <<>> = <<first>>
    OBVIOUS
  <2>3. <<>> \o <<both>> = <<both>>
    OBVIOUS
  <2>4. <<first>> \o <<both>> = <<first, both>>
    BY Pair
  <2> QED
    BY <1>3, <2>1, <2>2, <2>3, <2>4
<1>5. /\ Head(<<first>>) = first /\ Tail(<<first>>) = <<>>
      /\ Head(<<both>>) = both /\ Tail(<<both>>) = <<>>
      /\ Head(<<first, both>>) = first /\ Tail(<<first, both>>) = <<both>>
  OBVIOUS
<1> QED
  BY <1>1, <1>2, <1>4, <1>5, Zenon

(* What the file says, when it is there, when it is torn, and when it is   *)
(* not there.                                                              *)
LEMMA WhatIsStored ==
  ASSUME SettingsInv, NEW scope
  PROVE  /\ ~HasConfig(scope) => Voided(scope)
         /\ HasConfig(scope) /\ FileOf(scope) # Torn => Holds(FileOf(scope), scope)
BY DEF SettingsInv, FileTells, Voided, Holds

(* A file that does not parse is only repaired when nothing is owed to it. *)
LEMMA TornForHealth ==
  ASSUME SettingsInv, LockInv, TogetherFits, NEW p \in Procs, Laying(p),
         Cmd(p).name = "health", Now(p) # "fill config",
         HasConfig(run[p].scope), FileOf(run[p].scope) = Torn
  PROVE  Voided(run[p].scope)
<1> SUFFICES ASSUME NEW t \in told, t.scope = run[p].scope, ~Excused(t)
             PROVE  FALSE
  BY DEF Voided
<1>1. FileTells(t) /\ t.setting \notin DOMAIN Torn
  BY DEF SettingsInv, ToldFits
<1>2. ~Tells(Torn, t)
  BY <1>1 DEF Tells
<1>3. PICK q \in Procs : Running(q) /\ Filling(q)
  BY <1>1, <1>2 DEF FileTells
<1>4. Now(q) = "fill config" /\ Cmd(q).name \in {"load", "health"} /\ Is(q, {"load", "health"})
  BY <1>3 DEF Filling, Is, Now
<1>5. p # q /\ Running(p) /\ Is(p, {"health"})
  BY <1>4 DEF Laying, Is, Running
<1>6. Related(Cmd(p).name, Cmd(q).name)
  BY <1>4, CommandsAre DEF Related
<1>7. {p, q} \in together
  BY <1>3, <1>5, <1>6 DEF TogetherFits
<1> QED
  BY <1>4, <1>5, <1>7 DEF Excused, Disturbed

(* What fits the next step fits after this one, while nothing is set.      *)
LEMMA FitsStay ==
  ASSUME told' = told, \A t : Excused(t) => Excused(t)', NEW p \in Procs,
         run'[p].cmd = run[p].cmd,
         Laying(p)' => Fits(Cmd(p).name, Now(p)', run'[p].copy, run'[p].todo, run'[p].scope,
                            Cmd(p).into)
  PROVE  SettingsFit(p)'
<1>1. SUFFICES ASSUME Laying(p)'
               PROVE  Fits(Cmd(p).name, Now(p), run[p].copy, run[p].todo, run[p].scope,
                           Cmd(p).into)'
  BY DEF SettingsFit
<1>2. /\ \A config, scope : Holds(config, scope) => Holds(config, scope)'
      /\ \A scope : Voided(scope) => Voided(scope)'
  BY FitsOn
<1>3. Cmd(p)' = Cmd(p)
  BY DEF Cmd
<1>4. Fits(Cmd(p).name, Now(p)', run'[p].copy, run'[p].todo, run'[p].scope, Cmd(p).into)
  BY <1>1
<1> QED
  BY <1>2, <1>3, <1>4 DEF Fits

(* The steps that look at the files and the settings see to what fits.     *)
LEMMA DecidesFit ==
  ASSUME LockInv, TogetherFits, SettingsInv, NEW p \in Procs, Laying(p), SpaceStep(p),
         \A t : Excused(t) => Excused(t)', told' = told, Decides(p), ~WriteConfig(p)
  PROVE  SettingsFit(p)'
<1> DEFINE c == Cmd(p).name  y == run[p].scope
<1>0. Formed /\ Same(p) /\ DOMAIN run = Procs /\ DOMAIN run[p] = Fields /\ Running(p)
  BY SpaceIsSame DEF LockInv, Formed, CallFormed, Laying
<1>1. /\ Cmd(p)' = Cmd(p) /\ run'[p].cmd = run[p].cmd
      /\ run'[p].at = run[p].at => Now(p)' = Now(p)
      /\ run'[p].at = run[p].at + 1 /\ Laying(p)' => Follows(c, Now(p), Now(p)')
      /\ run'[p].at = run[p].at - 1 /\ Laying(p)' => Follows(c, Now(p)', Now(p))
      /\ \A x : Occurs(c, x) /\ run'[p].at = StepNo(p, x) => Now(p)' = x
      /\ run'[p].at = Len(Steps(p)) + 1 => ~Laying(p)'
  BY <1>0, WhereSpace DEF Same
<1>2. /\ Go(p) => /\ Hands(p) /\ run'[p].todo = run[p].todo /\ run'[p].at = run[p].at + 1
      /\ Stop(p) => /\ Hands(p) /\ run'[p].todo = run[p].todo
                    /\ run'[p].at = Len(Steps(p)) + 1
      /\ Skip(p) => /\ Hands(p) /\ run'[p].todo = run[p].todo /\ run'[p].at = run[p].at + 2
      /\ \A x : GoTo(p, x) => /\ Hands(p) /\ run'[p].todo = run[p].todo
                              /\ run'[p].at = StepNo(p, x)
      /\ \A v : GoWith(p, "copy", v) =>
              /\ run'[p].scope = run[p].scope /\ run'[p].todo = run[p].todo /\ run'[p].copy = v
              /\ run'[p].at = run[p].at + 1
  BY <1>0, HandsStay
<1>3. SUFFICES ASSUME Laying(p)'
               PROVE  Fits(c, Now(p)', run'[p].copy, run'[p].todo, run'[p].scope, Cmd(p).into)
  BY <1>1, FitsStay
<1>4. /\ Fits(c, Now(p), run[p].copy, run[p].todo, y, Cmd(p).into)
      /\ StreamsInside /\ CallFine(p) /\ ToldFits
  BY DEF SettingsInv, SettingsFit
<1>5. Leads(c, Mode(p), Now(p), Modes(c)[run[p].at + 1])
  BY <1>0, StepLeads DEF Now
<1>6. /\ ~HasConfig(y) => Voided(y)
      /\ HasConfig(y) /\ FileOf(y) # Torn => Holds(FileOf(y), y)
      /\ \A x : Voided(y) => Holds(x, y)
  BY WhatIsStored DEF Voided, Holds
<1>7. /\ Has(Here(p), "config.json") <=> HasConfig(y)
      /\ Parses(Here(p)) <=> HasConfig(y) /\ FileOf(y) # Torn
      /\ Config(Here(p)) = FileOf(y)
  BY DEF Here, HasConfig, FileOf, Parses, Config
<1>8. CASE LookForMode(p)
  <2>1. Now(p) = "look for mode" /\ c = "create"
    BY <1>0, <1>8, AtNow, Takers DEF LookForMode
  <2>2. CASE GoTo(p, "make stream")
    <3>1. Now(p)' = "make stream"
      BY <1>1, <1>2, <2>1, <2>2, Targets
    <3> QED
      BY <2>1, <3>1 DEF Fits, ToWrite, Remaking, Migrating
  <2>3. CASE ~GoTo(p, "make stream")
    <3>1. Go(p) /\ ~Exists(Workstreams) /\ Cmd(p).into # Nothing
      BY <1>8, <2>3 DEF LookForMode
    <3>2. Cmd(p).into \in Streams /\ Cmd(p).into # "planning"
      <4>1. Cmd(p) # Nothing
        BY <1>0 DEF Formed, CallFormed, Running
      <4> QED
        BY <1>4, <3>1, <4>1, ProcessAssumption DEF CallFine, Laying
    <3>3. ~HasConfig(Cmd(p).into)
      BY <1>4, <3>1, <3>2 DEF StreamsInside, HasConfig, PlanningDir, Has
    <3>4. Voided(Cmd(p).into)
      BY <3>3, WhatIsStored
    <3>5. Follows(c, "look for mode", Now(p)')
      BY <1>1, <1>2, <1>3, <2>1, <3>1
    <3> QED
      BY <2>1, <3>4, <3>5 DEF Fits, Follows, ToWrite, Remaking
  <2> QED
    BY <2>2, <2>3
<1>9. CASE LookForConfig(p)
  <2>1. Now(p) = "look for config"
    BY <1>9, AtNow DEF LookForConfig
  <2>2. CASE Go(p) /\ ~HasConfig(y)
    <3>1. Follows(c, "look for config", Now(p)') /\ run'[p].scope = y
      BY <1>1, <1>2, <1>3, <2>1, <2>2 DEF Hands
    <3>2. Voided(y)
      BY <1>6, <2>2
    <3> QED
      BY <3>1, <3>2 DEF Fits, Follows, ToWrite, Remaking, Mending, Regenerating, Migrating
  <2>3. CASE Skip(p) /\ c # "new"
    <3>1. Carried(p)
      BY <1>0, <1>2, <2>1, <2>3, GoingIsCarried
    <3>2. Carries(c, Now(p), Now(p)') /\ Hands(p) /\ run'[p].todo = run[p].todo
      BY <1>2, <1>3, <2>3, <3>1 DEF Carried
    <3> QED
      BY <1>4, <2>1, <3>2
         DEF Fits, Carries, ToWrite, Remaking, Mending, Regenerating, Migrating, Hands
  <2>4. CASE Stop(p)
    BY <1>1, <1>2, <1>3, <2>4
  <2>5. Is(p, {"new"}) <=> c = "new"
    BY <1>0 DEF Is, Running
  <2> QED
    BY <1>7, <1>9, <2>2, <2>3, <2>4, <2>5 DEF LookForConfig
<1>10. CASE ReadConfig(p)
  <2>1. Now(p) = "read config"
    BY <1>10, AtNow DEF ReadConfig
  <2>2. CASE Stop(p)
    BY <1>1, <1>2, <1>3, <2>2
  <2>3. CASE ~Stop(p)
    <3> DEFINE copy == IF Parses(Here(p)) THEN Config(Here(p)) ELSE <<>>
    <3>1. GoWith(p, "copy", copy) /\ (HasConfig(y) => Parses(Here(p)))
      BY <1>7, <1>10, <2>3 DEF ReadConfig
    <3>2. Holds(copy, y)
      BY <1>6, <1>7, <3>1
    <3> HIDE DEF copy
    <3>3. /\ Follows(c, "read config", Now(p)')
          /\ run'[p].copy = copy /\ run'[p].scope = y
      BY <1>1, <1>2, <1>3, <2>1, <3>1
    <3> QED
      BY <3>2, <3>3 DEF Fits, Follows, ToWrite, Remaking, Mending, Regenerating, Migrating
  <2> QED
    BY <2>2, <2>3
<1>11. CASE LoadConfig(p)
  <2> DEFINE new == IF Parses(Here(p)) THEN Rewrites(Config(Here(p))) ELSE <<>>
  <2>1. Now(p) = "load config" /\ c = "load"
    <3>1. Now(p) = "load config"
      BY <1>11, AtNow DEF LoadConfig
    <3> QED
      BY <1>5, <3>1 DEF Leads, Loose
  <2>2. CASE new = <<>>
    <3>1. Stop(p)
      BY <1>11, <2>2 DEF LoadConfig
    <3> QED
      BY <1>1, <1>2, <1>3, <3>1
  <2>3. CASE new # <<>>
    <3>1. run' = [run EXCEPT ![p].at = @ + 1, ![p].todo = Tail(new), ![p].copy = Head(new)]
      BY <1>11, <2>3 DEF LoadConfig
    <3>2. new = Rewrites(FileOf(y)) /\ HasConfig(y) /\ FileOf(y) # Torn
      BY <1>7, <2>3
    <3> HIDE DEF new
    <3>3. /\ run'[p].at = run[p].at + 1 /\ run'[p].todo = Tail(new)
          /\ run'[p].copy = Head(new) /\ run'[p].scope = y
      BY <1>0, <3>1, FieldsAre
    <3>4. /\ Holds(Head(new), y)
          /\ Tail(new) = <<>> \/ \E d : Tail(new) = <<d>> /\ Holds(d, y)
      BY <1>4, <1>6, <2>3, <3>2, RewritesTell
    <3>5. Follows(c, "load config", Now(p)')
      BY <1>1, <1>3, <2>1, <3>3
    <3> QED
      BY <2>1, <3>3, <3>4, <3>5 DEF Fits, Follows, ToWrite, Remaking
  <2> QED
    BY <2>2, <2>3
<1>12. CASE Inspect(p)
  <2> DEFINE new == Repairs(Here(p))
             at == IF ~Exists(Here(p)) THEN Len(Steps(p)) + 1
                   ELSE IF Has(Here(p), "STATE.md") THEN StepNo(p, "repair")
                   ELSE run[p].at + 1
  <2>1. Now(p) = "inspect" /\ c = "health"
    BY <1>0, <1>12, AtNow, Takers DEF Inspect
  <2>2. run' = [run EXCEPT ![p].at = at, ![p].todo = new]
    BY <1>12 DEF Inspect
  <2>3. at \in {Len(Steps(p)) + 1, StepNo(p, "repair"), run[p].at + 1}
    OBVIOUS
  <2>4. \/ new \in {<<>>, <<"nyquist">>, <<"phase">>}
        \/ new = <<"config">> /\ Voided(y)
    <3>1. CASE Parses(Here(p))
      BY <3>1 DEF Repairs
    <3>2. CASE ~Parses(Here(p))
      <4>1. HasConfig(y) => FileOf(y) = Torn
        BY <1>7, <3>2
      <4>2. Voided(y)
        BY <1>6, <2>1, <4>1, TornForHealth
      <4> QED
        BY <3>2, <4>2 DEF Repairs
    <3> QED
      BY <3>1, <3>2
  <2> HIDE DEF new, at
  <2>5. run'[p].at = at /\ run'[p].todo = new /\ run'[p].scope = y
    BY <1>0, <2>2, FieldsAre
  <2>6. Now(p)' = "repair" \/ Follows(c, "inspect", Now(p)')
    BY <1>1, <1>3, <2>1, <2>3, <2>5, Targets
  <2>7. Now(p)' \notin ToWrite /\ ~Remaking(c, Now(p)')
    BY <2>1, <2>6 DEF Follows, ToWrite, Remaking
  <2> QED
    BY <2>1, <2>4, <2>5, <2>7 DEF Fits
<1>13. CASE Repair(p)
  <2>1. Now(p) = "repair" /\ c = "health"
    <3>1. Now(p) = "repair"
      BY <1>13, AtNow DEF Repair
    <3> QED
      BY <1>5, <3>1 DEF Leads, Loose
  <2>2. CASE run[p].todo = <<>>
    <3>1. Stop(p)
      BY <1>13, <2>2 DEF Repair
    <3> QED
      BY <1>1, <1>2, <1>3, <3>1
  <2>3. CASE run[p].todo # <<>>
    <3>1. PICK key : /\ run[p].todo = <<key>>
                     /\ key \in {"nyquist", "phase"} \/ (key = "config" /\ Voided(y))
      BY <1>4, <2>1, <2>3 DEF Fits, Mending
    <3>2. Todo(p) = key /\ Tail(run[p].todo) = <<>>
      BY <3>1 DEF Todo
    <3> DEFINE new == IF key = "config" THEN RepairedConfig
                      ELSE Put(Config(Here(p)), key, "default")
    <3>3. CASE key = "config" \/ (Parses(Here(p)) /\ key \notin DOMAIN Config(Here(p)))
      <4>1. Holds(new, y)
        <5>1. CASE key = "config"
          BY <1>6, <3>1, <5>1
        <5>2. CASE Parses(Here(p)) /\ key \notin DOMAIN FileOf(y) /\ key # "config"
          <6>1. Holds(FileOf(y), y)
            BY <1>6, <1>7, <5>2
          <6>2. ASSUME NEW t, Tells(FileOf(y), t) PROVE Tells(Put(FileOf(y), key, "default"), t)
            <7>1. key # t.setting
              BY <5>2, <6>2 DEF Tells
            <7> QED
              BY <6>2, <7>1, PutTells
          <6>3. new = Put(FileOf(y), key, "default")
            BY <1>7, <5>2
          <6> QED
            BY <6>1, <6>2, <6>3 DEF Holds
        <5> QED
          BY <1>7, <3>3, <5>1, <5>2
      <4>2. run' = [run EXCEPT ![p].at = @ + 1, ![p].todo = <<>>, ![p].copy = new]
        BY <1>13, <2>3, <3>2, <3>3 DEF Repair
      <4> HIDE DEF new
      <4>3. /\ run'[p].at = run[p].at + 1 /\ run'[p].todo = <<>>
            /\ run'[p].copy = new /\ run'[p].scope = y
        BY <1>0, <4>2, FieldsAre
      <4>4. Follows(c, "repair", Now(p)')
        BY <1>1, <1>3, <2>1, <4>3
      <4> QED
        BY <2>1, <4>1, <4>3, <4>4 DEF Fits, Follows, Remaking
    <3>4. CASE ~(key = "config" \/ (Parses(Here(p)) /\ key \notin DOMAIN Config(Here(p))))
      <4>1. run' = [run EXCEPT ![p].todo = <<>>]
        BY <1>13, <2>3, <3>2, <3>4 DEF Repair
      <4>2. run'[p].at = run[p].at /\ run'[p].todo = <<>>
        BY <1>0, <4>1, FieldsAre
      <4>3. Now(p)' = "repair"
        BY <1>1, <2>1, <4>2
      <4> QED
        BY <2>1, <4>2, <4>3 DEF Fits, ToWrite, Remaking
    <3> QED
      BY <3>3, <3>4
  <2> QED
    BY <2>2, <2>3
<1>14. CASE FillConfig(p) \/ RewriteFails(p)
  <2>0. Rewritten(p)
    BY <1>14 DEF FillConfig, RewriteFails
  <2>1. Now(p) \in {"truncate config", "fill config"} /\ c \in {"load", "health"}
    <3>1. Now(p) \in {"truncate config", "fill config"}
      BY <1>14, AtNow DEF FillConfig, RewriteFails
    <3> QED
      BY <1>5, <3>1 DEF Leads, Loose
  <2>2. (Is(p, {"health"}) <=> c = "health") /\ (Is(p, {"load"}) <=> c = "load")
    BY <1>0 DEF Is, Running
  <2>3. CASE c = "health"
    <3>1. GoTo(p, "repair")
      BY <2>0, <2>2, <2>3 DEF Rewritten
    <3>2. Now(p)' = "repair" /\ Hands(p) /\ run'[p].todo = run[p].todo
      BY <1>1, <1>2, <2>3, <3>1, Targets
    <3> QED
      BY <1>4, <2>1, <2>3, <3>2 DEF Fits, ToWrite, Remaking, Mending, Hands
  <2>4. CASE c = "load" /\ run[p].todo = <<>>
    <3>1. Stop(p)
      BY <2>0, <2>2, <2>4 DEF Rewritten
    <3> QED
      BY <1>1, <1>2, <1>3, <3>1
  <2>5. CASE c = "load" /\ run[p].todo # <<>>
    <3>1. PICK d : run[p].todo = <<d>> /\ Holds(d, y)
      BY <1>4, <2>1, <2>5 DEF Fits
    <3>2. Todo(p) = d
      BY <3>1 DEF Todo
    <3>3. run' = [run EXCEPT ![p].at = StepNo(p, "truncate config"), ![p].copy = d,
                             ![p].todo = <<>>]
      BY <2>0, <2>2, <2>5, <3>2 DEF Rewritten
    <3>4. /\ run'[p].at = StepNo(p, "truncate config") /\ run'[p].copy = d
          /\ run'[p].todo = <<>> /\ run'[p].scope = y
      BY <1>0, <3>3, FieldsAre
    <3>5. Now(p)' = "truncate config"
      BY <1>1, <2>5, <3>4, Targets
    <3> QED
      BY <2>5, <3>1, <3>4, <3>5 DEF Fits, Remaking
  <2> QED
    BY <2>1, <2>3, <2>4, <2>5
<1> QED
  BY <1>8, <1>9, <1>10, <1>11, <1>12, <1>13, <1>14 DEF Decides

-----------------------------------------------------------------------------
\* What was in the file f of d still is.
FileStays(d, f) == Has(d, f) => Has(d, f)' /\ tree'[d][f] = tree[d][f]

(* What the operations on files leave as it is: to make directories,       *)
LEMMA TreeMade ==
  ASSUME NEW D, tree' = WithDirs(D)
  PROVE  DOMAIN tree' = DOMAIN tree \cup D /\ \A d, f : FileStays(d, f)
BY DEF WithDirs, FileStays, Has, Exists

(* to write a file,                                                        *)
LEMMA TreeWritten ==
  ASSUME NEW e, NEW g, NEW content, tree' = WithFile(e, g, content)
  PROVE  /\ DOMAIN tree' = DOMAIN tree
         /\ \A d, f : d # e \/ f # g => FileStays(d, f)
         /\ Exists(e) => Has(e, g)' /\ tree'[e][g] = content
BY DEF WithFile, Put, FileStays, Has, Exists

(* to rename one,                                                          *)
LEMMA TreeRenamed ==
  ASSUME NEW from, NEW to, NEW g, CanRename(from, to, g), tree' = Renamed(from, to, g)
  PROVE  /\ DOMAIN tree' = DOMAIN tree
         /\ \A d, f : d \notin {from, to} \/ f # g => FileStays(d, f)
<1>1. CASE IsLock(from, g)
  <2>1. tree' = WithFile(to, g, [text |-> "lock"])
    BY <1>1 DEF Renamed
  <2> QED
    BY <2>1, TreeWritten
<1>3. CASE ~IsLock(from, g) /\ IsLock(to, g)
  <2>1. Exists(from) /\ tree' = [tree EXCEPT ![from] = Drop(@, {g})]
    BY <1>3 DEF CanRename, Renamed, Has
  <2> QED
    BY <2>1 DEF FileStays, Has, Exists, Drop
<1>2. CASE ~IsLock(from, g) /\ ~IsLock(to, g)
  <2>1. Exists(from) /\ Exists(to)
    BY <1>2 DEF CanRename, Has
  <2>2. tree' = [tree EXCEPT ![to] = Put(@, g, tree[from][g]), ![from] = Drop(@, {g})]
    BY <1>2 DEF Renamed
  <2>3. DOMAIN tree' = DOMAIN tree
    BY <2>2
  <2>4. ASSUME NEW d, NEW f, d \notin {from, to}, Has(d, f) PROVE FileStays(d, f)
    BY <2>2, <2>4 DEF FileStays, Has, Exists
  <2>5. ASSUME NEW d, NEW f, f # g, d \in {from, to}, Has(d, f) PROVE FileStays(d, f)
    BY <2>1, <2>2, <2>5 DEF FileStays, Has, Exists, Put, Drop
  <2> QED
    BY <2>3, <2>4, <2>5 DEF FileStays
<1> QED
  BY <1>1, <1>2, <1>3

(* and to remove directories.                                              *)
LEMMA TreeDropped ==
  ASSUME NEW D, tree' = Drop(tree, D)
  PROVE  DOMAIN tree' = DOMAIN tree \ D /\ \A d, f : d \notin D => FileStays(d, f)
BY DEF Drop, FileStays, Has, Exists

(* Each workstream has a directory of its own.                             *)
LEMMA Places ==
  /\ \A s, t : Workstream(s) = Workstream(t) => s = t
  /\ \A s : Workstream(s) \notin {Root, Workstreams}
            /\ \A t, n : Workstream(s) # ArchiveOf(t, n)
  /\ \A t, n : ArchiveOf(t, n) \notin {Root, Workstreams}
  /\ Root # Workstreams
  /\ \A s \in Streams : PlanningDir(s) = Workstream(s)
  /\ \A s : PlanningDir(s) \in {Root, Workstream(s)}
  /\ \A s : MadeDirs(Workstream(s)) = {Workstreams, Workstream(s)}
  /\ MadeDirs(Root) = {Root}
  /\ \A s : Workstream(s).kind = "workstream" /\ Workstream(s).stream = s
  /\ \A s, n : ArchiveOf(s, n).kind # "workstream"
<1>1. \A s \in Streams : s # "planning"
  BY ProcessAssumption
<1>2. \A k1, s1, n1, k2, s2, n2 :
        Place(k1, s1, n1) = Place(k2, s2, n2) => k1 = k2 /\ s1 = s2
  BY DEF Place
<1>3. \A k1, s1, n1 : Place(k1, s1, n1).kind = k1 /\ Place(k1, s1, n1).stream = s1
  BY DEF Place
<1> QED
  BY <1>1, <1>2, <1>3
     DEF Workstream, Workstreams, Root, ArchiveOf, PlanningDir, MadeDirs

(* Two scopes have not the same directory.                                 *)
LEMMA PlacesApart ==
  ASSUME NEW s \in Scopes, NEW t \in Scopes, PlanningDir(s) = PlanningDir(t)
  PROVE  s = t
<1>1. s \in Streams => PlanningDir(s) = Workstream(s)
  BY Places
<1>2. t \in Streams => PlanningDir(t) = Workstream(t)
  BY Places
<1>3. PlanningDir("planning") = Root
  BY DEF PlanningDir
<1> QED
  BY <1>1, <1>2, <1>3, Places DEF Scopes

(* A call of create has only work to move, or to move back.                *)
LEMMA SpaceMovesWork ==
  ASSUME Formed, NEW p \in Procs, Laying(p), SpaceStep(p), MovesFit(p), Cmd(p)' = Cmd(p)
  PROVE  MovesFit(p)'
<1> DEFINE c == Cmd(p).name
<1>1. SUFFICES ASSUME Cmd(p) # Nothing, c = "create"
               PROVE  run'[p].todo \in Seq(Work) /\ run'[p].moved \in Seq(Work)
  BY DEF MovesFit
<1>2. run[p].todo \in Seq(Work) /\ run[p].moved \in Seq(Work)
  BY <1>1 DEF MovesFit
<1>3. DOMAIN run = Procs /\ DOMAIN run[p] = Fields /\ Running(p)
  BY DEF Formed, CallFormed, Laying
<1>4. Leads(c, Mode(p), Now(p), Modes(c)[run[p].at + 1])
  BY <1>3, StepLeads DEF Now
<1>5. Now(p) \notin {"list entries", "load config", "inspect", "repair", "truncate config",
                  "fill config"}
  BY <1>1, <1>4 DEF Leads, Loose
<1>6. ASSUME \/ Go(p) \/ Stop(p) \/ Skip(p) \/ (\E x : GoTo(p, x))
             \/ \E v : GoWith(p, "was", v) \/ GoWith(p, "num", v) \/ GoWith(p, "copy", v)
      PROVE  run'[p].todo = run[p].todo /\ run'[p].moved = run[p].moved
  <2>1. /\ Go(p) \/ Stop(p) \/ Skip(p) =>
             run'[p].todo = run[p].todo /\ run'[p].moved = run[p].moved
        /\ \A x : GoTo(p, x) => run'[p].todo = run[p].todo /\ run'[p].moved = run[p].moved
        /\ \A v : GoWith(p, "was", v) \/ GoWith(p, "num", v) =>
             run'[p].todo = run[p].todo /\ run'[p].moved = run[p].moved
        /\ \A v : GoWith(p, "copy", v) =>
             run'[p].todo = run[p].todo /\ run'[p].moved = run[p].moved
    BY HandsStay
  <2> QED
    BY <1>6, <2>1
<1>7. CASE \/ Heal(p) \/ MakeArchive(p) \/ RemoveStream(p) \/ MakeStream(p) \/ MakeScope(p)
           \/ TruncateConfig(p) \/ BackUpState(p) \/ RegenerateState(p) \/ Point(p)
           \/ DropWorkstreams(p) \/ LookForStream(p) \/ LookForTarget(p) \/ WriteNewState(p)
           \/ WriteDefaults(p) \/ ConfigFails(p) \/ AllUndone(p) \/ Discard(p) \/ LockInVain(p)
  <2>1. Go(p) \/ Stop(p)
    BY <1>7 DEF Heal, MakeArchive, RemoveStream, MakeStream, MakeScope, TruncateConfig,
           BackUpState, RegenerateState, Point, DropWorkstreams, LookForStream, LookForTarget,
           WriteNewState, WriteDefaults, ConfigFails, AllUndone, Discard, LockInVain
  <2> QED
    BY <1>2, <1>6, <2>1
<1>8. CASE \/ Unpoint(p) \/ PickArchive(p) \/ LookForState(p) \/ LookForMode(p)
           \/ LookForWork(p) \/ MoveFails(p) \/ AllMoved(p) \/ LookForConfig(p)
           \/ ReadConfig(p) \/ WriteConfig(p) \/ StateFails(p)
  <2>1. \/ Go(p) \/ Stop(p) \/ Skip(p) \/ (\E x : GoTo(p, x))
        \/ \E v : GoWith(p, "was", v) \/ GoWith(p, "num", v) \/ GoWith(p, "copy", v)
    BY <1>8 DEF Unpoint, PickArchive, LookForState, LookForMode, LookForWork, MoveFails,
           AllMoved, LookForConfig, ReadConfig, WriteConfig, StateFails
  <2> QED
    BY <1>2, <1>6, <2>1
<1>9. CASE MakeTarget(p)
  <2>1. GoWith(p, "todo", WorkFiles)
    BY <1>9 DEF MakeTarget
  <2>2. run'[p].todo = WorkFiles /\ run'[p].moved = run[p].moved
    BY <2>1, HandsStay
  <2>3. WorkFiles \in Seq(Work)
    BY DEF WorkFiles, Work
  <2> QED
    BY <1>2, <2>2, <2>3
<1>10. CASE Look(p)
  <2>1. CASE run' = [run EXCEPT ![p].todo = Tail(@)] /\ run[p].todo # <<>>
    <3>1. run'[p].todo = Tail(run[p].todo) /\ run'[p].moved = run[p].moved
      BY <1>3, <2>1, FieldsAre
    <3> QED
      BY <1>2, <2>1, <3>1
  <2>2. CASE Go(p) \/ GoTo(p, "make stream")
    BY <1>2, <1>6, <2>2
  <2> QED
    BY <1>10, <2>1, <2>2 DEF Look
<1>11. CASE Moved(p)
  <2>1. run[p].todo # <<>>
    BY <1>11 DEF Moved
  <2>2. run'[p].todo = Tail(run[p].todo) /\ run'[p].moved = Append(run[p].moved, Todo(p))
    BY <1>3, <1>11, FieldsAre DEF Moved
  <2>3. Todo(p) \in Work /\ Tail(run[p].todo) \in Seq(Work)
    BY <1>2, <2>1 DEF Todo
  <2> QED
    BY <1>2, <2>2, <2>3
<1>12. CASE Undo(p)
  <2>1. run' = [run EXCEPT ![p].moved = Tail(@)] /\ run[p].moved # <<>>
    BY <1>12 DEF Undo
  <2>2. run'[p].moved = Tail(run[p].moved) /\ run'[p].todo = run[p].todo
    BY <1>3, <2>1, FieldsAre
  <2> QED
    BY <1>2, <2>1, <2>2
<1>13. CASE ListEntries(p) \/ LoadConfig(p) \/ Inspect(p) \/ Repair(p) \/ FillConfig(p)
            \/ RewriteFails(p)
  BY <1>5, <1>13, AtNow DEF ListEntries, LoadConfig, Inspect, Repair, FillConfig, RewriteFails
<1>14. CASE Route(p)
  <2>1. CASE Go(p)
    BY <1>2, <1>6, <2>1
  <2>2. CASE ~Go(p)
    <3>1. run'[p].todo = run[p].todo /\ run'[p].moved = run[p].moved
      BY <1>3, <1>14, <2>2, FieldsAre DEF Route
    <3> QED
      BY <1>2, <3>1
  <2> QED
    BY <2>1, <2>2
<1> QED
  BY <1>7, <1>8, <1>9, <1>10, <1>11, <1>12, <1>13, <1>14 DEF SpaceStep

(* The steps that write no config.json leave each where it is, unless a    *)
(* workstream goes whose settings do not count.                            *)
LEMMA SpaceTree ==
  ASSUME LockInv, SettingsInv, NEW p \in Procs, Laying(p), SpaceStep(p),
         ~(WriteDefaults(p) \/ WriteConfig(p) \/ ConfigFails(p) \/ TruncateConfig(p)
           \/ FillConfig(p))
  PROVE  /\ StreamsInside'
         /\ \A scope \in Scopes : Voided(scope) \/ FileStays(PlanningDir(scope), "config.json")
<1> DEFINE c == Cmd(p).name
           Kept == \A scope \in Scopes :
                     Voided(scope) \/ FileStays(PlanningDir(scope), "config.json")
<1>0. Formed /\ Running(p) /\ Started(p) /\ Cmd(p) # Nothing /\ c \in SpaceCommands
  BY DEF LockInv, Formed, CallFormed, Laying, Running
<1>1. StreamsInside /\ SettingsFit(p) /\ MovesFit(p)
  BY DEF SettingsInv
<1>2. Leads(c, Mode(p), Now(p), Modes(c)[run[p].at + 1])
  BY <1>0, StepLeads DEF Now
<1>3. \A N : Is(p, N) <=> c \in N
  BY <1>0 DEF Is
<1>4. /\ c = "create" => Source(p) = Root /\ Target(p) = Workstream(Cmd(p).into)
      /\ c # "create" => Source(p) = Mine(p) /\ Target(p) = ArchiveOf(Cmd(p).stream, run[p].num)
  BY <1>3 DEF Source, Target
<1>5. ASSUME \A s \in Streams : Workstream(s) \in DOMAIN tree' =>
               Workstream(s) \in DOMAIN tree \/ Workstreams \in DOMAIN tree',
             Workstreams \in DOMAIN tree => Workstreams \in DOMAIN tree'
      PROVE  StreamsInside'
  BY <1>1, <1>5 DEF StreamsInside, Exists
<1>6. ASSUME NEW D, tree' = WithDirs(D),
             \A s \in Streams : Workstream(s) \in D => Workstreams \in D
      PROVE  StreamsInside' /\ Kept
  <2>1. DOMAIN tree' = DOMAIN tree \cup D /\ Kept
    BY <1>6, TreeMade
  <2> QED
    BY <1>5, <1>6, <2>1
<1>7. CASE tree' = tree
  <2>1. Kept
    BY <1>7 DEF FileStays, Has, Exists
  <2> QED
    BY <1>5, <1>7, <2>1
<1>8. CASE \/ Route(p) \/ Heal(p) \/ Point(p) \/ Unpoint(p) \/ LookForStream(p)
           \/ LookForMode(p) \/ LookForTarget(p) \/ PickArchive(p) \/ ListEntries(p)
           \/ Look(p) \/ MoveFails(p) \/ AllMoved(p) \/ AllUndone(p)
  BY <1>7, <1>8 DEF Route, Heal, Point, Unpoint, LookForStream, LookForMode, LookForTarget,
        PickArchive, ListEntries, Look, MoveFails, AllMoved, AllUndone, Idle, space
<1>9. CASE \/ LookForState(p) \/ LookForConfig(p) \/ ReadConfig(p) \/ LoadConfig(p)
           \/ Inspect(p) \/ Repair(p) \/ RewriteFails(p) \/ LockInVain(p)
  BY <1>7, <1>9 DEF LookForState, LookForConfig, ReadConfig, LoadConfig, Inspect, Repair,
        RewriteFails, LockInVain, Idle, space
<1>10. CASE LookForWork(p)
  <2>1. tree' = tree \/ tree' = WithDirs({Workstreams})
    BY <1>10 DEF LookForWork
  <2>2. CASE tree' = WithDirs({Workstreams})
    BY <1>6, <2>2, Places
  <2> QED
    BY <1>7, <2>1, <2>2
<1>11. CASE MakeTarget(p) \/ MakeArchive(p)
  <2>1. CASE MakeTarget(p)
    <3>1. tree' = WithDirs(MadeDirs(Target(p)))
      BY <2>1 DEF MakeTarget
    <3>2. Now(p) = "make target"
      BY <2>1, AtNow DEF MakeTarget
    <3>3. c = "create"
      BY <1>2, <3>2 DEF Leads, Loose
    <3>4. Workstreams \in MadeDirs(Target(p))
      BY <1>4, <3>3, Places
    <3> QED
      BY <1>6, <3>1, <3>4
  <2>2. CASE MakeArchive(p)
    <3>1. tree' = WithDirs({Target(p)})
      BY <2>2 DEF MakeArchive
    <3>2. Now(p) = "make archive"
      BY <2>2, AtNow DEF MakeArchive
    <3>3. c = "finish"
      BY <1>2, <3>2 DEF Leads, Loose
    <3>4. \A s : Workstream(s) # Target(p)
      BY <1>4, <3>3, Places
    <3> QED
      BY <1>6, <3>1, <3>4
  <2> QED
    BY <1>11, <2>1, <2>2
<1>12. CASE MakeScope(p)
  <2>1. tree' = WithDirs(MadeDirs(Here(p)))
    BY <1>12 DEF MakeScope
  <2>2. Here(p) \in {Root, Workstream(run[p].scope)}
    BY Places DEF Here
  <2>3. \A s \in Streams : Workstream(s) \in MadeDirs(Here(p)) => Workstreams \in MadeDirs(Here(p))
    BY <2>2, Places
  <2> QED
    BY <1>6, <2>1, <2>3
<1>13. CASE MakeStream(p)
  <2> DEFINE made == WithDirs({Workstreams, Mine(p)})
  <2>1. tree' = IF Has(Mine(p), "phases") THEN made
                ELSE [made EXCEPT ![Mine(p)] = Put(@, "phases", NewWork)]
    BY <1>13 DEF MakeStream
  <2>2. CASE tree' = made
    BY <1>6, <2>2
  <2>3. CASE tree' = [made EXCEPT ![Mine(p)] = Put(@, "phases", NewWork)]
    <3>1. DOMAIN tree' = DOMAIN tree \cup {Workstreams, Mine(p)}
      BY <2>3 DEF WithDirs
    <3>2. ASSUME NEW d, Has(d, "config.json") PROVE FileStays(d, "config.json")
      BY <2>3, <3>2 DEF WithDirs, FileStays, Has, Exists, Put
    <3> QED
      BY <1>5, <3>1, <3>2 DEF FileStays
  <2> QED
    BY <2>1, <2>2, <2>3
<1>14. CASE WriteNewState(p) \/ BackUpState(p) \/ RegenerateState(p) \/ StateFails(p)
  <2>1. ASSUME NEW d, NEW f, NEW v, tree' = WithFile(d, f, v), f # "config.json"
        PROVE  StreamsInside' /\ Kept
    <3>1. DOMAIN tree' = DOMAIN tree /\ \A e, g : e # d \/ g # f => FileStays(e, g)
      BY <2>1, TreeWritten
    <3>2. Kept
      BY <2>1, <3>1
    <3> QED
      BY <1>5, <3>1, <3>2
  <2>2. CASE WriteNewState(p)
    BY <2>1, <2>2 DEF WriteNewState
  <2>3. CASE BackUpState(p)
    <3>1. tree' = tree \/ tree' = WithFile(Here(p), "STATE.md.bak", tree[Here(p)]["STATE.md"])
      BY <2>3 DEF BackUpState
    <3> QED
      BY <1>7, <2>1, <3>1
  <2>4. CASE RegenerateState(p)
    BY <2>1, <2>4 DEF RegenerateState
  <2>5. CASE StateFails(p)
    <3>1. tree' = tree \/ \E d : tree' = WithFile(d, "STATE.md", NewWork)
      BY <2>5 DEF StateFails
    <3> QED
      BY <1>7, <2>1, <3>1
  <2> QED
    BY <1>14, <2>2, <2>3, <2>4, <2>5
<1>15. ASSUME c = "finish" PROVE Voided(Cmd(p).stream)
  BY <1>3, <1>15 DEF Voided, Excused, Disturbed
<1>16. ASSUME NEW from, NEW to, NEW f, CanRename(from, to, f), tree' = Renamed(from, to, f),
              c = "create" => f \in Work,
              c = "finish" => {from, to} = {Source(p), Target(p)},
              c \in {"create", "finish"}
       PROVE  StreamsInside' /\ Kept
  <2>1. DOMAIN tree' = DOMAIN tree /\ \A d, g : d \notin {from, to} \/ g # f => FileStays(d, g)
    BY <1>16, TreeRenamed
  <2>2. CASE c = "create"
    <3>1. f # "config.json"
      BY <1>16, <2>2 DEF Work
    <3>2. Kept
      BY <2>1, <3>1
    <3> QED
      BY <1>5, <2>1, <3>2
  <2>3. CASE c = "finish"
    <3>1. ASSUME NEW scope \in Scopes, ~Voided(scope)
          PROVE  FileStays(PlanningDir(scope), "config.json")
      <4>1. Cmd(p).stream \in Streams
        BY <1>0, <2>3 DEF LockInv, Formed, CallFormed, Movers
      <4>2. PlanningDir(Cmd(p).stream) = Mine(p) /\ scope # Cmd(p).stream
        BY <1>15, <2>3, <3>1, <4>1, Places DEF Mine
      <4>3. PlanningDir(scope) # Mine(p)
        BY <4>1, <4>2, PlacesApart DEF Scopes
      <4>4. PlanningDir(scope) # Target(p)
        BY <1>4, <2>3, Places
      <4>5. PlanningDir(scope) \notin {from, to}
        BY <1>4, <1>16, <2>3, <4>3, <4>4
      <4> QED
        BY <2>1, <4>5
    <3> QED
      BY <1>5, <2>1, <3>1
  <2> QED
    BY <1>16, <2>2, <2>3
<1>17. CASE Moved(p)
  <2>1. /\ CanRename(Source(p), Target(p), Todo(p)) /\ run[p].todo # <<>>
        /\ tree' = Renamed(Source(p), Target(p), Todo(p))
    BY <1>17 DEF Moved
  <2>2. Now(p) = "move"
    BY <1>17, AtNow DEF Moved
  <2>3. c \in {"create", "finish"}
    BY <1>0, <2>2, Takers
  <2>4. c = "create" => Todo(p) \in Work
    BY <1>0, <1>1, <2>1 DEF MovesFit, Todo
  <2> QED
    BY <1>16, <2>1, <2>3, <2>4
<1>18. CASE Undo(p)
  <2>1. CASE tree' # tree
    <3> DEFINE f == Head(run[p].moved)
    <3>1. /\ CanRename(Target(p), Source(p), f) /\ run[p].moved # <<>>
          /\ tree' = Renamed(Target(p), Source(p), f)
      BY <1>18, <2>1 DEF Undo
    <3>2. Now(p) = "undo"
      BY <1>18, AtNow DEF Undo
    <3>3. c \in {"create", "finish"}
      BY <1>2, <3>2 DEF Leads, Loose
    <3>4. c = "create" => f \in Work
      BY <1>0, <1>1, <3>1 DEF MovesFit
    <3> HIDE DEF f
    <3> QED
      BY <1>16, <3>1, <3>3, <3>4
  <2> QED
    BY <1>7, <2>1
<1>19. CASE Discard(p)
  <2>1. tree' = Drop(tree, {Target(p)}) /\ Now(p) = "discard"
    BY <1>19, AtNow DEF Discard
  <2>2. c \in {"create", "finish"}
    BY <1>2, <2>1 DEF Leads, Loose
  <2>3. DOMAIN tree' = DOMAIN tree \ {Target(p)} /\ \A d, f : d # Target(p) => FileStays(d, f)
    BY <2>1, TreeDropped
  <2>4. Target(p) # Workstreams
    BY <1>4, <2>2, Places
  <2>5. ASSUME NEW scope \in Scopes, PlanningDir(scope) = Target(p) PROVE Voided(scope)
    <3>1. c = "create"
      BY <1>4, <2>2, <2>5, Places
    <3>2. PlanningDir(scope) = Workstream(Cmd(p).into) /\ scope \in Streams
      BY <1>4, <2>5, <3>1, Places DEF PlanningDir, Scopes
    <3>3. scope = Cmd(p).into
      BY <3>2, Places
    <3>4. Voided(Cmd(p).into)
      BY <1>1, <2>1, <3>1 DEF SettingsFit, Fits, Migrating
    <3> QED
      BY <3>3, <3>4
  <2> QED
    BY <1>5, <2>3, <2>4, <2>5
<1>20. CASE RemoveStream(p)
  <2>1. CASE tree' # tree
    <3>1. Exists(Mine(p)) /\ DOMAIN tree[Mine(p)] = {} /\ tree' = Drop(tree, {Mine(p)})
      BY <1>20, <2>1 DEF RemoveStream
    <3>2. DOMAIN tree' = DOMAIN tree \ {Mine(p)} /\ \A d, f : d # Mine(p) => FileStays(d, f)
      BY <3>1, TreeDropped
    <3>3. \A f : FileStays(Mine(p), f)
      BY <3>1 DEF FileStays, Has
    <3>4. Mine(p) # Workstreams
      BY Places DEF Mine
    <3> QED
      BY <1>5, <3>2, <3>3, <3>4
  <2> QED
    BY <1>7, <2>1
<1>21. CASE DropWorkstreams(p)
  <2>1. CASE tree' # tree
    <3>1. (\A d \in DOMAIN tree : d.kind # "workstream") /\ tree' = Drop(tree, {Workstreams})
      BY <1>21, <2>1 DEF DropWorkstreams
    <3>2. DOMAIN tree' = DOMAIN tree \ {Workstreams}
          /\ \A d, f : d # Workstreams => FileStays(d, f)
      BY <3>1, TreeDropped
    <3>3. \A s : Workstream(s) \notin DOMAIN tree'
      BY <3>1, <3>2, Places
    <3>4. \A scope : PlanningDir(scope) # Workstreams
      BY Places
    <3> QED
      BY <3>2, <3>3, <3>4 DEF StreamsInside, Exists
  <2> QED
    BY <1>7, <2>1
<1> QED
  BY <1>8, <1>9, <1>10, <1>11, <1>12, <1>13, <1>14, <1>17, <1>18, <1>19, <1>20, <1>21
     DEF SpaceStep

(* At the step that fills the file, that is what a call does.              *)
LEMMA FillsThere ==
  ASSUME NEW p \in Procs, SpaceStep(p), Now(p) = "fill config"
  PROVE  FillConfig(p) \/ RewriteFails(p)
<1> USE DEF At, Now
<1>1. ~(Route(p) \/ Heal(p) \/ Point(p) \/ Unpoint(p)
        \/ LookForStream(p) \/ LookForMode(p) \/ LookForWork(p) \/ LookForTarget(p)
        \/ MakeTarget(p) \/ PickArchive(p) \/ MakeArchive(p) \/ ListEntries(p) \/ Look(p))
  BY DEF Route, Heal, Point, Unpoint, LookForStream, LookForMode, LookForWork, LookForTarget,
         MakeTarget, PickArchive, MakeArchive, ListEntries, Look
<1>2. ~(Moved(p) \/ MoveFails(p) \/ AllMoved(p) \/ Undo(p) \/ AllUndone(p) \/ Discard(p)
        \/ RemoveStream(p) \/ DropWorkstreams(p) \/ MakeStream(p) \/ LookForState(p)
        \/ WriteNewState(p))
  BY DEF Moved, MoveFails, AllMoved, Undo, AllUndone, Discard, RemoveStream, DropWorkstreams,
         MakeStream, LookForState, WriteNewState
<1>3. ~(MakeScope(p) \/ LookForConfig(p) \/ WriteDefaults(p) \/ ReadConfig(p)
        \/ WriteConfig(p) \/ ConfigFails(p) \/ LoadConfig(p) \/ TruncateConfig(p)
        \/ Inspect(p) \/ Repair(p) \/ BackUpState(p) \/ RegenerateState(p) \/ StateFails(p)
        \/ LockInVain(p))
  BY DEF MakeScope, LookForConfig, WriteDefaults, ReadConfig, WriteConfig, ConfigFails,
         LoadConfig, TruncateConfig, Inspect, Repair, BackUpState, RegenerateState, StateFails,
         LockInVain, InVain
<1> QED
  BY <1>1, <1>2, <1>3 DEF SpaceStep

(* After a step of PlanningSpace the files say what was set.               *)
LEMMA FilesTell ==
  ASSUME LockInv, SettingsInv, NEW p \in Procs, Laying(p), SpaceStep(p),
         \A t : Excused(t) => Excused(t)'
  PROVE  /\ ToldFits' /\ StreamsInside'
         /\ \A t \in told' : Excused(t)' \/ FileTells(t)'
<1> DEFINE c == Cmd(p).name
<1> PICK y \in Scopes : y = run[p].scope
  BY DEF LockInv, Formed, CallFormed
<1>0. /\ Formed /\ Same(p) /\ Running(p) /\ c \in SpaceCommands
      /\ Cmd(p) # Nothing /\ DOMAIN run = Procs
  BY SpaceIsSame DEF LockInv, Formed, CallFormed, Laying, Running
<1>1. /\ ToldFits /\ StreamsInside /\ \A t \in told : Excused(t) \/ FileTells(t)
      /\ Fits(c, Now(p), run[p].copy, run[p].todo, y, Cmd(p).into)
      /\ CallFine(p)
  BY DEF SettingsInv, SettingsFit
<1>2. Leads(c, Mode(p), Now(p), Modes(c)[run[p].at + 1])
  BY <1>0, StepLeads DEF Now
<1>3. ASSUME NEW q \in Procs, q # p, Running(q), Filling(q)
      PROVE  Running(q)' /\ Filling(q)' /\ run'[q].scope = run[q].scope
  BY <1>0, <1>3 DEF Same, Running, Filling, Is, Started, Steps, Cmd
<1>4. ASSUME NEW t \in told, FileStays(PlanningDir(t.scope), "config.json"),
             Now(p) # "fill config" \/ y # t.scope
      PROVE  Excused(t)' \/ FileTells(t)'
  <2>1. CASE Excused(t)
    BY <2>1
  <2>2. CASE ~Excused(t)
    <3>1. HasConfig(t.scope) /\ HasConfig(t.scope)' /\ FileOf(t.scope)' = FileOf(t.scope)
      BY <1>1, <1>4, <2>2 DEF FileTells, HasConfig, FileOf, FileStays
    <3>2. CASE Tells(FileOf(t.scope), t)
      <4>1. Tells(FileOf(t.scope), t)' = Tells(FileOf(t.scope)', t)
        BY DEF Tells
      <4> QED
        BY <3>1, <3>2, <4>1 DEF FileTells
    <3>3. CASE ~Tells(FileOf(t.scope), t)
      <4>1. PICK q \in Procs : Running(q) /\ Filling(q) /\ run[q].scope = t.scope
        BY <1>1, <2>2, <3>3 DEF FileTells
      <4>2. FileOf(t.scope) = Torn
        BY <1>1, <2>2, <3>3 DEF FileTells
      <4>3. q # p
        <5>1. Now(q) = "fill config"
          BY <4>1 DEF Filling, Now
        <5> QED
          BY <1>4, <4>1, <5>1
      <4>4. Running(q)' /\ Filling(q)' /\ run'[q].scope = t.scope
        BY <1>3, <4>1, <4>3
      <4> QED
        BY <3>1, <4>2, <4>4 DEF FileTells
    <3> QED
      BY <3>2, <3>3
  <2> QED
    BY <2>1, <2>2
<1>5. ASSUME told' = told PROVE ToldFits'
  BY <1>1, <1>5 DEF ToldFits
<1>6. Here(p) = PlanningDir(y)
  BY DEF Here
<1>7. ASSUME NEW content, tree' = WithFile(Here(p), "config.json", content)
      PROVE  /\ StreamsInside'
             /\ \A s \in Scopes : s # y => FileStays(PlanningDir(s), "config.json")
             /\ Exists(Here(p)) => HasConfig(y)' /\ FileOf(y)' = content
  <2>1. /\ DOMAIN tree' = DOMAIN tree
        /\ \A d, f : d # PlanningDir(y) \/ f # "config.json" => FileStays(d, f)
        /\ Exists(PlanningDir(y)) => /\ Has(PlanningDir(y), "config.json")'
                                    /\ tree'[PlanningDir(y)]["config.json"] = content
    BY <1>6, <1>7, TreeWritten
  <2>2. StreamsInside'
    BY <1>1, <2>1 DEF StreamsInside, Exists
  <2>3. \A s \in Scopes : s # y => FileStays(PlanningDir(s), "config.json")
    BY <2>1, PlacesApart
  <2>4. Exists(Here(p)) => HasConfig(y)' /\ FileOf(y)' = content
    BY <1>6, <2>1 DEF HasConfig, FileOf, Has, Exists
  <2> QED
    BY <2>2, <2>3, <2>4
<1>8. ASSUME NEW t \in told, t.scope = y, ~Excused(t) PROVE Exists(Here(p))
  BY <1>1, <1>6, <1>8 DEF FileTells, HasConfig, Has
<1>14. ASSUME NEW t, t.scope = y, lost' = lost \cup {[config |-> run[p].scope]}
       PROVE  Excused(t)'
  BY <1>14 DEF Excused, Disturbed
<1>15. CASE RewriteFails(p)
  <2>1. tree' = tree /\ told' = told
        /\ (Now(p) = "fill config" => lost' = lost \cup {[config |-> run[p].scope]})
    BY <1>15, AtNow DEF RewriteFails, space, At, Now
  <2>2. ASSUME NEW t \in told PROVE Excused(t)' \/ FileTells(t)'
    <3>1. CASE t.scope = y /\ Now(p) = "fill config"
      BY <1>14, <2>1, <3>1
    <3>2. CASE ~(t.scope = y /\ Now(p) = "fill config")
      <4>1. FileStays(PlanningDir(t.scope), "config.json")
        BY <2>1 DEF FileStays, Has, Exists
      <4> QED
        BY <1>4, <3>2, <4>1
    <3> QED
      BY <3>1, <3>2
  <2> QED
    BY <1>1, <1>5, <2>1, <2>2 DEF StreamsInside, Exists
<1>16. CASE ConfigFails(p)
  <2>1. told' = told /\ Now(p) # "fill config"
    <3>1. told' = told
      BY <1>16 DEF ConfigFails
    <3>2. At(p, "write defaults") \/ At(p, "write config")
      BY <1>16 DEF ConfigFails
    <3> QED
      BY <3>1, <3>2 DEF At, Now
  <2>2. CASE EmptiesConfig(p)
    <3>1. tree' = WithFile(Here(p), "config.json", Torn)
      BY <2>2 DEF EmptiesConfig
    <3>2. ASSUME NEW t \in told PROVE Excused(t)' \/ FileTells(t)'
      <4>1. CASE t.scope = y
        BY <1>14, <2>2, <4>1 DEF EmptiesConfig
      <4>2. CASE t.scope # y
        BY <1>1, <1>4, <1>7, <3>1, <4>2 DEF ToldFits
      <4> QED
        BY <4>1, <4>2
    <3> QED
      BY <1>5, <1>7, <2>1, <3>1, <3>2
  <2>3. CASE tree' = tree
    <3>1. \A d : FileStays(d, "config.json")
      BY <2>3 DEF FileStays, Has, Exists
    <3> QED
      BY <1>1, <1>4, <1>5, <2>1, <2>3, <3>1 DEF StreamsInside, Exists
  <2> QED
    BY <1>16, <2>2, <2>3 DEF ConfigFails
<1>9. CASE ~(WriteDefaults(p) \/ WriteConfig(p) \/ ConfigFails(p) \/ TruncateConfig(p)
             \/ FillConfig(p) \/ RewriteFails(p))
  <2>1. /\ StreamsInside'
        /\ \A scope \in Scopes : Voided(scope) \/ FileStays(PlanningDir(scope), "config.json")
    BY <1>9, SpaceTree
  <2>2. told' = told
    BY <1>9 DEF SpaceStep, Route, Heal, Point, Unpoint, LookForStream, LookForMode,
           LookForWork, LookForTarget, MakeTarget, PickArchive, MakeArchive, ListEntries,
           Look, Moved, MoveFails, AllMoved, Undo, AllUndone, Discard, RemoveStream,
           DropWorkstreams, MakeStream, LookForState, WriteNewState, MakeScope,
           LookForConfig, ReadConfig, LoadConfig, Inspect, Repair, BackUpState,
           RegenerateState, StateFails, LockInVain, Idle, OnlyTree
  <2>3. ASSUME NEW t \in told PROVE Excused(t)' \/ FileTells(t)'
    <3>1. CASE Voided(t.scope)
      BY <3>1 DEF Voided
    <3>2. CASE FileStays(PlanningDir(t.scope), "config.json")
      BY <1>4, <1>9, <3>2, FillsThere
    <3> QED
      BY <1>1, <2>1, <3>1, <3>2 DEF ToldFits
  <2> QED
    BY <1>5, <2>1, <2>2, <2>3
<1>10. CASE WriteDefaults(p)
  <2>1. tree' = WithFile(Here(p), "config.json", NewProjectConfig) /\ told' = told
        /\ Now(p) = "write defaults"
    BY <1>10, AtNow DEF WriteDefaults, AtomicWrite, OnlyTree
  <2>2. Voided(y)
    BY <1>1, <2>1 DEF Fits, Remaking
  <2>3. ASSUME NEW t \in told PROVE Excused(t)' \/ FileTells(t)'
    <3>1. CASE t.scope = y
      BY <2>2, <3>1 DEF Voided
    <3>2. CASE t.scope # y
      BY <1>1, <1>4, <1>7, <2>1, <3>2 DEF ToldFits
    <3> QED
      BY <3>1, <3>2
  <2> QED
    BY <1>5, <1>7, <2>1, <2>3
<1>11. CASE TruncateConfig(p)
  <2>1. tree' = WithFile(Here(p), "config.json", Torn) /\ told' = told
        /\ Now(p) = "truncate config" /\ Go(p)
    BY <1>11, AtNow DEF TruncateConfig, OnlyTree
  <2>3. c \in {"load", "health"}
    BY <1>2, <2>1 DEF Leads, Loose
  <2>4. Running(p)' /\ Filling(p)' /\ run'[p].scope = y
    <3>1. run'[p].at = run[p].at + 1 /\ run'[p].scope = y
      BY <1>0, <2>1, HandsStay DEF Hands
    <3>2. Cmd(p)' = Cmd(p) /\ Laying(p)' /\ Follows(c, Now(p), Now(p)')
      BY <1>0, <2>1, <3>1, WhereSpace DEF Same
    <3>3. Now(p)' = "fill config"
      BY <2>1, <3>2 DEF Follows
    <3>4. Running(p)' /\ Started(p)' /\ Is(p, {"load", "health"})'
      BY <2>3, <3>2 DEF Laying, Running, Is
    <3>5. Formed'
      BY <1>0, SpaceStepIsLocal, PointersAreKept, LocalStaysFormed DEF LockInv, Running, Is
    <3>6. (run[p].at \in 1 .. Len(Steps(p)))'
      BY <3>4, <3>5, StepLeads, PTL
    <3>7. PICK X : Program[c] \in Seq(X)
      BY <1>0, SpaceLinks DEF Linked
    <3>8. Steps(p)' = Program[c]
      BY <3>2 DEF Steps, Cmd
    <3>9. run'[p].at \in DOMAIN Program[c]
      BY <3>6, <3>7, <3>8
    <3> QED
      BY <3>1, <3>3, <3>4, <3>8, <3>9 DEF Filling, Now
  <2>5. ASSUME NEW t \in told PROVE Excused(t)' \/ FileTells(t)'
    <3>1. CASE Excused(t)
      BY <3>1
    <3>2. CASE t.scope = y /\ ~Excused(t)
      BY <1>7, <1>8, <2>1, <2>4, <3>2 DEF FileTells
    <3>3. CASE t.scope # y
      BY <1>1, <1>4, <1>7, <2>1, <3>3 DEF ToldFits
    <3> QED
      BY <3>1, <3>2, <3>3
  <2> QED
    BY <1>5, <1>7, <2>1, <2>5
<1>12. CASE FillConfig(p)
  <2>1. tree' = WithFile(Here(p), "config.json", run[p].copy) /\ told' = told
        /\ Now(p) = "fill config"
    BY <1>12, AtNow DEF FillConfig, OnlyTree
  <2>2. Holds(run[p].copy, y)
    BY <1>1, <2>1 DEF Fits, ToWrite
  <2>3. ASSUME NEW t \in told PROVE Excused(t)' \/ FileTells(t)'
    <3>1. CASE Excused(t)
      BY <3>1
    <3>2. CASE t.scope = y /\ ~Excused(t)
      <4>1. Tells(run[p].copy, t) /\ HasConfig(y)' /\ FileOf(y)' = run[p].copy
        BY <1>7, <1>8, <2>1, <2>2, <3>2 DEF Holds
      <4>2. Tells(FileOf(t.scope), t)'
        BY <3>2, <4>1 DEF Tells
      <4> QED
        BY <3>2, <4>1, <4>2 DEF FileTells
    <3>3. CASE t.scope # y
      BY <1>1, <1>4, <1>7, <2>1, <3>3 DEF ToldFits
    <3> QED
      BY <3>1, <3>2, <3>3
  <2> QED
    BY <1>5, <1>7, <2>1, <2>3
<1>13. CASE WriteConfig(p)
  <2> PICK key : key = SetKey(p)
    OBVIOUS
  <2> PICK content : content = Put(run[p].copy, key, p)
    OBVIOUS
  <2> PICK new : new = [scope |-> y, setting |-> key, by |-> p]
    OBVIOUS
  <2>1. tree' = WithFile(Here(p), "config.json", content) /\ Now(p) = "write config"
    BY <1>13, AtNow DEF WriteConfig, AtomicWrite
  <2>3. Holds(run[p].copy, y)
    BY <1>1, <2>1 DEF Fits, ToWrite
  <2>4. key \notin InternalKeys \cup DOMAIN Torn
    BY <1>0, <1>1 DEF SetKey, CallFine, InternalKeys, Torn
  <2>5. \/ told' = told /\ ~Exists(Here(p))
        \/ /\ Exists(Here(p))
           /\ told' = {t \in told : t.scope # y \/ t.setting # key} \cup {new}
    BY <1>13 DEF WriteConfig
  <2>6. new.scope = y /\ new.setting = key /\ new.by = p
    OBVIOUS
  <2>7. ToldFits'
    BY <1>0, <1>1, <2>4, <2>5, <2>6 DEF ToldFits
  <2>8. ASSUME NEW t \in told, t.scope # y PROVE Excused(t)' \/ FileTells(t)'
    BY <1>1, <1>4, <1>7, <2>1, <2>8 DEF ToldFits
  <2>9. ASSUME NEW t, t.scope = y, Exists(Here(p)), Tells(content, t)
        PROVE  FileTells(t)'
    <3>1. HasConfig(y)' /\ FileOf(y)' = content
      BY <1>7, <2>1, <2>9
    <3>2. Tells(FileOf(t.scope), t)'
      BY <2>9, <3>1 DEF Tells
    <3> QED
      BY <2>9, <3>1, <3>2 DEF FileTells
  <2>10. CASE ~Exists(Here(p))
    <3>1. told' = told
      BY <2>5, <2>10
    <3>2. ASSUME NEW t \in told PROVE Excused(t)' \/ FileTells(t)'
      BY <1>8, <2>8, <2>10
    <3> QED
      BY <1>7, <2>1, <2>7, <3>1, <3>2
  <2>11. CASE Exists(Here(p))
    <3>1. told' = {t \in told : t.scope # y \/ t.setting # key} \cup {new}
      BY <2>5, <2>11
    <3>2. FileTells(new)'
      <4>1. Tells(content, new)
        BY <2>6, PutIsTold
      <4> QED
        BY <2>6, <2>9, <2>11, <4>1
    <3>3. ASSUME NEW t \in told, t.scope = y, t.setting # key
          PROVE  Excused(t)' \/ FileTells(t)'
      <4>1. CASE Excused(t)
        BY <4>1
      <4>2. CASE Tells(run[p].copy, t)
        <5>1. Tells(content, t)
          BY <3>3, <4>2, PutTells
        <5> QED
          BY <2>9, <2>11, <3>3, <5>1
      <4> QED
        BY <2>3, <3>3, <4>1, <4>2 DEF Holds
    <3>4. ASSUME NEW t \in told' PROVE Excused(t)' \/ FileTells(t)'
      <4>1. CASE t = new
        BY <3>2, <4>1
      <4>2. CASE t \in told /\ (t.scope # y \/ t.setting # key)
        BY <2>8, <3>3, <4>2
      <4> QED
        BY <3>1, <4>1, <4>2
    <3> QED
      BY <1>7, <2>1, <2>7, <3>4
  <2> QED
    BY <2>10, <2>11
<1> QED
  BY <1>9, <1>10, <1>11, <1>12, <1>13, <1>15, <1>16

(* A step of p leaves it with what fits,                                   *)
LEMMA OwnSettings ==
  ASSUME LockInv, TogetherFits, SettingsInv, NEW p \in Procs, Laying(p), SpaceStep(p),
         \A t : Excused(t) => Excused(t)'
  PROVE  SettingsFit(p)'
<1>0. Formed /\ Same(p) /\ Cmd(p)' = Cmd(p) /\ SettingsFit(p)
  BY SpaceIsSame DEF LockInv, Same, Cmd, SettingsInv
<1>1. CASE WriteConfig(p)
  <2>1. Now(p) = "write config" /\ (Go(p) \/ Stop(p))
    BY <1>1, AtNow DEF WriteConfig
  <2>2. CASE Stop(p)
    <3>1. ~Laying(p)'
      BY <1>0, <2>2, HandsStay, WhereSpace DEF Same
    <3> QED
      BY <3>1 DEF SettingsFit
  <2>3. CASE Go(p)
    <3>1. Laying(p)' => Follows(Cmd(p).name, "write config", Now(p)')
      BY <1>0, <2>1, <2>3, HandsStay, WhereSpace DEF Same
    <3>2. Laying(p)' => Carries(Cmd(p).name, "route", Now(p)')
      BY <3>1, CarriesOn
    <3>3. Laying(p)' => Fits(Cmd(p).name, Now(p), run[p].copy, run[p].todo, run[p].scope,
                             Cmd(p).into)'
      BY <1>0, <3>2 DEF Carries, Fits, ToWrite, Remaking, Mending, Regenerating, Migrating
    <3> QED
      BY <3>3 DEF SettingsFit
  <2> QED
    BY <2>1, <2>2, <2>3
<1>2. CASE ~WriteConfig(p) /\ Decides(p)
  <2>1. told' = told
    BY <1>2 DEF Decides, LookForMode, LookForConfig, ReadConfig, LoadConfig, Inspect, Repair,
           FillConfig, RewriteFails, Idle, OnlyTree
  <2> QED
    BY <1>2, <2>1, DecidesFit
<1>3. CASE Carried(p)
  BY <1>0, <1>3, CarriedFits
<1> QED
  BY <1>1, <1>2, <1>3, SpaceMoves

(* and the others too: a setting they do not know of is one that two calls *)
(* were about, or one that is written inside a lock they wait for.         *)
LEMMA OthersSettings ==
  ASSUME LockInv, TogetherFits, SettingsInv, NEW p \in Procs, Laying(p), SpaceStep(p),
         \A t : Excused(t) => Excused(t)', NEW q \in Procs \ {p}
  PROVE  SettingsFit(q)'
<1> DEFINE c == Cmd(p).name  d == Cmd(q).name
<1> PICK y \in Scopes : y = run[p].scope
  BY DEF LockInv, Formed, CallFormed
<1> PICK new : new = [scope |-> y, setting |-> SetKey(p), by |-> p]
  OBVIOUS
<1>0. /\ Formed /\ run'[q] = run[q] /\ Running(p) /\ Started(p)
      /\ Laying(q)' <=> Laying(q)
  BY SpaceIsSame DEF LockInv, Laying, Running, Started, Steps, Cmd, Same
<1>1. SUFFICES ASSUME Laying(q)
               PROVE  Fits(Cmd(q).name, Now(q), run[q].copy, run[q].todo, run[q].scope,
                           Cmd(q).into)'
  BY <1>0 DEF SettingsFit
<1>2. /\ Fits(d, Now(q), run[q].copy, run[q].todo, run[q].scope, Cmd(q).into)
      /\ StreamOwners
  BY <1>1 DEF SettingsInv, SettingsFit
<1>3. Now(q)' = Now(q) /\ Cmd(q)' = Cmd(q)
  BY <1>0 DEF Now, Steps, Cmd
<1>4. Running(q) /\ Started(q) /\ d \in SpaceCommands /\ c \in SpaceCommands
  BY <1>1 DEF Laying, Running
<1>5. told' \subseteq told \/ (WriteConfig(p) /\ told' \subseteq told \cup {new})
  <2>1. CASE WriteConfig(p)
    BY <2>1 DEF WriteConfig
  <2>2. CASE ~WriteConfig(p)
    <3>1. CASE Carried(p)
      BY <3>1 DEF Carried
    <3>2. CASE Decides(p)
      BY <2>2, <3>2 DEF Decides, LookForMode, LookForConfig, ReadConfig, LoadConfig, Inspect,
            Repair, FillConfig, RewriteFails, Idle, OnlyTree
    <3> QED
      BY <3>1, <3>2, SpaceMoves
  <2> QED
    BY <2>1, <2>2
<1>6. CASE told' \subseteq told \/ Excused(new)
  <2>1. \A t \in told' : t \in told \/ Excused(t)'
    BY <1>5, <1>6
  <2>2. /\ \A config, scope : Holds(config, scope) => Holds(config, scope)'
        /\ \A scope : Voided(scope) => Voided(scope)'
    BY <2>1 DEF Holds, Voided, Tells
  <2> QED
    BY <1>0, <1>2, <1>3, <2>2 DEF Fits
<1>7. CASE ~(told' \subseteq told) /\ ~Excused(new)
  <2>1. WriteConfig(p) /\ told' \subseteq told \cup {new} /\ new.scope = y /\ new.by = p
    BY <1>5, <1>7
  <2>2. /\ \A config, scope : scope # y /\ Holds(config, scope) => Holds(config, scope)'
        /\ \A scope : scope # y /\ Voided(scope) => Voided(scope)'
    BY <2>1 DEF Holds, Voided, Tells
  <2>3. Now(p) = "write config"
    BY <2>1, AtNow DEF WriteConfig
  <2>4. Leads(c, Mode(p), Now(p), Modes(c)[run[p].at + 1])
        /\ Leads(d, Mode(q), Now(q), Modes(d)[run[q].at + 1])
    BY <1>0, <1>4, StepLeads DEF Now
  <2>5. c \in {"set", "profile"} /\ Mode(p) \in PlanningModes
    BY <2>3, <2>4 DEF Leads, Loose, PlanningModes
  <2>6. {q, p} \in together
    <3>1. Related(d, c)
      BY <1>4 DEF Related
    <3> QED
      BY <1>0, <1>4, <3>1 DEF TogetherFits
  <2>7. d \notin Unlocked
    BY <1>4, <1>7, <2>1, <2>6 DEF Excused, Raced, Is
  <2>8. ~Disturbed(y)
    BY <1>7, <2>1 DEF Excused
  <2>9. d = "create" => Cmd(q).into # y
    BY <1>0, <1>4, <2>5, <2>6, <2>8 DEF Disturbed, Is
  <2>10. Now(q) = "write config" => run[q].scope # y
    <3>1. SUFFICES ASSUME Now(q) = "write config", run[q].scope = y PROVE FALSE
      OBVIOUS
    <3>2. Mode(q) \in PlanningModes
      BY <2>4, <3>1 DEF Leads, Loose, PlanningModes
    <3>3. y # "state"
      BY ProcessAssumption DEF Scopes
    <3>4. Inside(p, y) /\ Inside(q, y)
      BY <1>0, <1>4, <2>5, <3>1, <3>2, <3>3 DEF Inside
    <3>5. CASE y = "planning"
      BY <1>0, <1>4, <2>8, <3>4, <3>5 DEF LockInv, InsideOwns, Disturbed
    <3>6. CASE y \in Streams
      BY <1>0, <1>2, <1>4, <2>8, <3>4, <3>6 DEF StreamOwners
    <3> QED
      BY <3>5, <3>6 DEF Scopes
  <2>11. /\ Now(q) \in ToWrite => Now(q) = "write config"
         /\ ~Remaking(d, Now(q))
    BY <2>4, <2>7 DEF Leads, Loose, ToWrite, Remaking, Unlocked
  <2>12. d \notin {"load", "health"}
    BY <2>7 DEF Unlocked
  <2> QED
    BY <1>0, <1>2, <1>3, <2>2, <2>9, <2>10, <2>11, <2>12 DEF Fits
<1> QED
  BY <1>6, <1>7

-----------------------------------------------------------------------------
(* Inside the lock of a workstream there are only calls that set something.*)
LEMMA Insiders ==
  ASSUME Formed, NEW q \in Procs, Running(q), NEW s \in Streams, Inside(q, s)
  PROVE  Cmd(q).name \in {"set", "profile"} /\ run[q].scope = s
<1> DEFINE c == Cmd(q).name
<1>1. s # "state" /\ s # "planning"
  BY ProcessAssumption
<1>2. run[q].scope = s /\ Mode(q) \in PlanningModes
  BY <1>1 DEF Inside
<1>3. c \in Commands /\ c \notin PhaseCommands
  BY <1>1, <1>2 DEF Formed, CallFormed, Running
<1>4. Leads(c, Mode(q), Now(q), Modes(c)[run[q].at + 1]) /\ run[q].at \in 1 .. Len(Steps(q))
      /\ Len(Steps(q)) \in Nat
  BY StepLeads DEF Now
<1>5. Now(q) = "unlock planning" \/ c \in {"set", "profile"}
  <2>1. c # "complete"
    BY <1>3, CommandsAre
  <2> QED
    BY <1>2, <1>3, <1>4, <2>1 DEF Leads, PlanningModes
<1>6. CASE Now(q) = "unlock planning"
  <2>1. c \notin ProfileCommands /\ c \notin KnowledgeCommands
    BY <1>6, NoProfileLocks, WhereKnowledge DEF LockSteps
  <2>2. c \in SpaceCommands
    BY <1>3, <2>1 DEF Commands
  <2>3. run[q].at # 1
    <3>1. Modes(c)[1] = "out"
      BY <1>3, ModesAre
    <3> QED
      BY <1>2, <3>1 DEF Mode, PlanningModes
  <2>4. PICK x, y : Linked(c, Steps(q), x, y)
    BY <2>2, SpaceLinks DEF Steps, Cmd
  <2>5. run[q].at - 1 \in 1 .. Len(Steps(q)) - 1 /\ (run[q].at - 1) + 1 = run[q].at
    BY <1>4, <2>3
  <2>6. Follows(c, Steps(q)[run[q].at - 1], Steps(q)[run[q].at])
    BY <2>4, <2>5 DEF Linked
  <2> QED
    BY <1>2, <1>6, <2>6 DEF Follows, Now
<1> QED
  BY <1>2, <1>5, <1>6

\* A step that takes at most the locks of its own call.
OwnLocks(p) == lock' = lock \/ \E l : Unlinked(p, l)

(* Most steps do.                                                          *)
LEMMA StepsTakeOwnLocks ==
  ASSUME NEW p \in Procs
  PROVE  /\ PhaseStep(p) => OwnLocks(p)
         /\ ProfileStep(p) => OwnLocks(p)
         /\ KnowledgeStep(p) => OwnLocks(p)
         /\ SpaceStep(p) => OwnLocks(p) \/ Moved(p) \/ Undo(p) \/ Discard(p)
<1> USE DEF OwnLocks, locks
<1>1. KnowledgeStep(p) => OwnLocks(p)
  BY DEF KnowledgeStep, ListLibrary, ReadLearning, CreateLearning, FillLearning,
         LearningFails, LookAtOld, FindLearning, UnlinkLearning
<1>2. ProfileStep(p) => OwnLocks(p)
  BY DEF ProfileStep, LookAtProfile, ReadProfiles, FetchCatalog, ReadProfile, ReadOpencode,
         ReadPermission, LookAtOpencode, Restore, CreateBackup, Empty, Fill, WriteFails,
         Quietly
<1>3. PhaseStep(p) => OwnLocks(p)
  <2>1. (FindPhaseDir(p) \/ DeleteDirectory(p) \/ ListDirectories(p) \/ RenameDirectory(p)
          \/ RenameFails(p) \/ MakeDirectory(p) \/ MakeDirectoryFails(p)
          \/ ClearDirectories(p) \/ ArchiveDirectories(p))
          => OwnLocks(p)
    BY DEF FindPhaseDir, DeleteDirectory, ListDirectories, RenameDirectory, RenameFails,
           MakeDirectory, MakeDirectoryFails, ClearDirectories, ArchiveDirectories, ExitHook
  <2>2. (WriteSummary(p) \/ Manage(p) \/ ReadRoadmap(p) \/ WriteRoadmap(p)
          \/ WriteRoadmapFails(p) \/ ReadRequirements(p) \/ WriteRequirements(p)
          \/ WriteRequirementsFails(p) \/ Scan(p))
          => OwnLocks(p)
    BY DEF WriteSummary, Manage, ReadRoadmap, WriteRoadmap, WriteRoadmapFails,
           ReadRequirements, WriteRequirements, WriteRequirementsFails, Scan, ExitHook
  <2>3. (FindNext(p) \/ ReadState(p) \/ ReadCutoff(p) \/ DeriveState(p) \/ WriteState(p)
          \/ WriteStateFails(p) \/ ReadArchive(p) \/ WriteArchive(p)
          \/ WriteArchiveFails(p))
          => OwnLocks(p)
    BY DEF FindNext, ReadState, ReadCutoff, DeriveState, WriteState, WriteStateFails,
           ReadArchive, WriteArchive, WriteArchiveFails, ExitHook
  <2> QED
    BY <2>1, <2>2, <2>3 DEF PhaseStep
<1>4. SpaceStep(p) => OwnLocks(p) \/ Moved(p) \/ Undo(p) \/ Discard(p)
  <2> USE DEF Idle, OnlyTree
  <2>1. (Route(p) \/ Heal(p) \/ Point(p) \/ Unpoint(p) \/ LookForStream(p)
          \/ LookForMode(p) \/ LookForWork(p) \/ LookForTarget(p) \/ MakeTarget(p)
          \/ PickArchive(p) \/ MakeArchive(p))
          => OwnLocks(p)
    BY DEF Route, Heal, Point, Unpoint, LookForStream, LookForMode, LookForWork,
           LookForTarget, MakeTarget, PickArchive, MakeArchive
  <2>2. (ListEntries(p) \/ Look(p) \/ MoveFails(p) \/ AllMoved(p) \/ AllUndone(p)
          \/ RemoveStream(p) \/ DropWorkstreams(p) \/ MakeStream(p)
          \/ LookForState(p) \/ WriteNewState(p))
          => OwnLocks(p)
    BY DEF ListEntries, Look, MoveFails, AllMoved, AllUndone, RemoveStream,
           DropWorkstreams, MakeStream, LookForState, WriteNewState
  <2>3. (MakeScope(p) \/ LookForConfig(p) \/ WriteDefaults(p) \/ ReadConfig(p)
          \/ WriteConfig(p) \/ ConfigFails(p) \/ LoadConfig(p) \/ TruncateConfig(p)
          \/ FillConfig(p) \/ RewriteFails(p) \/ Inspect(p) \/ Repair(p)
          \/ BackUpState(p) \/ RegenerateState(p) \/ StateFails(p) \/ LockInVain(p))
          => OwnLocks(p)
    BY DEF MakeScope, LookForConfig, WriteDefaults, ReadConfig, WriteConfig, ConfigFails,
           LoadConfig, TruncateConfig, FillConfig, RewriteFails, Inspect, Repair,
           BackUpState, RegenerateState, StateFails, LockInVain, ExitHook
  <2> QED
    BY <2>1, <2>2, <2>3 DEF SpaceStep
<1> QED
  BY <1>1, <1>2, <1>3, <1>4

(* A lock file goes with its workstream, and then that is disturbed for    *)
(* whoever was inside the lock.                                            *)
LEMMA LocksGo ==
  ASSUME LockInv, TogetherFits, NEW p \in Procs, Laying(p), SpaceStep(p), MovesFit(p),
         NEW q \in Procs \ {p}, NEW s \in Streams, Running(q), Inside(q, s), lock[s] = q
  PROVE  lock'[s] = q \/ Disturbed(s) \/ s \in usurped'
<1> DEFINE c == Cmd(p).name
<1>1. /\ Formed /\ Running(p) /\ Started(p) /\ Cmd(p) # Nothing /\ DOMAIN lock = Locks
      /\ s \in Locks /\ q # Nobody
  BY ProcessAssumption DEF LockInv, Formed, CallFormed, Laying, Running, Locks
<1>2. Leads(c, Mode(p), Now(p), Modes(c)[run[p].at + 1])
  BY <1>1, StepLeads DEF Now
<1>3. \A N : Is(p, N) <=> c \in N
  BY <1>1 DEF Is
<1>4. /\ c = "create" => Source(p) = Root /\ Target(p) = Workstream(Cmd(p).into)
      /\ c # "create" => Source(p) = Mine(p) /\ Target(p) = ArchiveOf(Cmd(p).stream, run[p].num)
  BY <1>3 DEF Source, Target
<1>5. CASE OwnLocks(p)
  BY <1>1, <1>5 DEF OwnLocks, Unlinked, locks, Live
<1>8. ASSUME c = "finish", NEW f,
             LockAfterRename(Source(p), Target(p), f) \/ LockAfterRename(Target(p), Source(p), f)
      PROVE  lock'[s] = q \/ Disturbed(s)
  <2>1. /\ Source(p).stream = Cmd(p).stream /\ Target(p).kind # "workstream"
    BY <1>4, <1>8, Places DEF Mine, ArchiveOf, Place
  <2>2. CASE s = Cmd(p).stream
    BY <1>3, <1>8, <2>2 DEF Disturbed
  <2>3. CASE s # Cmd(p).stream
    BY <1>1, <1>8, <2>1, <2>3 DEF LockAfterRename, IsLock, locks
  <2> QED
    BY <2>2, <2>3
<1>6. CASE Moved(p)
  <2>1. Now(p) = "move" /\ run[p].todo # <<>>
    BY <1>6, AtNow DEF Moved
  <2>2. c \in {"create", "finish"}
    BY <1>1, <2>1, Takers
  <2>3. LockAfterRename(Source(p), Target(p), Todo(p))
    BY <1>6 DEF Moved
  <2>4. CASE c = "create"
    <3>1. Todo(p) \in Work
      BY <1>1, <2>1, <2>4 DEF MovesFit, Todo
    <3>2. Todo(p) # ".lock"
      BY <3>1 DEF Work
    <3> QED
      BY <1>1, <2>3, <3>2 DEF LockAfterRename, IsLock, locks
  <2>5. CASE c = "finish"
    BY <1>8, <2>3, <2>5
  <2> QED
    BY <2>2, <2>4, <2>5
<1>9. CASE Undo(p)
  <2>1. Now(p) = "undo" /\ run[p].moved # <<>>
    BY <1>9, AtNow DEF Undo
  <2>2. c \in {"create", "finish"}
    BY <1>2, <2>1 DEF Leads, Loose
  <2> DEFINE f == Head(run[p].moved)
  <2>3. lock' = lock \/ LockAfterRename(Target(p), Source(p), f)
    BY <1>9 DEF Undo, locks
  <2>4. CASE c = "create"
    <3>1. f \in Work
      BY <1>1, <2>1, <2>4 DEF MovesFit
    <3>2. f # ".lock"
      BY <3>1 DEF Work
    <3> HIDE DEF f
    <3> QED
      BY <1>1, <2>3, <3>2 DEF LockAfterRename, IsLock, locks
  <2>5. CASE c = "finish"
    BY <1>1, <1>8, <2>3, <2>5
  <2> QED
    BY <2>2, <2>4, <2>5
<1>7. CASE Discard(p)
  <2>1. Now(p) = "discard"
    BY <1>7, AtNow DEF Discard
  <2>2. lock'[s] = IF s \in {l \in Streams : Target(p) = Workstream(l)} THEN Nobody ELSE lock[s]
    BY <1>1, <1>7 DEF Discard
  <2>3. ASSUME Target(p) = Workstream(s) PROVE Disturbed(s)
    <3>1. c = "create" /\ Cmd(p).into = s
      BY <1>2, <1>4, <2>1, <2>3, Places DEF Leads, Loose
    <3>2. Cmd(q).name \in {"set", "profile"}
      BY <1>1, Insiders
    <3>3. Related(c, Cmd(q).name)
      BY <3>1, <3>2, CommandsAre DEF Related
    <3>4. {p, q} \in together
      BY <1>1, <3>3 DEF TogetherFits
    <3>5. Is(q, {"set", "profile"})
      BY <3>2 DEF Is, Running
    <3> QED
      BY <1>3, <3>1, <3>4, <3>5 DEF Disturbed
  <2> QED
    BY <2>2, <2>3
<1> QED
  BY <1>5, <1>6, <1>7, <1>9, StepsTakeOwnLocks

(* A step on a lock keeps what the call has in hand.                       *)
LEMMA LockingCarries ==
  ASSUME LockInv, NEW p \in Procs, Running(p), LockStep(p)
  PROVE  /\ OneMoves(p) /\ Now(p) \in LockSteps /\ Hands(p)
         /\ run'[p].todo = run[p].todo /\ run'[p].moved = run[p].moved
         /\ run'[p].at \in {run[p].at, run[p].at + 1} \/ ~Running(p)'
<1>1. PICK l \in {"state", run[p].scope} :
        \/ CreateLock(p, l) \/ CreateFails(p, l) \/ FindLocked(p, l) \/ UnlinkStale(p, l)
        \/ GiveUp(p, l) \/ ReleaseLock(p, l)
  BY DEF LockStep
<1>2. DOMAIN run = Procs /\ DOMAIN run[p] = Fields /\ run[p].at \in Nat /\ run[p].at > 0
      /\ Formed /\ Len(Steps(p)) \in Nat
  BY StepLeads DEF LockInv, Formed, CallFormed, Running, Started
<1>3. Now(p) \in LockSteps
  BY <1>1 DEF CreateLock, CreateFails, FindLocked, UnlinkStale, GiveUp, ReleaseLock, AtLock,
              AtUnlock, At, Now, LockSteps
<1> DEFINE Fine == /\ \A q \in Procs \ {p} : run'[q] = run[q]
                   /\ run'[p].cmd = run[p].cmd
                   /\ run'[p].at \in {run[p].at, run[p].at + 1} \/ Stop(p)
                   /\ run'[p].copy = run[p].copy /\ run'[p].scope = run[p].scope
                   /\ run'[p].todo = run[p].todo /\ run'[p].moved = run[p].moved
                   /\ killed' = killed /\ usurped \subseteq usurped' /\ lost' = lost
<1>4. Fine
  <2>1. CASE CreateLock(p, l)
    BY <1>2, <2>1, FieldsAre DEF CreateLock, history
  <2>6. CASE CreateFails(p, l)
    <3>1. /\ killed' = killed /\ usurped \subseteq usurped' /\ lost' = lost
          /\ \/ run' = [run EXCEPT ![p].at = @ + 1, ![p].tries = 0]
             \/ Stop(p)
      BY <2>6 DEF CreateFails
    <3> QED
      BY <1>2, <3>1, FieldsAre DEF Stop
  <2>2. CASE FindLocked(p, l)
    BY <1>2, <2>2, FieldsAre DEF FindLocked, history
  <2>3. CASE UnlinkStale(p, l)
    BY <1>2, <2>3, FieldsAre DEF UnlinkStale, history
  <2>4. CASE GiveUp(p, l)
    BY <1>2, <2>4, FieldsAre DEF GiveUp, history
  <2>5. CASE ReleaseLock(p, l)
    <3>1. /\ killed' = killed /\ usurped \subseteq usurped' /\ lost' = lost
          /\ run' = [run EXCEPT ![p].at = @ + 1, ![p].forced = FALSE]
      BY <2>5 DEF ReleaseLock, Unlinked, GoWith
    <3> QED
      BY <1>2, <3>1, FieldsAre
  <2> QED
    BY <1>1, <2>1, <2>2, <2>3, <2>4, <2>5, <2>6
<1>5. run'[p].at \in Nat \ {0}
  <2>1. CASE Stop(p)
    BY <1>2, <2>1, FieldsAre DEF Stop
  <2> QED
    BY <1>2, <1>4, <2>1
<1>6. OneMoves(p)
  BY <1>4, <1>5 DEF OneMoves
<1> QED
  BY <1>2, <1>3, <1>4, <1>6, Stopped DEF Hands

\* A call does nothing to the layout and the settings: it does not move, it
\* begins, it is another kind of command, or it is at a lock.
AtALockOnly(q) ==
  /\ Running(q) /\ OneMoves(q) /\ Now(q) \in LockSteps /\ Hands(q)
  /\ run'[q].todo = run[q].todo /\ run'[q].moved = run[q].moved
  /\ run'[q].at \in {run[q].at, run[q].at + 1} \/ ~Running(q)'
LeavesBe(q) ==
  \/ run'[q] = run[q] \/ Opens(q)
  \/ Running(q) /\ Cmd(q).name \notin SpaceCommands
  \/ AtALockOnly(q)
Aside ==
  /\ UNCHANGED layoutVars /\ killed \subseteq killed' /\ lost \subseteq lost'
  /\ \A q \in Procs : LeavesBe(q)

(* Every step that is not one of PlanningSpace is of that kind.            *)
LEMMA StepsOfSettings ==
  ASSUME LockInv, [Next]_vars
  PROVE  Aside \/ \E p \in Procs : Laying(p) /\ SpaceStep(p)
<1>0. Formed
  BY DEF LockInv
<1>1. CASE UNCHANGED vars
  BY <1>1 DEF vars, history, Aside, LeavesBe
<1>2. ASSUME NEW p \in Procs, UNCHANGED layoutVars, LeavesBe(p), killed' = killed,
             lost \subseteq lost', \A q \in Procs \ {p} : run'[q] = run[q]
      PROVE  Aside
  BY <1>2 DEF Aside, LeavesBe
<1>3. ASSUME NEW p \in Procs, Step(p)
      PROVE  Aside \/ (Laying(p) /\ SpaceStep(p))
  <2>1. Running(p)
    BY <1>3 DEF Step
  <2>2. CASE LockStep(p) /\ UNCHANGED layoutVars
    <3>1. AtALockOnly(p)
      BY <2>1, <2>2, LockingCarries DEF AtALockOnly
    <3> QED
      BY <1>2, <2>2, <3>1 DEF AtALockOnly, OneMoves, LeavesBe
  <2>3. ASSUME Local(p), Cmd(p).name \notin SpaceCommands, UNCHANGED layoutVars,
               lost \subseteq lost'
        PROVE  Aside
    BY <1>2, <2>1, <2>3, LocalIsOne DEF OneMoves, LeavesBe
  <2>4. CASE Is(p, PhaseCommands) /\ PhaseStep(p) /\ UNCHANGED layoutVars
    BY <1>0, <2>1, <2>3, <2>4, CommandsAre, PhaseStepIsLocal, PhaseStepLoses DEF Is, LockInv
  <2>5. CASE Is(p, ProfileCommands) /\ ProfileStep(p) /\ UNCHANGED layoutVars
    BY <1>0, <2>1, <2>3, <2>5, CommandsAre, ProfileStepIsLocal, OtherStepLoses DEF Is
  <2>6. CASE Is(p, KnowledgeCommands) /\ KnowledgeStep(p) /\ UNCHANGED layoutVars
    BY <1>0, <2>1, <2>3, <2>6, CommandsAre, KnowledgeStepIsLocal, OtherStepLoses DEF Is
  <2>7. CASE Is(p, SpaceCommands) /\ SpaceStep(p)
    BY <2>1, <2>7 DEF Laying, Is
  <2> QED
    BY <1>3, <2>2, <2>4, <2>5, <2>6, <2>7 DEF Step
<1>4. ASSUME NEW p \in Procs, Call(p),
             UNCHANGED <<phaseVars, layoutVars, profileVars, knowledgeVars>>
      PROVE  Aside
  <2>1. CallFormed(p) /\ DOMAIN run = Procs
    BY <1>0 DEF Formed
  <2>2. Opens(p)
    BY <1>4, <2>1 DEF Call, CallFormed, Started, Opens
  <2>3. run' = [run EXCEPT ![p].at = @ + 1] /\ killed' = killed /\ lost' = lost
    BY <1>4 DEF Call, Go
  <2> QED
    BY <1>2, <1>4, <2>1, <2>2, <2>3 DEF LeavesBe
<1>5. ASSUME NEW p \in Procs, Kill(p), UNCHANGED layoutVars PROVE Aside
  BY <1>5 DEF Kill, Aside, LeavesBe
<1>6. ASSUME NEW l \in Locks, Age(l), UNCHANGED layoutVars PROVE Aside
  BY <1>6 DEF Age, Aside, LeavesBe, history
<1> QED
  BY <1>1, <1>3, <1>4, <1>5, <1>6 DEF Next

(* Then what a call has in hand stays right, and a file someone was about  *)
(* to fill is filled, or whoever was to is dead.                           *)
LEMMA AsideFits ==
  ASSUME LockInv, SettingsInv, [Next]_vars, Aside, NEW q \in Procs,
         \A t : Excused(t) => Excused(t)'
  PROVE  /\ SettingsFit(q)' /\ MovesFit(q)'
         /\ Running(q) /\ Filling(q) =>
              Filling(q)' /\ run'[q].scope = run[q].scope /\ (Running(q)' \/ q \in killed')
<1>0. /\ Formed /\ DOMAIN run = Procs /\ DOMAIN run[q] = Fields /\ run[q].at \in Nat
      /\ Cmd(q)' = Cmd(q) /\ (Started(q) => Started(q)') /\ killed \subseteq killed'
      /\ told' = told /\ SettingsFit(q) /\ MovesFit(q) /\ LeavesBe(q)
  BY RunsOn DEF LockInv, Formed, CallFormed, Aside, layoutVars, SettingsInv
<1>1. /\ "create" \in SpaceCommands
      /\ \A config, scope : Holds(config, scope) => Holds(config, scope)'
      /\ \A scope : Voided(scope) => Voided(scope)'
  BY <1>0, FitsOn, CommandsAre
<1>2. CASE run'[q] = run[q]
  <2>1. Laying(q)' => Laying(q) /\ Now(q)' = Now(q)
    BY <1>0, <1>2 DEF Laying, Running, Started, Steps, Cmd, Now
  <2>2. SettingsFit(q)'
    <3>1. SUFFICES ASSUME Laying(q)'
                   PROVE  Fits(Cmd(q).name, Now(q), run[q].copy, run[q].todo, run[q].scope,
                               Cmd(q).into)'
      BY DEF SettingsFit
    <3>2. Fits(Cmd(q).name, Now(q), run[q].copy, run[q].todo, run[q].scope, Cmd(q).into)
      BY <1>0, <2>1, <3>1 DEF SettingsFit
    <3>3. Now(q)' = Now(q)
      BY <2>1, <3>1
    <3> QED
      BY <1>0, <1>1, <1>2, <3>2, <3>3 DEF Fits
  <2>3. MovesFit(q)'
    BY <1>0, <1>2 DEF MovesFit
  <2>4. Running(q) /\ Filling(q) => Filling(q)' /\ (Running(q)' \/ q \in killed')
    BY <1>0, <1>2 DEF Running, Filling, Is, Started, Steps, Cmd
  <2> QED
    BY <1>2, <2>2, <2>3, <2>4
<1>3. CASE Opens(q)
  <2>1. run[q].at = 0 /\ run' = [run EXCEPT ![q].at = @ + 1]
    BY <1>3 DEF Opens, Call, Go
  <2>2. run'[q].at = 1 /\ run'[q].todo = run[q].todo /\ run'[q].moved = run[q].moved
    BY <1>0, <2>1, FieldsAre
  <2>3. SettingsFit(q)'
    <3>1. SUFFICES ASSUME Laying(q)'
                   PROVE  Fits(Cmd(q).name, Now(q), run[q].copy, run[q].todo, run[q].scope,
                               Cmd(q).into)'
      BY DEF SettingsFit
    <3>2. Cmd(q).name \in SpaceCommands
      BY <1>0, <3>1 DEF Laying
    <3>3. PICK x, y : Linked(Cmd(q).name, Program[Cmd(q).name], x, y)
                       /\ x \in {"route", "look for stream"}
      BY <3>2, SpaceLinks
    <3>4. Now(q)' \in {"route", "look for stream"}
      BY <1>0, <2>2, <3>3 DEF Linked, Now, Steps, Cmd
    <3> QED
      BY <3>4 DEF Fits, ToWrite, Remaking, Mending, Regenerating, Migrating
  <2>4. MovesFit(q)'
    BY <1>0, <2>2 DEF MovesFit
  <2>5. ~Running(q)
    BY <2>1 DEF Running, Started
  <2> QED
    BY <2>3, <2>4, <2>5
<1>4. CASE Running(q) /\ Cmd(q).name \notin SpaceCommands
  <2>1. ~Laying(q)' /\ Cmd(q).name # "create"
    BY <1>0, <1>1, <1>4 DEF Laying
  <2>2. ~Filling(q)
    BY <1>4, CommandsAre DEF Filling, Is
  <2> QED
    BY <1>0, <2>1, <2>2 DEF SettingsFit, MovesFit
<1>5. CASE AtALockOnly(q)
  <2>1. /\ Running(q) /\ OneMoves(q) /\ Now(q) \in LockSteps /\ Hands(q)
        /\ run'[q].todo = run[q].todo /\ run'[q].moved = run[q].moved
        /\ run'[q].at \in {run[q].at, run[q].at + 1} \/ ~Running(q)'
    BY <1>5 DEF AtALockOnly
  <2>2. Now(q) \notin Deciding /\ ~Filling(q)
    BY <2>1 DEF LockSteps, Deciding, Filling, Now
  <2>3. SettingsFit(q)'
    <3>1. CASE Laying(q) /\ Running(q)'
      <4>1. Same(q)
        BY <1>0, <2>1, StepLeads DEF OneMoves, Same
      <4>2. Carried(q)
        BY <1>0, <2>1, <2>2, <3>1, <4>1, GoingIsCarried
      <4> QED
        BY <1>0, <3>1, <4>2, CarriedFits
    <3>2. CASE ~(Laying(q) /\ Running(q)')
      BY <1>0, <2>1, <3>2 DEF Laying, SettingsFit
    <3> QED
      BY <3>1, <3>2
  <2>4. MovesFit(q)'
    BY <1>0, <2>1 DEF MovesFit
  <2> QED
    BY <2>2, <2>3, <2>4
<1> QED
  BY <1>0, <1>2, <1>3, <1>4, <1>5 DEF LeavesBe

(* Whoever is inside the lock of a workstream has locked it, unless it is  *)
(* disturbed.                                                              *)
LEMMA StreamOwnersStep ==
  ASSUME LockInv, TogetherFits, StreamOwners, [Next]_vars, \A p \in Procs : MovesFit(p)
  PROVE  StreamOwners'
<1>0. /\ Formed /\ \A s : Disturbed(s) => Disturbed(s)'
      /\ \A s \in Streams : s \in Locks /\ s # "planning" /\ s # "state"
  BY DisturbedStays, ProcessAssumption DEF LockInv, Locks
<1>1. ASSUME NEW q \in Procs, run'[q] = run[q], killed \subseteq killed', NEW s \in Streams,
             Running(q)', Inside(q, s)', ~Disturbed(s)'
      PROVE  Running(q) /\ Inside(q, s) /\ lock[s] = q
  <2>1. Running(q) /\ Inside(q, s)
    BY <1>1, OthersStay DEF Running, Started, Steps, Cmd
  <2> QED
    BY <1>0, <1>1, <2>1 DEF StreamOwners
<1>2. CASE run' = run /\ killed \subseteq killed' /\ lock' = lock
  BY <1>1, <1>2 DEF StreamOwners
<1>3. ASSUME NEW p \in Procs, \A q \in Procs \ {p} : run'[q] = run[q], killed' = killed,
             \A s \in Streams : Running(p)' /\ Inside(p, s)' /\ ~Disturbed(s)' => lock'[s] = p,
             \A q \in Procs \ {p} : \A s \in Streams :
               Running(q) /\ Inside(q, s) /\ lock[s] = q => lock'[s] = q \/ Disturbed(s)'
      PROVE  StreamOwners'
  <2>1. ASSUME NEW q \in Procs, NEW s \in Streams, Running(q)', Inside(q, s)', ~Disturbed(s)'
        PROVE  lock'[s] = q
    <3>1. CASE q = p
      BY <1>3, <2>1, <3>1
    <3>2. CASE q # p
      BY <1>1, <1>3, <2>1, <3>2
    <3> QED
      BY <3>1, <3>2
  <2> QED
    BY <2>1 DEF StreamOwners
<1>4. ASSUME NEW p \in Procs, Step(p)
      PROVE  StreamOwners'
  <2>1. Running(p)
    BY <1>4 DEF Step
  <2>8. ASSUME LockStep(p), NEW s \in Streams
        PROVE  lock'[s] = lock[s] \/ lock[s] = p \/ ~Live(lock[s]) \/ s \in usurped'
    <3>1. PICK l \in {"state", run[p].scope} :
            \/ CreateLock(p, l) \/ CreateFails(p, l) \/ FindLocked(p, l)
            \/ UnlinkStale(p, l) \/ GiveUp(p, l) \/ ReleaseLock(p, l)
      BY <2>8 DEF LockStep
    <3>2. ~Live(Nobody)
      BY ProcessAssumption DEF Live
    <3>3. DOMAIN lock = Locks
      BY <1>0 DEF Formed
    <3>4. \/ lock' = lock
          \/ \E v : lock' = [lock EXCEPT ![l] = v]
               /\ (lock[l] = Nobody \/ lock[l] = p \/ ~Live(lock[l]) \/ l \in usurped')
      <4>1. CASE CreateLock(p, l)
        BY <4>1 DEF CreateLock
      <4>2. CASE CreateFails(p, l)
        BY <4>2 DEF CreateFails, locks
      <4>3. CASE FindLocked(p, l)
        BY <4>3 DEF FindLocked, locks
      <4>4. CASE UnlinkStale(p, l)
        BY <4>4 DEF UnlinkStale
      <4>5. CASE GiveUp(p, l)
        BY <4>5 DEF GiveUp
      <4>6. CASE ReleaseLock(p, l)
        BY <4>6 DEF ReleaseLock, Unlinked, locks
      <4> QED
        BY <3>1, <4>1, <4>2, <4>3, <4>4, <4>5, <4>6
    <3>5. lock[l] = Nobody => ~Live(lock[l])
      BY <3>2
    <3>6. CASE lock' = lock
      BY <3>6
    <3>7. ASSUME NEW v, lock' = [lock EXCEPT ![l] = v],
                 lock[l] = p \/ ~Live(lock[l]) \/ l \in usurped'
          PROVE  lock'[s] = lock[s] \/ lock[s] = p \/ ~Live(lock[s]) \/ s \in usurped'
      <4>1. CASE s = l
        BY <3>7, <4>1
      <4>2. CASE s # l
        BY <3>7, <4>2
      <4> QED
        BY <4>1, <4>2
    <3> QED
      BY <3>4, <3>5, <3>6, <3>7
  <2>2. ASSUME NEW l \in Locks, LockStep(p), Handles(p, l), Justly(p, l)
        PROVE  StreamOwners'
    <3>1. Handles(p, l) /\ Justly(p, l)
      BY <2>2
    <3>2. ASSUME NEW s \in Streams, Running(p)', Inside(p, s)', ~Disturbed(s)'
          PROVE  lock'[s] = p
      BY <1>0, <3>1, <3>2 DEF Justly, Disturbed
    <3>3. ASSUME NEW q \in Procs \ {p}, NEW s \in Streams, Running(q), Inside(q, s), lock[s] = q
          PROVE  lock'[s] = q \/ Disturbed(s)'
      BY <2>2, <2>8, <3>3 DEF Live, Disturbed
    <3>4. killed' = killed /\ \A q \in Procs \ {p} : run'[q] = run[q]
      BY <3>1 DEF Handles
    <3> QED
      BY <1>3, <3>2, <3>3, <3>4
  <2>3. ASSUME Local(p), OwnLocks(p) \/ LockStep(p) \/ (Laying(p) /\ SpaceStep(p))
        PROVE  StreamOwners'
    <3>1. ASSUME NEW s \in Streams, Running(p)', Inside(p, s)', ~Disturbed(s)'
          PROVE  lock'[s] = p
      <4>1. Mode(p)' \in Guarded
        BY <1>0, <3>1 DEF Inside, Guarded
      <4>2. Inside(p, s)' = Inside(p, s) /\ lock' = lock
        BY <1>0, <2>1, <2>3, <3>1, <4>1, LocalInside
      <4> QED
        BY <1>0, <2>1, <3>1, <4>2 DEF StreamOwners
    <3>2. ASSUME NEW q \in Procs \ {p}, NEW s \in Streams, Running(q), Inside(q, s), lock[s] = q
          PROVE  lock'[s] = q \/ Disturbed(s)'
      <4>1. CASE OwnLocks(p)
        BY <1>0, <2>1, <3>2, <4>1 DEF OwnLocks, Unlinked, locks, Live, Disturbed, LockInv, Formed
      <4>2. CASE Laying(p) /\ SpaceStep(p)
        BY <1>0, <3>2, <4>2, LocksGo DEF Disturbed
      <4>3. CASE LockStep(p)
        BY <2>8, <3>2, <4>3 DEF Live, Disturbed
      <4> QED
        BY <2>3, <4>1, <4>2, <4>3
    <3>3. killed' = killed /\ \A q \in Procs \ {p} : run'[q] = run[q]
      BY <2>3 DEF Local, Changes
    <3> QED
      BY <1>3, <3>1, <3>2, <3>3
  <2>4. CASE Is(p, PhaseCommands) /\ PhaseStep(p)
    BY <1>0, <2>1, <2>3, <2>4, PhaseStepIsLocal, StepsTakeOwnLocks DEF LockInv
  <2>5. CASE Is(p, SpaceCommands) /\ SpaceStep(p)
    BY <1>0, <2>1, <2>3, <2>5, SpaceStepIsLocal DEF Laying, Is, LockInv
  <2>6. CASE Is(p, ProfileCommands) /\ ProfileStep(p)
    BY <1>0, <2>1, <2>3, <2>6, ProfileStepIsLocal, StepsTakeOwnLocks
  <2>7. CASE Is(p, KnowledgeCommands) /\ KnowledgeStep(p)
    BY <1>0, <2>1, <2>3, <2>7, KnowledgeStepIsLocal, StepsTakeOwnLocks
  <2>9. CASE LockStep(p)
    BY <2>1, <2>2, <2>3, <2>9, LockStepIsJust
  <2> QED
    BY <1>4, <2>4, <2>5, <2>6, <2>7, <2>9 DEF Step
<1>5. ASSUME NEW p \in Procs, Call(p) PROVE StreamOwners'
  <2>1. CallFormed(p) /\ DOMAIN run = Procs
    BY <1>0 DEF Formed
  <2>2. /\ Cmd(p).name \in Commands /\ DOMAIN run[p] = Fields /\ run[p].at = 0
        /\ run' = [run EXCEPT ![p].at = @ + 1] /\ killed' = killed /\ lock' = lock
    BY <1>5, <2>1 DEF Call, CallFormed, Started, Go, locks
  <2>3. run'[p].at = 1 /\ run'[p].cmd = run[p].cmd
    BY <2>1, <2>2, FieldsAre
  <2>4. Mode(p)' = "out"
    BY <2>2, <2>3, ModesAre DEF Mode, Cmd
  <2>5. \A s \in Streams : ~Inside(p, s)'
    BY <1>0, <2>4 DEF Inside, PlanningModes
  <2>6. \A q \in Procs \ {p} : run'[q] = run[q]
    BY <2>1, <2>2
  <2> QED
    BY <1>3, <2>2, <2>5, <2>6
<1>6. CASE UNCHANGED vars
  BY <1>2, <1>6 DEF vars, locks, history
<1>7. ASSUME NEW p \in Procs, Kill(p) PROVE StreamOwners'
  BY <1>2, <1>7 DEF Kill, locks
<1>8. ASSUME NEW l \in Locks, Age(l) PROVE StreamOwners'
  BY <1>2, <1>8 DEF Age, history
<1> QED
  BY <1>4, <1>5, <1>6, <1>7, <1>8 DEF Next

(* Every step keeps the settings right,                                    *)
LEMMA SettingsInvStep ==
  ASSUME LockInv, TogetherFits, SettingsInv, [Next]_vars
  PROVE  SettingsInv'
<1>0. /\ \A t : Excused(t) => Excused(t)'
      /\ \A q \in Procs : Cmd(q)' = Cmd(q)
      /\ \A q \in Procs : CallFine(q) /\ MovesFit(q) /\ StreamOwners
  BY ExcusedStays, RunsOn DEF SettingsInv
<1>1. StreamOwners'
  BY <1>0, StreamOwnersStep DEF SettingsInv
<1>2. \A q \in Procs : CallFine(q)'
  BY <1>0 DEF CallFine
<1>3. ASSUME NEW p \in Procs, Laying(p), SpaceStep(p)
      PROVE  SettingsInv'
  <2>1. /\ ToldFits' /\ StreamsInside'
        /\ \A t \in told' : Excused(t)' \/ FileTells(t)'
    BY <1>0, <1>3, FilesTell
  <2>2. \A q \in Procs : SettingsFit(q)'
    BY <1>0, <1>3, OwnSettings, OthersSettings
  <2>3. Formed /\ Same(p)
    BY <1>3, SpaceIsSame DEF LockInv
  <2>4. MovesFit(p)'
    BY <1>0, <1>3, <2>3, SpaceMovesWork
  <2>5. ASSUME NEW q \in Procs \ {p} PROVE MovesFit(q)'
    BY <1>0, <2>3, <2>5 DEF Same, MovesFit
  <2> QED
    BY <1>1, <1>2, <2>1, <2>2, <2>4, <2>5 DEF SettingsInv
<1>4. CASE Aside
  <2>1. told' = told /\ tree' = tree
    BY <1>4 DEF Aside, layoutVars, space
  <2>2. ASSUME NEW q \in Procs
        PROVE  /\ SettingsFit(q)' /\ MovesFit(q)'
               /\ Running(q) /\ Filling(q) =>
                    /\ Filling(q)' /\ run'[q].scope = run[q].scope
                    /\ Running(q)' \/ q \in killed'
    BY <1>0, <1>4, AsideFits
  <2>3. ToldFits' /\ StreamsInside'
    BY <2>1 DEF SettingsInv, ToldFits, StreamsInside, Exists
  <2>4. ASSUME NEW t \in told, FileTells(t) PROVE Excused(t)' \/ FileTells(t)'
    <3>1. HasConfig(t.scope)' /\ FileOf(t.scope)' = FileOf(t.scope)
      BY <2>1, <2>4 DEF FileTells, HasConfig, FileOf, Has, Exists
    <3>2. CASE Tells(FileOf(t.scope), t)
      BY <3>1, <3>2 DEF FileTells, Tells
    <3>3. CASE FileOf(t.scope) = Torn /\ \E q \in Procs : Running(q) /\ Filling(q)
                                                         /\ run[q].scope = t.scope
      <4>1. PICK q \in Procs : Running(q) /\ Filling(q) /\ run[q].scope = t.scope
        BY <3>3
      <4>2. Filling(q)' /\ run'[q].scope = t.scope /\ (Running(q)' \/ q \in killed')
        BY <2>2, <4>1
      <4> QED
        BY <3>1, <3>3, <4>2 DEF FileTells, Excused
    <3> QED
      BY <2>4, <3>2, <3>3 DEF FileTells
  <2>5. \A t \in told' : Excused(t)' \/ FileTells(t)'
    BY <1>0, <2>1, <2>4 DEF SettingsInv
  <2> QED
    BY <1>1, <1>2, <2>2, <2>3, <2>5 DEF SettingsInv
<1> QED
  BY <1>3, <1>4, StepsOfSettings

(* they are right before anything is called,                               *)
LEMMA SettingsInvInit == Init => TogetherFits /\ SettingsInv
<1> SUFFICES ASSUME Init PROVE TogetherFits /\ SettingsInv
  OBVIOUS
<1>1. TogetherFits
  BY KnowledgeInvInit DEF KnowledgeInv
<1>2. PICK w \in Sessions : SpaceInit(w.space) /\ ProcessInit(w.calls)
  BY DEF Init
<1>3. \A p \in Procs : /\ run[p].at = 0 /\ run[p].todo = <<>> /\ run[p].moved = <<>>
                       /\ Cmd(p) = w.calls[p]
  BY <1>2 DEF ProcessInit, ToCall, Cmd
<1>4. \A p \in Procs : ~Running(p)
  BY <1>3 DEF Running, Started
<1>5. \A p \in Procs : CallFine(p)
  BY <1>3, SessionsAssumption DEF CallFine
<1>6. \A p \in Procs : MovesFit(p) /\ SettingsFit(p)
  <2>1. <<>> \in Seq(Work)
    OBVIOUS
  <2> QED
    BY <1>3, <1>4, <2>1 DEF MovesFit, SettingsFit, Laying
<1>7. ToldFits /\ StreamOwners /\ told = {}
  BY <1>2, <1>4 DEF SpaceInit, ToldFits, StreamOwners
<1>8. StreamsInside
  BY <1>2, SessionsAssumption DEF SpaceInit, StreamsInside, Exists
<1> QED
  BY <1>1, <1>5, <1>6, <1>7, <1>8 DEF SettingsInv

(* and that is what a setting is owed.                                     *)
LEMMA SettingsInvKeeps == SettingsInv => SettingsAreKept
<1> SUFFICES ASSUME SettingsInv, NEW t \in told
             PROVE  \/ Disturbed(t.scope) \/ Raced(t)
                    \/ \E p \in Procs : Filling(p) /\ run[p].scope = t.scope
                    \/ /\ Parses(PlanningDir(t.scope))
                       /\ Tells(Config(PlanningDir(t.scope)), t)
  BY DEF SettingsAreKept
<1>1. (Excused(t) \/ FileTells(t)) /\ t.setting \notin DOMAIN Torn
  BY DEF SettingsInv, ToldFits
<1>2. CASE Excused(t)
  BY <1>2 DEF Excused
<1>3. CASE FileTells(t)
  <2>1. CASE Tells(FileOf(t.scope), t)
    <3>1. FileOf(t.scope) # Torn
      BY <1>1, <2>1 DEF Tells
    <3> QED
      BY <1>3, <2>1, <3>1 DEF FileTells, HasConfig, FileOf, Parses, Config
  <2> QED
    BY <1>3, <2>1 DEF FileTells
<1> QED
  BY <1>1, <1>2, <1>3

(* What config-set has written is what loadConfig returns, whatever is     *)
(* called later, unless something unlocked raced it, its directory was     *)
(* disturbed or a failing write left the file empty, for any number of     *)
(* calls, workstreams, kills and faults.                                   *)
THEOREM SettingsAreSafe == Spec => []SettingsAreKept
<1>1. SettingsInv => SettingsAreKept
  BY SettingsInvKeeps
<1>2. Init => TogetherFits /\ SettingsInv
  BY SettingsInvInit
<1>3. LockInv /\ TogetherFits /\ SettingsInv /\ [Next]_vars => TogetherFits' /\ SettingsInv'
  BY SettingsInvStep, TogetherStep
<1> QED
  BY <1>1, <1>2, <1>3, LocksAreOwned, PTL DEF Spec

-----------------------------------------------------------------------------
(***************************************************************************)
(* The work that create and complete move.                                 *)
(***************************************************************************)
\* The work no rollback has lost.
Saved == work \ lost

\* A file of the directory d is work; nothing in it is; c is there.
HasWork(d, f) == f \in Work /\ Has(d, f) /\ tree[d][f] \in Saved
NoWork(d)     == \A f \in Work : ~HasWork(d, f)
Lies(c, d)    == \E f \in Work : Has(d, f) /\ tree[d][f] = c

\* What has been moved from s to t is in the list, and can go back; what is
\* still to be moved is in the other.
AwayFrom(s, t, moved) ==
  \A f \in Work : Has(t, f) =>
    /\ f \in ToSet(moved) => ~HasWork(s, f)
    /\ HasWork(t, f) => f \in ToSet(moved) /\ Exists(s) /\ ~Has(s, f)
LeftIn(s, todo) == \A f \in Work : HasWork(s, f) => f \in ToSet(todo)

\* The steps before anything is moved, and those while it is.
Preparing == {"look for stream", "look for mode", "look for work", "look for target",
              "make target", "unpoint", "pick archive", "make archive", "list entries"}
Carrying  == {"look", "move", "undo"}

\* Before the step x of a call that moves files from s to t.
Placed(x, s, t, todo, moved, into, mine) ==
  /\ x \in {"make target", "make archive", "list entries", "discard"} => NoWork(t)
  /\ x \in Carrying => AwayFrom(s, t, moved)
  /\ x \in {"look", "move"} => LeftIn(s, todo)
  /\ x \in {"look for work", "look for target"} => into \in Streams
  /\ x = "write new state" => ~HasWork(mine, "STATE.md")

Moving(p) == Running(p) /\ Cmd(p).name \in Movers
MoverFits(p) ==
  Moving(p) =>
    Placed(Now(p), Source(p), Target(p), run[p].todo, run[p].moved, Cmd(p).into, Mine(p))

\* Health regenerates a STATE.md that was not there.
MenderFits(p) ==
  Running(p) /\ Cmd(p).name = "health" /\ Now(p) \in Regenerating =>
    ~HasWork(Here(p), "STATE.md")

\* The lists of a mover are sequences; nothing is moved at first.
ListsFit(p) ==
  Cmd(p) # Nothing /\ Cmd(p).name \in Movers =>
    /\ run[p].todo \in Seq(ToSet(run[p].todo))
    /\ run[p].moved \in Seq(ToSet(run[p].moved))
    /\ run[p].at = 0 \/ (Moving(p) /\ Now(p) \in Preparing) => run[p].moved = <<>>

\* Two pieces of work are in one directory, or p is moving them.
Bears(p, c, e) ==
  /\ Moving(p) /\ Now(p) \in Carrying
  /\ Lies(c, Source(p)) \/ Lies(c, Target(p))
  /\ Lies(e, Source(p)) \/ Lies(e, Target(p))
Gathered(c, e) ==
  \/ \E d \in DOMAIN tree : Lies(c, d) /\ Lies(e, d)
  \/ \E p \in Procs : Bears(p, c, e)

MovesApart == Apart(Movers, Movers \cup {"health"})
TreeFits ==
  /\ IsFiniteSet(DOMAIN tree) /\ \A d \in DOMAIN tree : IsFiniteSet(DOMAIN tree[d])
  /\ Exists(Workstreams) => tree[Workstreams] = <<>>
  /\ \A c \in work : "of" \in DOMAIN c

WorkInv ==
  /\ TreeFits
  /\ \A p \in Procs : ListsFit(p)
  /\ MovesApart =>
       /\ \A p \in Procs : MoverFits(p) /\ MenderFits(p)
       /\ \A c \in Saved : \E d \in DOMAIN tree : Lies(c, d)
       /\ killed = {} => \A c, e \in Saved : c.of = e.of => Gathered(c, e)

(* What a sequence is made of.                                             *)
LEMMA SeqMembers ==
  ASSUME NEW X, NEW s \in Seq(X)
  PROVE  /\ s \in Seq(ToSet(s))
         /\ \A x : Append(s, x) \in Seq(ToSet(Append(s, x)))
                   /\ ToSet(Append(s, x)) = ToSet(s) \cup {x}
         /\ s # <<>> => /\ Tail(s) \in Seq(ToSet(Tail(s)))
                        /\ ToSet(s) = {Head(s)} \cup ToSet(Tail(s))
<1> USE DEF ToSet
<1>1. s \in Seq(ToSet(s))
  <2>1. Len(s) \in Nat /\ s \in [1 .. Len(s) -> X] /\ DOMAIN s = 1 .. Len(s)
    OBVIOUS
  <2>2. s \in [1 .. Len(s) -> ToSet(s)]
    BY <2>1
  <2> QED
    BY <2>1, <2>2
<1>2. ASSUME NEW x
      PROVE  /\ Append(s, x) \in Seq(ToSet(Append(s, x)))
             /\ ToSet(Append(s, x)) = ToSet(s) \cup {x}
  <2>1. s \in Seq(X \cup {x})
    <3>1. s \in [1 .. Len(s) -> X] /\ Len(s) \in Nat
      OBVIOUS
    <3>2. s \in [1 .. Len(s) -> X \cup {x}]
      BY <3>1
    <3> QED
      BY <3>1, <3>2
  <2> DEFINE t == Append(s, x)
  <2>2. /\ Len(s) \in Nat /\ Len(t) = Len(s) + 1 /\ DOMAIN t = 1 .. Len(t)
        /\ DOMAIN s = 1 .. Len(s) /\ t[Len(s) + 1] = x
        /\ \A i \in 1 .. Len(s) : t[i] = s[i]
    BY <2>1
  <2> HIDE DEF t
  <2>3. DOMAIN t = DOMAIN s \cup {Len(s) + 1}
    BY <2>2
  <2>4. ToSet(t) = ToSet(s) \cup {x}
    BY <2>2, <2>3
  <2>5. t \in [1 .. Len(t) -> ToSet(t)]
    <3>1. t \in Seq(X \cup {x})
      BY <2>1 DEF t
    <3>2. t \in [1 .. Len(t) -> X \cup {x}]
      BY <3>1
    <3> QED
      BY <2>2, <3>2
  <2>6. Len(t) \in Nat
    BY <2>2
  <2>7. t \in Seq(ToSet(t))
    BY <2>5, <2>6
  <2> QED
    BY <2>4, <2>7 DEF t
<1>3. ASSUME s # <<>>
      PROVE  /\ Tail(s) \in Seq(ToSet(Tail(s)))
             /\ ToSet(s) = {Head(s)} \cup ToSet(Tail(s))
  <2> DEFINE t == Tail(s)
  <2>1. /\ Len(s) \in Nat \ {0} /\ t \in Seq(X) /\ Len(t) = Len(s) - 1
        /\ DOMAIN t = 1 .. Len(t) /\ DOMAIN s = 1 .. Len(s) /\ Head(s) = s[1]
        /\ \A i \in 1 .. Len(s) - 1 : t[i] = s[i + 1]
    <3>1. Len(s) \in Nat \ {0} /\ t \in Seq(X) /\ Len(t) = Len(s) - 1
      BY <1>3
    <3>2. DOMAIN t = 1 .. Len(t) /\ DOMAIN s = 1 .. Len(s) /\ Head(s) = s[1]
      BY <1>3
    <3>3. ASSUME NEW i \in 1 .. Len(s) - 1 PROVE t[i] = s[i + 1]
      BY <1>3
    <3> QED
      BY <3>1, <3>2, <3>3
  <2> HIDE DEF t
  <2>2. t \in [1 .. Len(t) -> X] /\ Len(t) \in Nat
    BY <2>1
  <2>3. t \in Seq(ToSet(t))
    <3>1. t \in [1 .. Len(t) -> ToSet(t)]
      BY <2>1, <2>2
    <3> QED
      BY <2>2, <3>1
  <2>4. ASSUME NEW y \in ToSet(s) PROVE y \in {Head(s)} \cup ToSet(t)
    <3>1. PICK i \in 1 .. Len(s) : y = s[i]
      BY <2>1, <2>4
    <3>2. CASE i = 1
      BY <2>1, <3>1, <3>2
    <3>3. CASE i # 1
      <4>1. i - 1 \in 1 .. Len(s) - 1 /\ (i - 1) + 1 = i
        BY <2>1, <3>3
      <4>2. t[i - 1] = y /\ i - 1 \in DOMAIN t
        BY <2>1, <3>1, <4>1
      <4> QED
        BY <4>2
    <3> QED
      BY <3>2, <3>3
  <2>5. ASSUME NEW y \in {Head(s)} \cup ToSet(t) PROVE y \in ToSet(s)
    <3>1. 1 \in DOMAIN s
      BY <2>1
    <3>2. CASE y = Head(s)
      BY <2>1, <3>1, <3>2
    <3>3. CASE y \in ToSet(t)
      <4>1. PICK i \in DOMAIN t : y = t[i]
        BY <3>3
      <4>2. i \in 1 .. Len(s) - 1 /\ i + 1 \in DOMAIN s
        BY <2>1, <4>1
      <4> QED
        BY <2>1, <4>1, <4>2
    <3> QED
      BY <2>5, <3>2, <3>3
  <2>6. ToSet(s) = {Head(s)} \cup ToSet(t)
    BY <2>4, <2>5
  <2> QED
    BY <2>3, <2>6 DEF t
<1> QED
  BY <1>1, <1>2, <1>3

(* A finite set can be listed.                                             *)
LEMMA SetListed ==
  ASSUME NEW S, IsFiniteSet(S)
  PROVE  SetToSeq(S) \in Seq(S) /\ ToSet(SetToSeq(S)) = S
<1>1. Cardinality(S) \in Nat /\ ExistsBijection(1 .. Cardinality(S), S)
  BY FS_CardinalityType
<1>2. PICK f \in Bijection(1 .. Cardinality(S), S) : TRUE
  BY <1>1 DEF ExistsBijection
<1>3. f \in [1 .. Cardinality(S) -> S] /\ IsInjective(f)
  BY <1>2 DEF Bijection, Injection, IsInjective
<1>4. SetToSeq(S) \in [1 .. Cardinality(S) -> S] /\ IsInjective(SetToSeq(S))
  BY <1>3 DEF SetToSeq
<1>5. SetToSeq(S) \in Injection(1 .. Cardinality(S), S)
  BY <1>4 DEF Injection, IsInjective
<1>6. IsFiniteSet(1 .. Cardinality(S)) /\ Cardinality(1 .. Cardinality(S)) = Cardinality(S)
  <2>1. /\ IsFiniteSet(1 .. Cardinality(S))
        /\ Cardinality(1 .. Cardinality(S)) =
             IF 1 > Cardinality(S) THEN 0 ELSE Cardinality(S) - 1 + 1
    BY <1>1, FS_Interval
  <2> QED
    BY <1>1, <2>1
<1>7. SetToSeq(S) \in Surjection(1 .. Cardinality(S), S)
  BY <1>5, <1>6, FS_Injection
<1> QED
  BY <1>1, <1>4, <1>7 DEF Surjection, ToSet

(* One of the archives is not there.                                       *)
LEMMA FreeArchive ==
  ASSUME IsFiniteSet(DOMAIN tree), NEW s
  PROVE  \E n \in 0 .. Cardinality(DOMAIN tree) :
           /\ ~Exists(ArchiveOf(s, n))
           /\ \A m \in 0 .. n - 1 : Exists(ArchiveOf(s, m))
<1> DEFINE N == Cardinality(DOMAIN tree)
           T == {n \in 0 .. N : ~Exists(ArchiveOf(s, n))}
<1>1. N \in Nat
  BY FS_CardinalityType
<1>2. T # {}
  <2> SUFFICES ASSUME \A n \in 0 .. N : Exists(ArchiveOf(s, n)) PROVE FALSE
    OBVIOUS
  <2> DEFINE f == [n \in 0 .. N |-> ArchiveOf(s, n)]
  <2>1. f \in Injection(0 .. N, DOMAIN tree)
    <3>1. f \in [0 .. N -> DOMAIN tree]
      BY DEF Exists
    <3>2. \A m, n \in 0 .. N : ArchiveOf(s, m) = ArchiveOf(s, n) => m = n
      BY DEF ArchiveOf, Place
    <3> QED
      BY <3>1, <3>2 DEF Injection, IsInjective
  <2>2. Cardinality(0 .. N) <= N
    BY <2>1, FS_Injection
  <2>3. Cardinality(0 .. N) = IF 0 > N THEN 0 ELSE N - 0 + 1
    BY <1>1, FS_Interval
  <2> QED
    BY <1>1, <2>2, <2>3
<1>3. T \subseteq Nat
  BY <1>1
<1>4. PICK n \in T : \A k \in T : n <= k
  BY <1>2, <1>3, LeastNumber
<1>5. \A m \in 0 .. n - 1 : m \in 0 .. N /\ m \notin T
  BY <1>1, <1>3, <1>4
<1> QED
  BY <1>4, <1>5

(* Two lists one after the other.                                          *)
LEMMA SeqJoined ==
  ASSUME NEW X, NEW s \in Seq(X), NEW t \in Seq(X)
  PROVE  s \o t \in Seq(X) /\ ToSet(s \o t) = ToSet(s) \cup ToSet(t)
<1> DEFINE r == s \o t
<1>1. /\ r \in Seq(X) /\ Len(s) \in Nat /\ Len(t) \in Nat
      /\ DOMAIN s = 1 .. Len(s) /\ DOMAIN t = 1 .. Len(t)
      /\ DOMAIN r = 1 .. Len(s) + Len(t)
  OBVIOUS
<1>2. \A i \in 1 .. Len(s) : r[i] = s[i]
  BY <1>1
<1>3. \A i \in 1 .. Len(t) : r[Len(s) + i] = t[i]
  BY <1>1
<1> HIDE DEF r
<1>4. ASSUME NEW y \in ToSet(r) PROVE y \in ToSet(s) \cup ToSet(t)
  <2>1. PICK i \in 1 .. Len(s) + Len(t) : y = r[i]
    BY <1>1, <1>4 DEF ToSet
  <2>2. CASE i <= Len(s)
    BY <1>1, <1>2, <2>1, <2>2 DEF ToSet
  <2>3. CASE ~(i <= Len(s))
    <3>1. PICK j \in 1 .. Len(t) : i = Len(s) + j
      <4>1. i - Len(s) \in 1 .. Len(t) /\ i = Len(s) + (i - Len(s))
        BY <1>1, <2>1, <2>3
      <4> QED
        BY <4>1
    <3> QED
      BY <1>1, <1>3, <2>1, <3>1 DEF ToSet
  <2> QED
    BY <2>2, <2>3
<1>5. ASSUME NEW y \in ToSet(s) \cup ToSet(t) PROVE y \in ToSet(r)
  <2>1. CASE y \in ToSet(s)
    <3>1. PICK i \in 1 .. Len(s) : y = s[i]
      BY <1>1, <2>1 DEF ToSet
    <3>2. i \in DOMAIN r
      BY <1>1
    <3> QED
      BY <1>2, <3>1, <3>2 DEF ToSet
  <2>2. CASE y \in ToSet(t)
    <3>1. PICK i \in 1 .. Len(t) : y = t[i]
      BY <1>1, <2>2 DEF ToSet
    <3>2. Len(s) + i \in DOMAIN r
      BY <1>1
    <3> QED
      BY <1>3, <3>1, <3>2 DEF ToSet
  <2> QED
    BY <1>5, <2>1, <2>2
<1> QED
  BY <1>1, <1>4, <1>5 DEF r

(* What complete lists: the lock file, if there is one, and every file.    *)
LEMMA EntriesListed ==
  ASSUME NEW d, IsFiniteSet(DOMAIN tree[d]),
         NEW L, L = LockFile(d) \o SetToSeq(DOMAIN tree[d])
  PROVE  /\ L \in Seq(ToSet(L))
         /\ ToSet(L) = ToSet(LockFile(d)) \cup DOMAIN tree[d]
<1> DEFINE X == DOMAIN tree[d] \cup {".lock"}
<1>1. /\ SetToSeq(DOMAIN tree[d]) \in Seq(DOMAIN tree[d])
      /\ ToSet(SetToSeq(DOMAIN tree[d])) = DOMAIN tree[d]
  BY SetListed
<1>2. SetToSeq(DOMAIN tree[d]) \in Seq(X)
  <2>1. ASSUME NEW A, NEW B, A \subseteq B, NEW s \in Seq(A) PROVE s \in Seq(B)
    <3>1. Len(s) \in Nat /\ s \in [1 .. Len(s) -> A]
      OBVIOUS
    <3>2. s \in [1 .. Len(s) -> B]
      BY <2>1, <3>1
    <3> QED
      BY <3>1, <3>2
  <2> QED
    BY <1>1, <2>1
<1>3. LockFile(d) \in Seq(X)
  <2>1. LockFile(d) = <<>> \/ LockFile(d) = <<".lock">>
    BY DEF LockFile
  <2>2. ".lock" \in X
    OBVIOUS
  <2>3. \A Y, y : y \in Y => <<y>> \in Seq(Y) /\ <<>> \in Seq(Y)
    OBVIOUS
  <2>4. <<".lock">> \in Seq(X) /\ <<>> \in Seq(X)
    BY <2>2, <2>3
  <2> HIDE DEF X
  <2> QED
    BY <2>1, <2>4
<1> HIDE DEF X
<1>4. L \in Seq(X) /\ ToSet(L) = ToSet(LockFile(d)) \cup DOMAIN tree[d]
  BY <1>1, <1>2, <1>3, SeqJoined
<1> QED
  BY <1>4, SeqMembers

\* The files of work are as they were, and so is what is work.
WorkSame ==
  \A d : /\ Exists(d) => Exists(d)'
         /\ \A f \in Work : (Has(d, f)' <=> Has(d, f))
                             /\ (Has(d, f) => tree'[d][f] = tree[d][f])
WorkLike ==
  /\ Saved' \subseteq Saved
  /\ \A d : \A f \in Work :
       /\ Has(d, f) /\ tree[d][f] \in Saved' => Has(d, f)' /\ tree'[d][f] = tree[d][f]
       /\ HasWork(d, f)' => HasWork(d, f)

(* A directory that is made and a file that is no work change neither,     *)
LEMMA SameWork ==
  /\ tree' = tree => WorkSame
  /\ \A D : tree' = WithDirs(D) => WorkSame
  /\ \A d, f, v : f \notin Work /\ tree' = WithFile(d, f, v) => WorkSame
  /\ \A s, t : s # t /\ tree' = Renamed(s, t, ".lock") => WorkSame
  /\ WorkSame /\ Saved' \subseteq Saved => WorkLike
<1>1. ASSUME tree' = tree PROVE WorkSame
  BY <1>1 DEF WorkSame, Has, Exists
<1>2. ASSUME NEW D, tree' = WithDirs(D) PROVE WorkSame
  <2>1. DOMAIN tree' = DOMAIN tree \cup D
        /\ \A d \in DOMAIN tree' : tree'[d] = IF Exists(d) THEN tree[d] ELSE <<>>
    BY <1>2 DEF WithDirs
  <2>2. DOMAIN <<>> = {}
    OBVIOUS
  <2> QED
    BY <2>1, <2>2 DEF WorkSame, Has, Exists
<1>3. ASSUME NEW d, NEW f, NEW v, f \notin Work, tree' = WithFile(d, f, v) PROVE WorkSame
  BY <1>3 DEF WorkSame, WithFile, Put, Has, Exists
<1>4. ASSUME NEW s, NEW t, s # t, tree' = Renamed(s, t, ".lock") PROVE WorkSame
  <2>1. ".lock" \notin Work
    BY DEF Work
  <2>2. CASE IsLock(s, ".lock")
    <3>1. tree' = WithFile(t, ".lock", [text |-> "lock"])
      BY <1>4, <2>2 DEF Renamed
    <3> QED
      BY <1>3, <2>1, <3>1
  <2>3. CASE ~IsLock(s, ".lock")
    <3>1. \/ tree' = [tree EXCEPT ![s] = Drop(@, {".lock"})]
          \/ tree' = [tree EXCEPT ![t] = Put(@, ".lock", tree[s][".lock"]),
                                  ![s] = Drop(@, {".lock"})]
      BY <1>4, <2>3 DEF Renamed
    <3> QED
      BY <1>4, <2>1, <3>1 DEF WorkSame, Has, Exists, Put, Drop
  <2> QED
    BY <2>2, <2>3
<1>5. ASSUME WorkSame, Saved' \subseteq Saved PROVE WorkLike
  BY <1>5 DEF WorkSame, WorkLike, HasWork
<1> QED
  BY <1>1, <1>2, <1>3, <1>4, <1>5

(* nor does a file written where no work is, by what is none,              *)
LEMMA WrittenWork ==
  ASSUME NEW d, NEW f, NEW v, tree' = WithFile(d, f, v), Saved' \subseteq Saved,
         ~HasWork(d, f), v \notin Saved
  PROVE  WorkLike
<1>1. CASE ~Exists(d)
  BY <1>1, SameWork DEF WithFile
<1>2. CASE Exists(d)
  <2>1. tree' = [tree EXCEPT ![d] = Put(@, f, v)]
    BY <1>2 DEF WithFile
  <2>2. /\ \A e, g : Has(e, g)' <=> Has(e, g) \/ (e = d /\ g = f)
        /\ \A e, g : (e # d \/ g # f) /\ Has(e, g) => tree'[e][g] = tree[e][g]
        /\ tree'[d][f] = v
    BY <1>2, <2>1 DEF Put, Has, Exists
  <2> QED
    BY <2>2 DEF WorkLike, HasWork
<1> QED
  BY <1>1, <1>2

(* nor a directory that goes and has no work.                              *)
LEMMA DroppedWork ==
  ASSUME NEW D, tree' = Drop(tree, D), Saved' \subseteq Saved, \A d \in D : NoWork(d)
  PROVE  WorkLike
<1>1. /\ \A e, g : Has(e, g)' <=> Has(e, g) /\ e \notin D
      /\ \A e, g : Has(e, g)' => tree'[e][g] = tree[e][g]
  BY DEF Drop, Has, Exists
<1> QED
  BY <1>1 DEF WorkLike, HasWork, NoWork

LEMMA DroppedOne ==
  ASSUME NEW t, tree' = Drop(tree, {t}), Saved' \subseteq Saved, NoWork(t)
  PROVE  WorkLike
BY DroppedWork

(* Then what lies somewhere lies there, and what is placed is.             *)
LEMMA LikeLies ==
  ASSUME WorkLike, NEW c \in Saved', NEW d, Lies(c, d)
  PROVE  Lies(c, d)'
<1>1. PICK f \in Work : Has(d, f) /\ tree[d][f] = c
  BY DEF Lies
<1>2. Has(d, f)' /\ tree'[d][f] = c
  BY <1>1 DEF WorkLike
<1> QED
  BY <1>2 DEF Lies

(* nor does what is placed change its place.                             *)
LEMMA SamePlaces ==
  ASSUME WorkSame, Saved' \subseteq Saved
  PROVE  /\ \A d, f : HasWork(d, f)' => HasWork(d, f)
         /\ \A d : NoWork(d) => NoWork(d)'
         /\ \A s, t, moved : AwayFrom(s, t, moved) => AwayFrom(s, t, moved)'
         /\ \A s, todo : LeftIn(s, todo) => LeftIn(s, todo)'
         /\ \A x, s, t, todo, moved, into, mine :
              Placed(x, s, t, todo, moved, into, mine) =>
                Placed(x, s, t, todo, moved, into, mine)'
<1>1. \A d, f : HasWork(d, f)' => HasWork(d, f)
  BY DEF WorkSame, HasWork
<1>2. \A d : NoWork(d) => NoWork(d)'
  BY <1>1 DEF NoWork
<1>3. ASSUME NEW s, NEW t, NEW moved, AwayFrom(s, t, moved)
      PROVE  AwayFrom(s, t, moved)'
  <2>1. ASSUME NEW f \in Work, Has(t, f)'
        PROVE  /\ f \in ToSet(moved) => ~HasWork(s, f)'
               /\ HasWork(t, f)' => f \in ToSet(moved) /\ Exists(s)' /\ ~Has(s, f)'
    <3>1. Has(t, f) /\ (Exists(s) => Exists(s)') /\ (Has(s, f)' <=> Has(s, f))
      BY <2>1 DEF WorkSame
    <3> QED
      BY <1>1, <1>3, <3>1 DEF AwayFrom
  <2> QED
    BY <2>1 DEF AwayFrom
<1>4. \A s, todo : LeftIn(s, todo) => LeftIn(s, todo)'
  BY <1>1 DEF LeftIn
<1>5. ASSUME NEW x, NEW s, NEW t, NEW todo, NEW moved, NEW into, NEW mine,
             Placed(x, s, t, todo, moved, into, mine)
      PROVE  Placed(x, s, t, todo, moved, into, mine)'
  BY <1>1, <1>2, <1>3, <1>4, <1>5 DEF Placed
<1> QED
  BY <1>1, <1>2, <1>3, <1>4, <1>5

(* What a rename moves, and what it leaves.                                *)
LEMMA RenamedWork ==
  ASSUME NEW s, NEW t, NEW f, s # t, f # ".lock", CanRename(s, t, f), tree' = Renamed(s, t, f)
  PROVE  /\ Has(s, f) /\ Exists(s) /\ Exists(t) /\ DOMAIN tree' = DOMAIN tree
         /\ \A d, g : Has(d, g)' <=> \/ Has(d, g) /\ ~(d = s /\ g = f)
                                     \/ d = t /\ g = f
         /\ \A d, g : Has(d, g) /\ g # f => tree'[d][g] = tree[d][g]
         /\ \A d, g : Has(d, g) /\ d \notin {s, t} => tree'[d][g] = tree[d][g]
         /\ tree'[t][f] = tree[s][f]
<1>1. Has(s, f) /\ Exists(s) /\ Exists(t)
  BY DEF CanRename, IsLock, Has
<1>2. tree' = [tree EXCEPT ![t] = Put(@, f, tree[s][f]), ![s] = Drop(@, {f})]
  BY DEF Renamed, IsLock
<1>3. /\ DOMAIN tree' = DOMAIN tree
      /\ tree'[t] = Put(tree[t], f, tree[s][f]) /\ tree'[s] = Drop(tree[s], {f})
      /\ \A d \in DOMAIN tree : d \notin {s, t} => tree'[d] = tree[d]
  BY <1>1, <1>2 DEF Exists
<1>4. /\ DOMAIN tree'[t] = {f} \cup DOMAIN tree[t] /\ tree'[t][f] = tree[s][f]
      /\ \A g \in DOMAIN tree[t] : g # f => tree'[t][g] = tree[t][g]
      /\ DOMAIN tree'[s] = DOMAIN tree[s] \ {f}
      /\ \A g \in DOMAIN tree[s] : g # f => tree'[s][g] = tree[s][g]
  BY <1>3 DEF Put, Drop
<1>5. \A d, g : Has(d, g)' <=> \/ Has(d, g) /\ ~(d = s /\ g = f)
                               \/ d = t /\ g = f
  BY <1>1, <1>3, <1>4 DEF Has, Exists
<1>6. /\ \A d, g : Has(d, g) /\ g # f => tree'[d][g] = tree[d][g]
      /\ \A d, g : Has(d, g) /\ d \notin {s, t} => tree'[d][g] = tree[d][g]
  BY <1>3, <1>4 DEF Has, Exists
<1> QED
  BY <1>1, <1>3, <1>4, <1>5, <1>6

(* A rename that replaces no work loses none.                              *)
LEMMA RenamedLies ==
  ASSUME NEW s, NEW t, NEW f, s # t, f # ".lock", CanRename(s, t, f), tree' = Renamed(s, t, f),
         ~HasWork(t, f), NEW c \in Saved
  PROVE  /\ \A d : d \notin {s, t} /\ Lies(c, d) => Lies(c, d)'
         /\ Lies(c, s) \/ Lies(c, t) => Lies(c, s)' \/ Lies(c, t)'
<1>1. /\ Has(s, f) /\ Exists(s) /\ Exists(t) /\ DOMAIN tree' = DOMAIN tree
      /\ \A d, g : Has(d, g)' <=> \/ Has(d, g) /\ ~(d = s /\ g = f)
                                  \/ d = t /\ g = f
      /\ \A d, g : Has(d, g) /\ g # f => tree'[d][g] = tree[d][g]
      /\ \A d, g : Has(d, g) /\ d \notin {s, t} => tree'[d][g] = tree[d][g]
      /\ tree'[t][f] = tree[s][f]
  BY RenamedWork
<1>2. \A d : d \notin {s, t} /\ Lies(c, d) => Lies(c, d)'
  BY <1>1 DEF Lies
<1>3. ASSUME NEW d \in {s, t}, NEW g \in Work, Has(d, g), tree[d][g] = c
      PROVE  Lies(c, s)' \/ Lies(c, t)'
  <2>1. CASE g # f
    <3>1. Has(d, g)' /\ tree'[d][g] = c
      BY <1>1, <1>3, <2>1
    <3>2. Lies(c, d)'
      BY <3>1 DEF Lies
    <3> QED
      BY <3>2
  <2>2. CASE g = f /\ d = s
    <3>1. Has(t, f)' /\ tree'[t][f] = c
      BY <1>1, <1>3, <2>2
    <3> QED
      BY <1>3, <2>2, <3>1 DEF Lies
  <2>3. CASE g = f /\ d = t
    BY <1>3, <2>3 DEF HasWork
  <2> QED
    BY <2>1, <2>2, <2>3
<1> QED
  BY <1>2, <1>3 DEF Lies

(* What is moved on from s to t is away and can go back.                   *)
LEMMA MovedAway ==
  ASSUME NEW s, NEW t, NEW todo, NEW moved, todo \in Seq(ToSet(todo)), moved \in Seq(ToSet(moved)),
         todo # <<>>, s # t, AwayFrom(s, t, moved), LeftIn(s, todo),
         CanRename(s, t, Head(todo)), tree' = Renamed(s, t, Head(todo)),
         Saved' \subseteq Saved
  PROVE  /\ AwayFrom(s, t, Append(moved, Head(todo)))' /\ LeftIn(s, Tail(todo))'
         /\ Head(todo) # ".lock" => ~HasWork(t, Head(todo))
<1>1. PICK f : f = Head(todo)
  OBVIOUS
<1>2. /\ ToSet(Append(moved, f)) = ToSet(moved) \cup {f}
      /\ ToSet(todo) = {f} \cup ToSet(Tail(todo))
  BY <1>1, SeqMembers
<1>3. CASE f = ".lock"
  <2>1. WorkSame /\ f \notin Work
    BY <1>1, <1>3, SameWork DEF Work
  <2>2. AwayFrom(s, t, moved)' /\ LeftIn(s, todo)'
    BY <2>1, SamePlaces
  <2>3. AwayFrom(s, t, Append(moved, f))' /\ LeftIn(s, Tail(todo))'
    BY <1>2, <2>1, <2>2 DEF AwayFrom, LeftIn
  <2> QED
    BY <1>1, <1>3, <2>3
<1>4. CASE f # ".lock"
  <2>1. /\ Has(s, f) /\ Exists(s) /\ Exists(t) /\ DOMAIN tree' = DOMAIN tree
        /\ \A d, g : Has(d, g)' <=> \/ Has(d, g) /\ ~(d = s /\ g = f)
                                    \/ d = t /\ g = f
        /\ \A d, g : Has(d, g) /\ g # f => tree'[d][g] = tree[d][g]
        /\ \A d, g : Has(d, g) /\ d \notin {s, t} => tree'[d][g] = tree[d][g]
        /\ tree'[t][f] = tree[s][f]
    BY <1>1, <1>4, RenamedWork
  <2>2. ~HasWork(t, f)
    BY <2>1 DEF AwayFrom, HasWork
  <2>3. \A d, g : g # f => (HasWork(d, g)' => HasWork(d, g))
    BY <2>1 DEF HasWork
  <2>4. ~Has(s, f)' /\ ~HasWork(s, f)' /\ Exists(s)'
    BY <2>1 DEF HasWork, Exists
  <2>5. \A d, g : g # f => (Has(d, g)' <=> Has(d, g))
    BY <2>1
  <2>6. ASSUME NEW g \in Work, Has(t, g)'
        PROVE  /\ g \in ToSet(moved) \cup {f} => ~HasWork(s, g)'
               /\ HasWork(t, g)' => g \in ToSet(moved) \cup {f} /\ Exists(s)' /\ ~Has(s, g)'
    <3>1. CASE g = f
      BY <2>4, <3>1
    <3>2. CASE g # f
      BY <2>3, <2>4, <2>5, <2>6, <3>2 DEF AwayFrom
    <3> QED
      BY <3>1, <3>2
  <2>7. AwayFrom(s, t, Append(moved, f))'
    BY <1>2, <2>6 DEF AwayFrom
  <2>8. LeftIn(s, Tail(todo))'
    BY <1>2, <2>3, <2>4 DEF LeftIn
  <2> QED
    BY <1>1, <2>2, <2>7, <2>8
<1> QED
  BY <1>3, <1>4

(* So is what is not moved back yet, or is lost on its way back.           *)
LEMMA UndoneAway ==
  ASSUME NEW s, NEW t, NEW moved, moved \in Seq(ToSet(moved)), moved # <<>>, s # t,
         AwayFrom(s, t, moved), Saved' \subseteq Saved,
         IF CanRename(t, s, Head(moved))
           THEN \/ tree' = Renamed(t, s, Head(moved))
                \/ tree' = tree /\ tree[t][Head(moved)] \notin Saved'
           ELSE tree' = tree
  PROVE  /\ AwayFrom(s, t, Tail(moved))'
         /\ Head(moved) # ".lock" /\ CanRename(t, s, Head(moved)) => ~HasWork(s, Head(moved))
<1>1. PICK f : f = Head(moved)
  OBVIOUS
<1>2. ToSet(moved) = {f} \cup ToSet(Tail(moved))
  BY <1>1, SeqMembers
<1>3. CASE f = ".lock"
  <2>1. WorkSame /\ f \notin Work
    BY <1>1, <1>3, SameWork DEF Work
  <2>2. AwayFrom(s, t, moved)'
    BY <2>1, SamePlaces
  <2>3. AwayFrom(s, t, Tail(moved))'
    BY <1>2, <2>1, <2>2 DEF AwayFrom
  <2> QED
    BY <1>1, <1>3, <2>3
<1>4. CASE f # ".lock" /\ tree' = tree /\ (CanRename(t, s, f) => tree[t][f] \notin Saved')
  <2>1. \A d, g : Has(d, g)' <=> Has(d, g)
    BY <1>4 DEF Has, Exists
  <2>2. \A d, g : HasWork(d, g)' => HasWork(d, g)
    BY <1>4, SameWork, SamePlaces
  <2>3. f \in Work => ~HasWork(t, f)'
    <3>1. ASSUME f \in Work, HasWork(t, f)' PROVE FALSE
      <4>1. HasWork(t, f) /\ tree[t][f] \in Saved'
        BY <1>4, <2>2, <3>1 DEF HasWork
      <4>2. f \in ToSet(moved)
        BY <1>2
      <4>3. Has(t, f) /\ Exists(s) /\ ~Has(s, f)
        BY <3>1, <4>1 DEF AwayFrom, HasWork
      <4>4. CanRename(t, s, f)
        BY <1>4, <4>3 DEF CanRename, IsLock
      <4> QED
        BY <1>4, <4>1, <4>4
    <3> QED
      BY <3>1
  <2>4. ASSUME NEW g \in Work, Has(t, g)'
        PROVE  /\ g \in ToSet(Tail(moved)) => ~HasWork(s, g)'
               /\ HasWork(t, g)' => g \in ToSet(Tail(moved)) /\ Exists(s)' /\ ~Has(s, g)'
    <3>1. Exists(s) => Exists(s)'
      BY <1>4 DEF Exists
    <3> QED
      BY <1>2, <2>1, <2>2, <2>3, <2>4, <3>1 DEF AwayFrom
  <2>5. AwayFrom(s, t, Tail(moved))'
    BY <2>4 DEF AwayFrom
  <2>6. CanRename(t, s, f) => ~HasWork(s, f)
    <3>1. ASSUME CanRename(t, s, f), HasWork(s, f) PROVE FALSE
      <4>1. Has(t, f) /\ f \in Work
        BY <1>4, <3>1 DEF CanRename, IsLock, HasWork
      <4> QED
        BY <1>2, <3>1, <4>1 DEF AwayFrom
    <3> QED
      BY <3>1
  <2> QED
    BY <1>1, <2>5, <2>6
<1>5. CASE f # ".lock" /\ CanRename(t, s, f) /\ tree' = Renamed(t, s, f)
  <2>1. /\ Has(t, f) /\ Exists(t) /\ Exists(s) /\ DOMAIN tree' = DOMAIN tree
        /\ \A d, g : Has(d, g)' <=> \/ Has(d, g) /\ ~(d = t /\ g = f)
                                    \/ d = s /\ g = f
        /\ \A d, g : Has(d, g) /\ g # f => tree'[d][g] = tree[d][g]
        /\ \A d, g : Has(d, g) /\ d \notin {t, s} => tree'[d][g] = tree[d][g]
        /\ tree'[s][f] = tree[t][f]
    BY <1>5, RenamedWork
  <2>2. ~HasWork(s, f)
    BY <1>2, <2>1 DEF AwayFrom, HasWork
  <2>3. \A d, g : g # f => (HasWork(d, g)' => HasWork(d, g))
    BY <2>1 DEF HasWork
  <2>4. Exists(s)' /\ ~Has(t, f)'
    BY <2>1 DEF Exists
  <2>5. \A d, g : g # f => (Has(d, g)' <=> Has(d, g))
    BY <2>1
  <2>6. ASSUME NEW g \in Work, Has(t, g)'
        PROVE  /\ g \in ToSet(Tail(moved)) => ~HasWork(s, g)'
               /\ HasWork(t, g)' => g \in ToSet(Tail(moved)) /\ Exists(s)' /\ ~Has(s, g)'
    <3>1. g # f
      BY <2>4, <2>6
    <3> QED
      BY <1>2, <2>3, <2>4, <2>5, <2>6, <3>1 DEF AwayFrom
  <2>7. AwayFrom(s, t, Tail(moved))'
    BY <2>6 DEF AwayFrom
  <2> QED
    BY <1>1, <2>2, <2>7
<1> QED
  BY <1>1, <1>3, <1>4, <1>5

-----------------------------------------------------------------------------
(***************************************************************************)
(* The order of the steps of create and complete.                          *)
(***************************************************************************)
\* What comes after the step x of a call that moves work.
StepAfter(c, x) ==
  CASE x = "look for stream" -> IF c = "create" THEN "look for mode" ELSE "unpoint"
    [] x = "look for mode"   -> "look for work"
    [] x = "look for work"   -> "look for target"
    [] x = "look for target" -> "make target"
    [] x = "make target"     -> "look"
    [] x = "look"            -> "move"
    [] x = "unpoint"         -> "pick archive"
    [] x = "pick archive"    -> "make archive"
    [] x = "make archive"    -> "list entries"
    [] x = "list entries"    -> "move"
    [] x = "move"            -> "undo"
    [] x = "undo"            -> "discard"
    [] x = "discard"         -> IF c = "create" THEN "drop workstreams" ELSE "point"
    [] x = "make stream"     -> "look for state"
    [] x = "look for state"  -> "write new state"
    [] x = "write new state" -> "point"
    [] x = "point"           -> "remove stream"
    [] x = "remove stream"   -> "drop workstreams"
    [] x = "drop workstreams" -> "make stream"

MovingSteps == {"look for stream", "look for mode", "look for work", "look for target",
                "make target", "look", "unpoint", "pick archive", "make archive",
                "list entries", "move", "undo", "discard", "make stream", "look for state",
                "write new state", "point", "remove stream", "drop workstreams"}

\* The steps s are of the command c, and come one after the other to an end.
InOrder(c, s) ==
  /\ Len(s) \in Nat \ {0} /\ s[1] = "look for stream"
  /\ s[Len(s)] \in {"point", "drop workstreams"}
  /\ \A i \in 1 .. Len(s) : s[i] \in MovingSteps
  /\ \A i \in 1 .. Len(s) - 1 : s[i + 1] = StepAfter(c, s[i])

(* Those of create and of complete do.                                     *)
LEMMA MoversInOrder ==
  /\ InOrder("create", SpaceProgram["create"])
  /\ InOrder("finish", SpaceProgram["finish"])
<1>1. InOrder("create", SpaceProgram["create"])
  <2> DEFINE s == SpaceProgram["create"]
  <2>1. /\ Len(s) = 14
        /\ s[1] = "look for stream" /\ s[2] = "look for mode" /\ s[3] = "look for work"
        /\ s[4] = "look for target" /\ s[5] = "make target" /\ s[6] = "look"
        /\ s[7] = "move" /\ s[8] = "undo" /\ s[9] = "discard"
        /\ s[10] = "drop workstreams" /\ s[11] = "make stream" /\ s[12] = "look for state"
        /\ s[13] = "write new state" /\ s[14] = "point"
    BY DEF SpaceProgram
  <2>2. 14 \in Nat \ {0} /\ (\A i \in 1 .. 14 - 1 :
        \/ (i = 1 /\ i + 1 = 2)
        \/ (i = 2 /\ i + 1 = 3)
        \/ (i = 3 /\ i + 1 = 4)
        \/ (i = 4 /\ i + 1 = 5)
        \/ (i = 5 /\ i + 1 = 6)
        \/ (i = 6 /\ i + 1 = 7)
        \/ (i = 7 /\ i + 1 = 8)
        \/ (i = 8 /\ i + 1 = 9)
        \/ (i = 9 /\ i + 1 = 10)
        \/ (i = 10 /\ i + 1 = 11)
        \/ (i = 11 /\ i + 1 = 12)
        \/ (i = 12 /\ i + 1 = 13)
        \/ (i = 13 /\ i + 1 = 14)) /\ \A i \in 1 .. 14 : i \in 1 .. 14 - 1 \/ i = 14
    OBVIOUS
  <2> HIDE DEF s
  <2>3. /\ StepAfter("create", s[1]) = s[2] /\ StepAfter("create", s[2]) = s[3]
        /\ StepAfter("create", s[3]) = s[4] /\ StepAfter("create", s[4]) = s[5]
        /\ StepAfter("create", s[5]) = s[6] /\ StepAfter("create", s[6]) = s[7]
        /\ StepAfter("create", s[7]) = s[8] /\ StepAfter("create", s[8]) = s[9]
        /\ StepAfter("create", s[9]) = s[10] /\ StepAfter("create", s[10]) = s[11]
        /\ StepAfter("create", s[11]) = s[12] /\ StepAfter("create", s[12]) = s[13]
        /\ StepAfter("create", s[13]) = s[14]
    BY <2>1 DEF StepAfter
  <2>4. ASSUME NEW i \in 1 .. 14 - 1 PROVE s[i + 1] = StepAfter("create", s[i])
    BY <2>2, <2>3
  <2>5. /\ s[1] \in MovingSteps /\ s[2] \in MovingSteps /\ s[3] \in MovingSteps
        /\ s[4] \in MovingSteps /\ s[5] \in MovingSteps /\ s[6] \in MovingSteps
        /\ s[7] \in MovingSteps /\ s[8] \in MovingSteps /\ s[9] \in MovingSteps
        /\ s[10] \in MovingSteps /\ s[11] \in MovingSteps /\ s[12] \in MovingSteps
        /\ s[13] \in MovingSteps /\ s[14] \in MovingSteps
    BY <2>1 DEF MovingSteps
  <2>6. ASSUME NEW i \in 1 .. 14 PROVE s[i] \in MovingSteps
    BY <2>2, <2>5
  <2>7. s[14] \in {"point", "drop workstreams"} /\ s[1] = "look for stream" /\ Len(s) = 14
    BY <2>1
  <2> QED
    BY <2>2, <2>4, <2>6, <2>7, Zenon DEF InOrder, s
<1>2. InOrder("finish", SpaceProgram["finish"])
  <2> DEFINE s == SpaceProgram["finish"]
  <2>1. /\ Len(s) = 11
        /\ s[1] = "look for stream" /\ s[2] = "unpoint" /\ s[3] = "pick archive"
        /\ s[4] = "make archive" /\ s[5] = "list entries" /\ s[6] = "move"
        /\ s[7] = "undo" /\ s[8] = "discard" /\ s[9] = "point"
        /\ s[10] = "remove stream" /\ s[11] = "drop workstreams"
    BY DEF SpaceProgram
  <2>2. 11 \in Nat \ {0} /\ (\A i \in 1 .. 11 - 1 :
        \/ (i = 1 /\ i + 1 = 2)
        \/ (i = 2 /\ i + 1 = 3)
        \/ (i = 3 /\ i + 1 = 4)
        \/ (i = 4 /\ i + 1 = 5)
        \/ (i = 5 /\ i + 1 = 6)
        \/ (i = 6 /\ i + 1 = 7)
        \/ (i = 7 /\ i + 1 = 8)
        \/ (i = 8 /\ i + 1 = 9)
        \/ (i = 9 /\ i + 1 = 10)
        \/ (i = 10 /\ i + 1 = 11)) /\ \A i \in 1 .. 11 : i \in 1 .. 11 - 1 \/ i = 11
    OBVIOUS
  <2> HIDE DEF s
  <2>3. /\ StepAfter("finish", s[1]) = s[2] /\ StepAfter("finish", s[2]) = s[3]
        /\ StepAfter("finish", s[3]) = s[4] /\ StepAfter("finish", s[4]) = s[5]
        /\ StepAfter("finish", s[5]) = s[6] /\ StepAfter("finish", s[6]) = s[7]
        /\ StepAfter("finish", s[7]) = s[8] /\ StepAfter("finish", s[8]) = s[9]
        /\ StepAfter("finish", s[9]) = s[10] /\ StepAfter("finish", s[10]) = s[11]
    BY <2>1 DEF StepAfter
  <2>4. ASSUME NEW i \in 1 .. 11 - 1 PROVE s[i + 1] = StepAfter("finish", s[i])
    BY <2>2, <2>3
  <2>5. /\ s[1] \in MovingSteps /\ s[2] \in MovingSteps /\ s[3] \in MovingSteps
        /\ s[4] \in MovingSteps /\ s[5] \in MovingSteps /\ s[6] \in MovingSteps
        /\ s[7] \in MovingSteps /\ s[8] \in MovingSteps /\ s[9] \in MovingSteps
        /\ s[10] \in MovingSteps /\ s[11] \in MovingSteps
    BY <2>1 DEF MovingSteps
  <2>6. ASSUME NEW i \in 1 .. 11 PROVE s[i] \in MovingSteps
    BY <2>2, <2>5
  <2>7. s[11] \in {"point", "drop workstreams"} /\ s[1] = "look for stream" /\ Len(s) = 11
    BY <2>1
  <2> QED
    BY <2>2, <2>4, <2>6, <2>7, Zenon DEF InOrder, s
<1> QED
  BY <1>1, <1>2

(* Where a call that moves work goes.                                      *)
LEMMA WhereMoving ==
  ASSUME Formed, NEW p \in Procs, Moving(p), run'[p].cmd = run[p].cmd, killed' = killed,
         run'[p].at \in Nat
  PROVE  LET c == Cmd(p).name IN
         /\ c \in {"create", "finish"} /\ Laying(p) /\ Now(p) \in MovingSteps
         /\ run'[p].at = run[p].at => Moving(p)' /\ Now(p)' = Now(p)
         /\ run'[p].at = run[p].at + 1 /\ Moving(p)' => Now(p)' = StepAfter(c, Now(p))
         /\ run'[p].at = run[p].at + 1 /\ Now(p) \notin {"point", "drop workstreams"} =>
              Moving(p)'
         /\ run'[p].at = run[p].at + 2 /\ Moving(p)' => Now(p)' = StepAfter(c, StepAfter(c, Now(p)))
         /\ run'[p].at = run[p].at - 1 /\ c = "create" /\ Now(p) = "move" =>
              Moving(p)' /\ Now(p)' = "look"
         /\ \A x : Occurs(c, x) /\ run'[p].at = StepNo(p, x) => Moving(p)' /\ Now(p)' = x
         /\ run'[p].at = Len(Steps(p)) + 1 => ~Moving(p)'
<1> DEFINE c == Cmd(p).name  s == Steps(p)  i == run[p].at  j == run'[p].at
<1>1. /\ c \in {"create", "finish"} /\ c \in SpaceCommands /\ i \in 1 .. Len(s)
      /\ s = SpaceProgram[c] /\ s = Program[c] /\ Len(s) \in Nat
  <2>1. Running(p) /\ c \in {"create", "finish"}
    BY DEF Moving, Movers
  <2>2. c \in SpaceCommands /\ c \notin PhaseCommands
    BY <2>1, CommandsAre
  <2>3. Program[c] = SpaceProgram[c]
    BY <2>2 DEF Program, Commands
  <2> QED
    BY <2>1, <2>2, <2>3, StepLeads DEF Steps, Cmd
<1>2. InOrder(c, s)
  BY <1>1, MoversInOrder
<1>3. Cmd(p)' = Cmd(p) /\ Steps(p)' = s /\ Now(p) = s[i] /\ Now(p)' = s[j]
  BY DEF Cmd, Steps, Now
<1>4. Moving(p)' <=> j > 0 /\ j <= Len(s)
  BY <1>1, <1>3 DEF Moving, Movers, Running, Started
<1>5. Laying(p)
  BY <1>1 DEF Laying, Moving
<1>6. ASSUME NEW x, Occurs(c, x), j = StepNo(p, x) PROVE Moving(p)' /\ Now(p)' = x
  <2>1. DOMAIN s = 1 .. Len(s)
    <3>1. \E X : s \in Seq(X)
      BY <1>1, CreateLinks, FinishLinks DEF Linked
    <3> QED
      BY <3>1
  <2>2. \E k \in DOMAIN s : s[k] = x
    BY <1>1, <1>6, <2>1, Zenon DEF Occurs, Contains
  <2>3. s[j] = x /\ j \in DOMAIN s
    BY <1>6, <2>2, Zenon DEF StepNo
  <2>4. j > 0 /\ j <= Len(s)
    BY <1>1, <2>1, <2>3
  <2> QED
    BY <1>3, <1>4, <2>3, <2>4
<1> HIDE DEF s, i, j
<1>7. Len(s) \in Nat /\ i \in Nat /\ j \in Nat /\ i >= 1 /\ i <= Len(s)
  BY <1>1 DEF s, j
<1>8. s[i] \in MovingSteps
  BY <1>1, <1>2 DEF InOrder
<1>9. j = i => j > 0 /\ j <= Len(s)
  BY <1>7
<1>10. j = i + 1 /\ j <= Len(s) => s[j] = StepAfter(c, s[i])
  <2>1. j = i + 1 /\ j <= Len(s) => i \in 1 .. Len(s) - 1 /\ i + 1 = j
    BY <1>7
  <2> QED
    BY <1>2, <2>1, Zenon DEF InOrder
<1>11. ASSUME j = i + 1, s[i] \notin {"point", "drop workstreams"} PROVE j > 0 /\ j <= Len(s)
  <2>1. i # Len(s)
    BY <1>2, <1>11, Zenon DEF InOrder
  <2>2. j = i + 1 /\ i # Len(s) => j > 0 /\ j <= Len(s)
    BY <1>7
  <2> QED
    BY <1>11, <2>1, <2>2, Zenon
<1>12. ASSUME j = i + 2, j <= Len(s) PROVE s[j] = StepAfter(c, StepAfter(c, s[i]))
  <2>1. i \in 1 .. Len(s) - 1 /\ i + 1 \in 1 .. Len(s) - 1 /\ (i + 1) + 1 = j
    BY <1>7, <1>12
  <2> QED
    BY <1>2, <2>1, Zenon DEF InOrder
<1>13. ASSUME j = i - 1, c = "create", s[i] = "move"
       PROVE  j > 0 /\ j <= Len(s) /\ s[j] = "look"
  <2>1. i # 1
    BY <1>2, <1>13 DEF InOrder
  <2>2. j > 0 /\ j <= Len(s) /\ j \in 1 .. Len(s) - 1 /\ j + 1 = i /\ j \in 1 .. Len(s)
    BY <1>7, <1>13, <2>1
  <2>3. s[j] \in MovingSteps /\ "move" = StepAfter("create", s[j])
    BY <1>2, <1>13, <2>2 DEF InOrder
  <2>4. Follows("create", s[j], s[i])
    <3>1. Linked("create", s, "look for stream", "point")
      BY <1>1, <1>13, CreateLinks DEF s
    <3> QED
      BY <2>2, <3>1 DEF Linked
  <2>5. s[j] = "look"
    BY <1>13, <2>4 DEF Follows
  <2> QED
    BY <2>2, <2>5
<1>14. j = Len(s) + 1 => ~(j <= Len(s))
  BY <1>7
<1> QED
  BY <1>1, <1>3, <1>4, <1>5, <1>6, <1>8, <1>9, <1>10, <1>11, <1>12, <1>13, <1>14, Zenon
     DEF s, i, j

(* The work there was at the start does not change, nor comes back.        *)
LEMMA StepsKeepWork ==
  ASSUME NEW p \in Procs, SpaceStep(p)
  PROVE  work' = work /\ Saved' \subseteq Saved
<1> USE DEF Idle, OnlyTree
<1>1. (Route(p) \/ Heal(p) \/ Point(p) \/ Unpoint(p) \/ LookForStream(p)
        \/ LookForMode(p) \/ LookForWork(p) \/ LookForTarget(p) \/ MakeTarget(p)
        \/ PickArchive(p) \/ MakeArchive(p) \/ ListEntries(p) \/ Look(p))
        => work' = work
  BY DEF Route, Heal, Point, Unpoint, LookForStream, LookForMode, LookForWork,
         LookForTarget, MakeTarget, PickArchive, MakeArchive, ListEntries, Look
<1>2. (Moved(p) \/ MoveFails(p) \/ AllMoved(p) \/ Undo(p) \/ AllUndone(p) \/ Discard(p)
        \/ RemoveStream(p) \/ DropWorkstreams(p) \/ MakeStream(p)
        \/ LookForState(p) \/ WriteNewState(p))
        => work' = work
  BY DEF Moved, MoveFails, AllMoved, Undo, AllUndone, Discard, RemoveStream,
         DropWorkstreams, MakeStream, LookForState, WriteNewState
<1>3. (MakeScope(p) \/ LookForConfig(p) \/ WriteDefaults(p) \/ ReadConfig(p)
        \/ WriteConfig(p) \/ ConfigFails(p) \/ LoadConfig(p) \/ TruncateConfig(p)
        \/ FillConfig(p) \/ RewriteFails(p) \/ Inspect(p) \/ Repair(p) \/ BackUpState(p)
        \/ RegenerateState(p) \/ StateFails(p) \/ LockInVain(p))
        => work' = work
  BY DEF MakeScope, LookForConfig, WriteDefaults, ReadConfig, WriteConfig, ConfigFails,
         LoadConfig, TruncateConfig, FillConfig, RewriteFails, Inspect, Repair, BackUpState,
         RegenerateState, StateFails, LockInVain
<1>4. work' = work
  BY <1>1, <1>2, <1>3 DEF SpaceStep
<1>5. lost \subseteq lost'
  BY SpaceStepLoses
<1> QED
  BY <1>4, <1>5 DEF Saved

(* What a call that moves work does at a step.                             *)
LEMMA StepsOfMovers ==
  ASSUME NEW p \in Procs, SpaceStep(p), Now(p) \in MovingSteps
  PROVE  \/ LookForStream(p) \/ LookForMode(p) \/ LookForWork(p) \/ LookForTarget(p)
         \/ MakeTarget(p) \/ Unpoint(p) \/ PickArchive(p) \/ MakeArchive(p)
         \/ ListEntries(p) \/ Look(p) \/ Moved(p) \/ MoveFails(p) \/ AllMoved(p)
         \/ Undo(p) \/ AllUndone(p) \/ Discard(p) \/ RemoveStream(p) \/ DropWorkstreams(p)
         \/ MakeStream(p) \/ LookForState(p) \/ WriteNewState(p) \/ Point(p)
         \/ (StateFails(p) /\ At(p, "write new state"))
<1>1. ~(Route(p) \/ Heal(p) \/ MakeScope(p) \/ LookForConfig(p) \/ WriteDefaults(p)
        \/ ReadConfig(p) \/ WriteConfig(p) \/ ConfigFails(p) \/ LoadConfig(p)
        \/ TruncateConfig(p))
  BY DEF At, Now, MovingSteps, Route, Heal, MakeScope, LookForConfig, WriteDefaults,
         ReadConfig, WriteConfig, ConfigFails, LoadConfig, TruncateConfig
<1>2. ~(FillConfig(p) \/ RewriteFails(p) \/ Inspect(p) \/ Repair(p) \/ BackUpState(p)
        \/ RegenerateState(p) \/ LockInVain(p))
  BY DEF At, Now, MovingSteps, FillConfig, RewriteFails, Inspect, Repair,
         BackUpState, RegenerateState, LockInVain, InVain
<1>3. StateFails(p) => At(p, "write new state")
  BY DEF At, Now, MovingSteps, StateFails
<1> QED
  BY <1>1, <1>2, <1>3 DEF SpaceStep

(* Where a call moves work from and to is no place but those two.          *)
LEMMA MoverPlaces ==
  ASSUME LockInv, NEW p \in Procs, Moving(p), SpaceStep(p)
  PROVE  /\ Formed /\ Same(p) /\ Laying(p) /\ Now(p) \in MovingSteps
         /\ run'[p].at # 0 /\ Cmd(p) # Nothing
         /\ Cmd(p).name \in {"create", "finish"} /\ Cmd(p).stream \in Streams
         /\ Cmd(p)' = Cmd(p) /\ Mine(p)' = Mine(p) /\ Source(p)' = Source(p)
         /\ run'[p].num = run[p].num \/ Cmd(p).name = "create" => Target(p)' = Target(p)
         /\ Source(p) # Target(p)
         /\ Workstreams \notin {Mine(p), Source(p), Target(p)}
         /\ \A N : Is(p, N) <=> Cmd(p).name \in N
         /\ Cmd(p).name = "create" => Target(p) = Workstream(Cmd(p).into)
         /\ Cmd(p).name = "finish" => /\ Source(p) = Mine(p)
                                      /\ Target(p) = ArchiveOf(Cmd(p).stream, run[p].num)
                                      /\ Target(p)' = ArchiveOf(Cmd(p).stream, run'[p].num)
<1> DEFINE c == Cmd(p).name
<1>1. c \in {"create", "finish"} /\ c \in SpaceCommands /\ Running(p) /\ Started(p)
  BY CommandsAre DEF Moving, Movers, Running
<1>2. Laying(p)
  BY <1>1 DEF Laying
<1>3. Formed /\ Same(p) /\ run'[p].at \in Nat \ {0} /\ run'[p].cmd = run[p].cmd
  <2>1. Local(p) /\ Formed
    BY <1>2, SpaceStepIsLocal DEF LockInv
  <2>2. OneMoves(p)
    BY <1>1, <1>2, <2>1, LocalIsOne, SpaceStepLoses
  <2> QED
    BY <1>2, <2>1, <2>2, SpaceIsSame DEF OneMoves
<1>4. Cmd(p)' = Cmd(p) /\ Started(p)'
  BY <1>3 DEF Cmd, Started
<1>5. Now(p) \in MovingSteps
  BY <1>3, WhereMoving DEF Same
<1>6. Cmd(p) # Nothing /\ Cmd(p).stream \in Streams
  BY <1>1, <1>3 DEF Formed, CallFormed, Movers
<1>7. \A N : (Is(p, N) <=> c \in N) /\ (Is(p, N)' <=> c \in N)
  BY <1>1, <1>4 DEF Is
<1>8. /\ c = "create" => Source(p) = Root /\ Target(p) = Workstream(Cmd(p).into)
      /\ c = "create" => Source(p)' = Root /\ Target(p)' = Workstream(Cmd(p).into)
      /\ c = "finish" => Source(p) = Mine(p) /\ Target(p) = ArchiveOf(Cmd(p).stream, run[p].num)
      /\ c = "finish" => Source(p)' = Mine(p)
                         /\ Target(p)' = ArchiveOf(Cmd(p).stream, run'[p].num)
      /\ Mine(p)' = Mine(p)
  BY <1>4, <1>7 DEF Source, Target, Mine
<1>9. /\ Source(p) # Target(p) /\ Workstreams \notin {Mine(p), Source(p), Target(p)}
  BY <1>1, <1>8, Places DEF Mine
<1> QED
  BY <1>1, <1>2, <1>3, <1>4, <1>5, <1>6, <1>7, <1>8, <1>9

(* The number of the archive stays too, once it is picked.                 *)
LEMMA NumberStays ==
  ASSUME Formed, NEW p \in Procs
  PROVE  /\ Go(p) \/ Stop(p) \/ Skip(p) => run'[p].num = run[p].num
         /\ \A x : GoTo(p, x) => run'[p].num = run[p].num
         /\ \A v : GoWith(p, "was", v) \/ GoWith(p, "todo", v) => run'[p].num = run[p].num
         /\ \A v : GoWith(p, "num", v) => run'[p].num = v
<1>1. DOMAIN run = Procs /\ DOMAIN run[p] = Fields
  BY DEF Formed, CallFormed
<1>2. {"at", "todo", "was", "num"} \subseteq Fields
  BY FieldsAre
<1> HIDE DEF Fields
<1>3. Go(p) \/ Stop(p) \/ Skip(p) => run'[p].num = run[p].num
  BY <1>1, <1>2 DEF Go, Stop, Skip
<1>4. \A x : GoTo(p, x) => run'[p].num = run[p].num
  BY <1>1, <1>2 DEF GoTo
<1>5. \A v : GoWith(p, "was", v) \/ GoWith(p, "todo", v) => run'[p].num = run[p].num
  BY <1>1, <1>2 DEF GoWith
<1>6. \A v : GoWith(p, "num", v) => run'[p].num = v
  BY <1>1, <1>2 DEF GoWith
<1> QED
  BY <1>3, <1>4, <1>5, <1>6

(* What is moved first is a list of work.                                  *)
LEMMA FilesOfWork == WorkFiles \in Seq(Work) /\ ToSet(WorkFiles) = Work
<1>1. WorkFiles \in Seq(Work) /\ DOMAIN WorkFiles = 1 .. 4
  BY DEF WorkFiles, Work
<1>2. /\ WorkFiles[1] = "ROADMAP.md" /\ WorkFiles[2] = "STATE.md"
      /\ WorkFiles[3] = "REQUIREMENTS.md" /\ WorkFiles[4] = "phases"
  BY DEF WorkFiles
<1>3. \A i : i \in 1 .. 4 <=> i = 1 \/ i = 2 \/ i = 3 \/ i = 4
  OBVIOUS
<1>4. ToSet(WorkFiles) = {WorkFiles[1], WorkFiles[2], WorkFiles[3], WorkFiles[4]}
  BY <1>1, <1>3 DEF ToSet
<1> QED
  BY <1>1, <1>2, <1>4 DEF Work

(* What comes before something is moved comes after such a step.           *)
LEMMA StillPreparing ==
  /\ \A c : \A x \in MovingSteps : StepAfter(c, x) \in Preparing => x \in Preparing
  /\ Preparing \cap Carrying = {}
BY DEF StepAfter, MovingSteps, Preparing, Carrying

(* The lists stay lists.                                                   *)
LEMMA ListsKeep ==
  ASSUME LockInv, TreeFits, NEW p \in Procs, Moving(p), SpaceStep(p), ListsFit(p)
  PROVE  ListsFit(p)'
<1> DEFINE c == Cmd(p).name
<1>1. /\ Formed /\ Same(p) /\ Laying(p) /\ Now(p) \in MovingSteps
      /\ run'[p].at # 0 /\ Cmd(p) # Nothing
      /\ c \in {"create", "finish"} /\ Cmd(p)' = Cmd(p)
      /\ \A N : Is(p, N) <=> Cmd(p).name \in N
  BY MoverPlaces
<1>2. /\ run[p].todo \in Seq(ToSet(run[p].todo)) /\ run[p].moved \in Seq(ToSet(run[p].moved))
      /\ Now(p) \in Preparing => run[p].moved = <<>>
  BY <1>1 DEF ListsFit, Movers, Moving
<1>3. /\ run'[p].at = run[p].at => Now(p)' = Now(p)
      /\ run'[p].at = run[p].at + 1 /\ Moving(p)' => Now(p)' = StepAfter(c, Now(p))
      /\ run'[p].at = run[p].at + 2 /\ Moving(p)' =>
           Now(p)' = StepAfter(c, StepAfter(c, Now(p)))
      /\ run'[p].at = run[p].at - 1 /\ c = "create" /\ Now(p) = "move" => Now(p)' = "look"
      /\ \A x : Occurs(c, x) /\ run'[p].at = StepNo(p, x) => Now(p)' = x
      /\ run'[p].at = Len(Steps(p)) + 1 => ~Moving(p)'
  BY <1>1, WhereMoving DEF Same
<1>4. ASSUME run'[p].todo \in Seq(ToSet(run'[p].todo)),
             run'[p].moved \in Seq(ToSet(run'[p].moved)),
             Moving(p)' /\ Now(p)' \in Preparing => run'[p].moved = <<>>
      PROVE  ListsFit(p)'
  BY <1>1, <1>4 DEF ListsFit
<1>5. ASSUME run'[p].todo = run[p].todo \/ run'[p].todo \in Seq(ToSet(run'[p].todo)),
             run'[p].moved = run[p].moved,
             Moving(p)' /\ Now(p)' \in Preparing => Now(p) \in Preparing
      PROVE  ListsFit(p)'
  <2>1. run'[p].todo \in Seq(ToSet(run'[p].todo))
    BY <1>2, <1>5
  <2> QED
    BY <1>2, <1>4, <1>5, <2>1
<1>6. /\ Go(p) => /\ run'[p].todo = run[p].todo /\ run'[p].moved = run[p].moved
                  /\ run'[p].at = run[p].at + 1
      /\ Stop(p) => /\ run'[p].todo = run[p].todo /\ run'[p].moved = run[p].moved
                    /\ run'[p].at = Len(Steps(p)) + 1
      /\ Skip(p) => /\ run'[p].todo = run[p].todo /\ run'[p].moved = run[p].moved
                    /\ run'[p].at = run[p].at + 2
      /\ \A x : GoTo(p, x) => /\ run'[p].todo = run[p].todo /\ run'[p].moved = run[p].moved
                              /\ run'[p].at = StepNo(p, x)
      /\ \A v : GoWith(p, "was", v) \/ GoWith(p, "num", v) =>
           /\ run'[p].todo = run[p].todo /\ run'[p].moved = run[p].moved
           /\ run'[p].at = run[p].at + 1
      /\ \A v : GoWith(p, "todo", v) =>
           /\ run'[p].todo = v /\ run'[p].moved = run[p].moved
           /\ run'[p].at = run[p].at + 1
  BY <1>1, HandsStay
<1>7. ASSUME \/ Go(p) \/ Stop(p) \/ \E v : GoWith(p, "was", v) \/ GoWith(p, "num", v)
      PROVE  ListsFit(p)'
  BY <1>1, <1>3, <1>5, <1>6, <1>7, StillPreparing
<1>8. /\ \A x \in {"make stream", "undo"} : Occurs("create", x) /\ x \notin Preparing
      /\ \A x \in {"discard", "undo", "remove stream"} : Occurs("finish", x) /\ x \notin Preparing
  BY Targets DEF Preparing
<1>9. ASSUME NEW x, GoTo(p, x), Occurs(c, x), x \notin Preparing
      PROVE  ListsFit(p)'
  BY <1>1, <1>3, <1>5, <1>6, <1>9
<1>10. DOMAIN run = Procs /\ DOMAIN run[p] = Fields
  BY <1>1 DEF Formed, CallFormed
<1>11. CASE \/ LookForStream(p) \/ LookForTarget(p) \/ Unpoint(p) \/ PickArchive(p)
            \/ MakeArchive(p) \/ Discard(p) \/ RemoveStream(p) \/ DropWorkstreams(p)
            \/ MakeStream(p) \/ WriteNewState(p) \/ Point(p) \/ AllUndone(p)
            \/ (StateFails(p) /\ At(p, "write new state"))
  <2>1. (StateFails(p) /\ At(p, "write new state")) => Stop(p)
    BY DEF StateFails, At
  <2> QED
    BY <1>7, <1>11, <2>1 DEF LookForStream, LookForTarget, Unpoint, PickArchive, MakeArchive,
           Discard, RemoveStream, DropWorkstreams, MakeStream, WriteNewState, Point, AllUndone
<1>12. CASE LookForMode(p) \/ LookForWork(p)
  <2>1. Go(p) \/ GoTo(p, "make stream")
    BY <1>12 DEF LookForMode, LookForWork
  <2>2. Now(p) \in {"look for mode", "look for work"}
    BY <1>12, AtNow DEF LookForMode, LookForWork
  <2>3. c = "create"
    BY <1>1, <2>2, Takers DEF Laying
  <2> QED
    BY <1>7, <1>8, <1>9, <2>1, <2>3
<1>13. CASE MakeTarget(p) \/ ListEntries(p)
  <2>1. \/ GoWith(p, "todo", WorkFiles) \/ GoTo(p, "discard")
        \/ /\ GoWith(p, "todo", LockFile(Source(p)) \o SetToSeq(DOMAIN tree[Source(p)]))
           /\ Exists(Source(p))
    BY <1>13 DEF MakeTarget, ListEntries
  <2>2. GoTo(p, "discard") => c = "finish" \/ MakeTarget(p)
    <3>1. ListEntries(p) => Now(p) = "list entries"
      BY AtNow DEF ListEntries
    <3> QED
      BY <1>1, <1>13, <3>1, Takers DEF Laying
  <2>3. ASSUME NEW v, GoWith(p, "todo", v), v \in Seq(ToSet(v)) PROVE ListsFit(p)'
    BY <1>1, <1>3, <1>5, <1>6, <2>3, StillPreparing
  <2>4. WorkFiles \in Seq(ToSet(WorkFiles))
    BY FilesOfWork
  <2>5. ASSUME Exists(Source(p)), NEW L,
               L = LockFile(Source(p)) \o SetToSeq(DOMAIN tree[Source(p)])
        PROVE  L \in Seq(ToSet(L))
    <3>1. IsFiniteSet(DOMAIN tree[Source(p)])
      BY <2>5 DEF TreeFits, Exists
    <3> QED
      BY <2>5, <3>1, EntriesListed
  <2>6. MakeTarget(p) => GoWith(p, "todo", WorkFiles)
    BY DEF MakeTarget
  <2> QED
    BY <1>8, <1>9, <2>1, <2>2, <2>3, <2>4, <2>5, <2>6
<1>14. CASE Look(p)
  <2>1. Now(p) = "look"
    BY <1>14, AtNow DEF Look
  <2>2. c = "create"
    BY <1>1, <2>1, Takers DEF Laying
  <2>3. CASE run' = [run EXCEPT ![p].todo = Tail(@)] /\ run[p].todo # <<>>
    <3>1. /\ run'[p].todo = Tail(run[p].todo) /\ run'[p].moved = run[p].moved
          /\ run'[p].at = run[p].at
      BY <1>10, <2>3, FieldsAre
    <3>2. Tail(run[p].todo) \in Seq(ToSet(Tail(run[p].todo)))
      BY <1>2, <2>3, SeqMembers
    <3> QED
      BY <1>3, <1>5, <3>1, <3>2
  <2> QED
    BY <1>7, <1>8, <1>9, <1>14, <2>2, <2>3 DEF Look
<1>15. CASE Moved(p)
  <2>1. Now(p) = "move" /\ run[p].todo # <<>>
    BY <1>15, AtNow DEF Moved
  <2>2. /\ run'[p].todo = Tail(run[p].todo)
        /\ run'[p].moved = Append(run[p].moved, Todo(p))
        /\ run'[p].at = IF Is(p, {"create"}) THEN run[p].at - 1 ELSE run[p].at
    BY <1>10, <1>15, FieldsAre DEF Moved
  <2>3. /\ Tail(run[p].todo) \in Seq(ToSet(Tail(run[p].todo)))
        /\ Append(run[p].moved, Todo(p)) \in Seq(ToSet(Append(run[p].moved, Todo(p))))
    BY <1>2, <2>1, SeqMembers
  <2>4. Now(p)' \in {"look", "move"}
    BY <1>1, <1>3, <2>1, <2>2
  <2> QED
    BY <1>4, <2>2, <2>3, <2>4 DEF Preparing
<1>16. CASE MoveFails(p) \/ AllMoved(p)
  <2>1. Now(p) = "move" /\ (GoTo(p, "undo")
          \/ (GoTo(p, "remove stream") /\ run[p].todo = <<>>))
    BY <1>16, AtNow DEF MoveFails, AllMoved
  <2>2. CASE GoTo(p, "undo")
    BY <1>1, <1>8, <1>9, <2>2
  <2>3. CASE GoTo(p, "remove stream") /\ run[p].todo = <<>>
    <3>1. Mode(p) # "looked"
      BY <1>1, <2>3 DEF LockInv, LooksFirst, Laying, Running
    <3>2. Leads(c, Mode(p), Now(p), Modes(c)[run[p].at + 1])
      BY <1>1, StepLeads DEF Now, Laying
    <3>3. c = "finish"
      BY <1>1, <2>1, <3>1, <3>2 DEF Leads, Loose
    <3> QED
      BY <1>8, <1>9, <2>3, <3>3
  <2> QED
    BY <2>1, <2>2, <2>3
<1>17. CASE Undo(p)
  <2>1. Now(p) = "undo" /\ run' = [run EXCEPT ![p].moved = Tail(@)] /\ run[p].moved # <<>>
    BY <1>17, AtNow DEF Undo
  <2>2. /\ run'[p].moved = Tail(run[p].moved) /\ run'[p].todo = run[p].todo
        /\ run'[p].at = run[p].at
    BY <1>10, <2>1, FieldsAre
  <2>3. Tail(run[p].moved) \in Seq(ToSet(Tail(run[p].moved)))
    BY <1>2, <2>1, SeqMembers
  <2>4. Now(p)' \notin Preparing
    BY <1>3, <2>1, <2>2 DEF Preparing
  <2> QED
    BY <1>2, <1>4, <2>2, <2>3, <2>4
<1>18. CASE LookForState(p)
  <2>1. Now(p) = "look for state" /\ (Go(p) \/ Skip(p))
    BY <1>18, AtNow DEF LookForState
  <2>2. CASE Skip(p)
    <3>1. Moving(p)' => Now(p)' = "point"
      BY <1>3, <1>6, <2>1, <2>2 DEF StepAfter
    <3> QED
      BY <1>5, <1>6, <2>2, <3>1 DEF Preparing
  <2> QED
    BY <1>7, <2>1, <2>2
<1> QED
  BY <1>1, <1>11, <1>12, <1>13, <1>14, <1>15, <1>16, <1>17, <1>18, StepsOfMovers

-----------------------------------------------------------------------------
(***************************************************************************)
(* A step of a call that moves work.                                       *)
(***************************************************************************)
\* All work stays where it is, or that in s and t stays in one or the other;
\* in the end it is in one of them.
Kept       == \A c \in Saved' : \A d : Lies(c, d) => Lies(c, d)'
Borne(s, t) ==
  \A c \in Saved' : /\ \A d : d \notin {s, t} /\ Lies(c, d) => Lies(c, d)'
                    /\ Lies(c, s) \/ Lies(c, t) => Lies(c, s)' \/ Lies(c, t)'
Settled(s, t) ==
  \E d \in {s, t} : \A c \in Saved' : Lies(c, s) \/ Lies(c, t) => Lies(c, d)'

\* The call goes on moving between the same directories.
StaysMoving(p) ==
  /\ Moving(p)' /\ Now(p)' \in Carrying
  /\ Source(p)' = Source(p) /\ Target(p)' = Target(p)
WorkGoesOn(p) ==
  /\ Kept \/ (StaysMoving(p) /\ Borne(Source(p), Target(p)))
  /\ Now(p) \in Carrying => StaysMoving(p) \/ (Kept /\ Settled(Source(p), Target(p)))

(* What fits before the step it goes to.                                   *)
LEMMA FitsAnew ==
  ASSUME NEW p, NEW x, NEW s, NEW t, NEW todo, NEW moved, NEW into, NEW mine,
         Source(p)' = s, Target(p)' = t, run'[p].todo = todo, run'[p].moved = moved,
         Cmd(p)'.into = into, Mine(p)' = mine,
         Moving(p)' => Now(p)' = x /\ Placed(x, s, t, todo, moved, into, mine)'
  PROVE  MoverFits(p)'
BY DEF MoverFits

\* The steps before which nothing need be placed.
Untouched == {"look for stream", "look for mode", "unpoint", "pick archive", "make stream",
               "look for state", "point", "remove stream", "drop workstreams"}

(* What a call that moves work has, and where its moves take it.           *)
LEMMA MoverMoves ==
  ASSUME LockInv, SettingsInv, WorkInv, MovesApart, NEW p \in Procs, Moving(p), SpaceStep(p)
  PROVE  LET c == Cmd(p).name IN
         /\ Saved' \subseteq Saved /\ Cmd(p).into \in Streams \cup {Nothing}
         /\ Placed(Now(p), Source(p), Target(p), run[p].todo, run[p].moved, Cmd(p).into, Mine(p))
         /\ run[p].todo \in Seq(ToSet(run[p].todo)) /\ run[p].moved \in Seq(ToSet(run[p].moved))
         /\ Now(p) \in Preparing => run[p].moved = <<>>
         /\ Go(p) => /\ run'[p].todo = run[p].todo /\ run'[p].moved = run[p].moved
                     /\ Target(p)' = Target(p)
                     /\ Moving(p)' => Now(p)' = StepAfter(c, Now(p))
                     /\ Now(p) \notin {"point", "drop workstreams"} => Moving(p)'
         /\ Stop(p) => ~Moving(p)'
         /\ Skip(p) /\ Moving(p)' => Now(p)' = StepAfter(c, StepAfter(c, Now(p)))
         /\ \A x : GoTo(p, x) /\ Occurs(c, x) =>
              /\ run'[p].todo = run[p].todo /\ run'[p].moved = run[p].moved
              /\ Target(p)' = Target(p) /\ Moving(p)' /\ Now(p)' = x
         /\ \A v : GoWith(p, "was", v) \/ GoWith(p, "num", v) =>
              /\ run'[p].todo = run[p].todo /\ run'[p].moved = run[p].moved
              /\ Moving(p)' => Now(p)' = StepAfter(c, Now(p))
         /\ \A v : GoWith(p, "num", v) => run'[p].num = v
         /\ \A v : GoWith(p, "todo", v) =>
              /\ run'[p].todo = v /\ run'[p].moved = run[p].moved
              /\ Target(p)' = Target(p)
              /\ Moving(p)' => Now(p)' = StepAfter(c, Now(p))
<1> DEFINE c == Cmd(p).name
<1>1. /\ Formed /\ Same(p) /\ Laying(p) /\ Cmd(p) # Nothing /\ c \in {"create", "finish"}
      /\ run'[p].num = run[p].num \/ c = "create" => Target(p)' = Target(p)
  BY MoverPlaces
<1>2. Saved' \subseteq Saved
  BY StepsKeepWork
<1>3. /\ run[p].todo \in Seq(ToSet(run[p].todo)) /\ run[p].moved \in Seq(ToSet(run[p].moved))
      /\ Now(p) \in Preparing => run[p].moved = <<>>
  BY <1>1 DEF WorkInv, ListsFit, Moving
<1>4. Placed(Now(p), Source(p), Target(p), run[p].todo, run[p].moved, Cmd(p).into, Mine(p))
  BY DEF WorkInv, MoverFits
<1>5. Cmd(p).into \in Streams \cup {Nothing}
  BY <1>1 DEF SettingsInv, CallFine, Laying
<1>6. /\ run'[p].at = run[p].at + 1 /\ Moving(p)' => Now(p)' = StepAfter(c, Now(p))
      /\ run'[p].at = run[p].at + 1 /\ Now(p) \notin {"point", "drop workstreams"} =>
              Moving(p)'
      /\ run'[p].at = run[p].at + 2 /\ Moving(p)' => Now(p)' = StepAfter(c, StepAfter(c, Now(p)))
      /\ \A x : Occurs(c, x) /\ run'[p].at = StepNo(p, x) => Moving(p)' /\ Now(p)' = x
      /\ run'[p].at = Len(Steps(p)) + 1 => ~Moving(p)'
  BY <1>1, WhereMoving DEF Same
<1>7. /\ Go(p) => /\ run'[p].todo = run[p].todo /\ run'[p].moved = run[p].moved
                  /\ run'[p].at = run[p].at + 1
      /\ Stop(p) => run'[p].at = Len(Steps(p)) + 1
      /\ Skip(p) => run'[p].at = run[p].at + 2
      /\ \A x : GoTo(p, x) => /\ run'[p].todo = run[p].todo /\ run'[p].moved = run[p].moved
                              /\ run'[p].at = StepNo(p, x)
      /\ \A v : GoWith(p, "was", v) \/ GoWith(p, "num", v) =>
           /\ run'[p].todo = run[p].todo /\ run'[p].moved = run[p].moved
           /\ run'[p].at = run[p].at + 1
      /\ \A v : GoWith(p, "todo", v) =>
           /\ run'[p].todo = v /\ run'[p].moved = run[p].moved
           /\ run'[p].at = run[p].at + 1
  BY <1>1, HandsStay
<1>8. /\ Go(p) => run'[p].num = run[p].num
      /\ \A x : GoTo(p, x) => run'[p].num = run[p].num
      /\ \A v : GoWith(p, "todo", v) => run'[p].num = run[p].num
      /\ \A v : GoWith(p, "num", v) => run'[p].num = v
  BY <1>1, NumberStays
<1> QED
  BY <1>1, <1>2, <1>3, <1>4, <1>5, <1>6, <1>7, <1>8

(* What stays work stays where it is, and what is written anew is none.    *)
LEMMA KeptWork ==
  /\ WorkLike => Kept
  /\ WorkSame /\ Saved' \subseteq Saved => Kept
  /\ tree' = tree /\ Saved' \subseteq Saved => Kept
  /\ \A D : tree' = WithDirs(D) /\ Saved' \subseteq Saved => Kept
<1>1. WorkLike => Kept
  BY LikeLies DEF Kept
<1> QED
  BY <1>1, SameWork

(* What says whose it is not is no work.                                 *)
LEMMA NewIsNoWork ==
  ASSUME TreeFits
  PROVE  NewWork \notin Saved
<1>1. DOMAIN NewWork = {"text"}
  BY DEF NewWork
<1> QED
  BY <1>1 DEF TreeFits, Saved

(* A step before or after anything is moved that keeps all work.           *)
LEMMA MoverAround ==
  ASSUME LockInv, SettingsInv, WorkInv, MovesApart, NEW p \in Procs, Moving(p), SpaceStep(p),
         Now(p) \notin Carrying, Kept,
         NEW x, NEW t, Target(p)' = t, NEW todo, run'[p].todo = todo,
         NEW moved, run'[p].moved = moved, Moving(p)' => Now(p)' = x,
         Moving(p)' => \A s, into, mine : s = Source(p) /\ into = Cmd(p).into /\ mine = Mine(p)
                         => Placed(x, s, t, todo, moved, into, mine)'
  PROVE  MoverFits(p)' /\ WorkGoesOn(p)
<1>1. Cmd(p)' = Cmd(p) /\ Mine(p)' = Mine(p) /\ Source(p)' = Source(p)
  BY MoverPlaces
<1>2. PICK s, into, mine : s = Source(p) /\ into = Cmd(p).into /\ mine = Mine(p)
  OBVIOUS
<1>3. Moving(p)' => Placed(x, s, t, todo, moved, into, mine)'
  BY <1>2
<1>4. MoverFits(p)'
  BY <1>1, <1>2, <1>3, FitsAnew
<1> QED
  BY <1>4 DEF WorkGoesOn

(* A step that leads where nothing need be placed.                       *)
LEMMA MoverUntouched ==
  ASSUME NEW p \in Procs, Now(p) \notin Carrying, Kept, Moving(p)' => Now(p)' \in Untouched
  PROVE  MoverFits(p)' /\ WorkGoesOn(p)
<1>1. MoverFits(p)'
  BY DEF MoverFits, Placed, Carrying, Untouched
<1> QED
  BY <1>1 DEF WorkGoesOn

(* The steps that look, and those that make or remove a directory.         *)
LEMMA MoverLooks ==
  ASSUME LockInv, SettingsInv, WorkInv, MovesApart, NEW p \in Procs, Moving(p), SpaceStep(p),
         \/ LookForStream(p) \/ Unpoint(p) \/ Point(p) \/ RemoveStream(p)
         \/ DropWorkstreams(p) \/ MakeStream(p)
  PROVE  MoverFits(p)' /\ WorkGoesOn(p)
<1> DEFINE c == Cmd(p).name
<1>1. /\ c \in {"create", "finish"} /\ Workstreams # Mine(p)
      /\ \A N : Is(p, N) <=> Cmd(p).name \in N
  BY MoverPlaces
<1>2. /\ Saved' \subseteq Saved
      /\ Go(p) => (Moving(p)' => Now(p)' = StepAfter(c, Now(p)))
      /\ Stop(p) => ~Moving(p)'
      /\ \A v : GoWith(p, "was", v) => (Moving(p)' => Now(p)' = StepAfter(c, Now(p)))
  BY MoverMoves
<1>3. TreeFits
  BY DEF WorkInv
<1>4. /\ LookForStream(p) => Now(p) = "look for stream"
      /\ Unpoint(p) => Now(p) = "unpoint"
      /\ Point(p) => Now(p) = "point" /\ Stop(p)
      /\ RemoveStream(p) => Now(p) = "remove stream"
      /\ DropWorkstreams(p) => Now(p) = "drop workstreams" /\ Stop(p)
      /\ MakeStream(p) => Now(p) = "make stream"
  BY AtNow DEF LookForStream, Unpoint, Point, RemoveStream, DropWorkstreams, MakeStream
<1>5. Go(p) \/ Stop(p) \/ \E v : GoWith(p, "was", v)
  BY DEF LookForStream, Unpoint, Point, RemoveStream, DropWorkstreams, MakeStream
<1>6. Now(p) = "drop workstreams" => Stop(p)
  BY <1>4
<1>7. Now(p) = "point" => Stop(p)
  BY <1>4
<1>8. Moving(p)' => Now(p)' = StepAfter(c, Now(p))
  BY <1>2, <1>5
<1>9. Now(p) \notin {"point", "drop workstreams"} => StepAfter(c, Now(p)) \in Untouched
  BY <1>1, <1>4 DEF StepAfter, Untouched
<1>10. Moving(p)' => Now(p)' \in Untouched
  BY <1>2, <1>6, <1>7, <1>8, <1>9
<1>11. Now(p) \notin Carrying
  BY <1>4 DEF Carrying
<1>12. Kept
  <2>1. CASE LookForStream(p) \/ Unpoint(p) \/ Point(p)
    <3>1. tree' = tree
      BY <2>1 DEF LookForStream, Unpoint, Point, Idle, space
    <3> QED
      BY <1>2, <3>1, KeptWork
  <2>2. CASE RemoveStream(p)
    <3>1. \/ tree' = tree
          \/ Exists(Mine(p)) /\ DOMAIN tree[Mine(p)] = {} /\ tree' = Drop(tree, {Mine(p)})
      BY <2>2 DEF RemoveStream
    <3>2. DOMAIN tree[Mine(p)] = {} => NoWork(Mine(p))
      BY DEF NoWork, HasWork, Has
    <3> QED
      BY <1>2, <3>1, <3>2, KeptWork, DroppedWork
  <2>3. CASE DropWorkstreams(p)
    <3>1. tree' = tree \/ tree' = Drop(tree, {Workstreams})
      BY <2>3 DEF DropWorkstreams
    <3>2. NoWork(Workstreams)
      BY <1>3 DEF TreeFits, NoWork, HasWork, Has
    <3> QED
      BY <1>2, <3>1, <3>2, KeptWork, DroppedWork
  <2>4. CASE MakeStream(p)
    <3> DEFINE made == WithDirs({Workstreams, Mine(p)})
    <3>1. tree' = IF Has(Mine(p), "phases") THEN made
                  ELSE [made EXCEPT ![Mine(p)] = Put(@, "phases", NewWork)]
      BY <2>4 DEF MakeStream
    <3>2. CASE tree' = made
      BY <1>2, <3>2, KeptWork
    <3>3. CASE /\ tree' = [made EXCEPT ![Mine(p)] = Put(@, "phases", NewWork)]
               /\ ~Has(Mine(p), "phases")
      <4>1. \A d, f : Has(d, f) => Has(d, f)' /\ tree'[d][f] = tree[d][f]
        BY <3>3 DEF WithDirs, Has, Exists, Put
      <4> QED
        BY <4>1 DEF Kept, Lies
    <3> QED
      BY <3>1, <3>2, <3>3
  <2> QED
    BY <2>1, <2>2, <2>3, <2>4
<1> QED
  BY <1>10, <1>11, <1>12, MoverUntouched

(* Those of create before it moves anything.                               *)
LEMMA CreateLooks ==
  ASSUME LockInv, SettingsInv, WorkInv, MovesApart, NEW p \in Procs, Moving(p), SpaceStep(p),
         LookForMode(p) \/ LookForWork(p) \/ LookForTarget(p)
  PROVE  MoverFits(p)' /\ WorkGoesOn(p)
<1> DEFINE c == Cmd(p).name
<1>1. /\ c \in {"create", "finish"} /\ Laying(p) /\ Cmd(p)' = Cmd(p)
      /\ c = "create" => Target(p) = Workstream(Cmd(p).into)
  BY MoverPlaces
<1>2. /\ Saved' \subseteq Saved /\ Cmd(p).into \in Streams \cup {Nothing}
      /\ Placed(Now(p), Source(p), Target(p), run[p].todo, run[p].moved, Cmd(p).into, Mine(p))
      /\ Go(p) => /\ run'[p].todo = run[p].todo /\ run'[p].moved = run[p].moved
                  /\ Target(p)' = Target(p)
                  /\ Moving(p)' => Now(p)' = StepAfter(c, Now(p))
      /\ Stop(p) => ~Moving(p)'
      /\ \A x : GoTo(p, x) /\ Occurs(c, x) => Moving(p)' /\ Now(p)' = x
  BY MoverMoves
<1>3. Now(p) \in {"look for mode", "look for work", "look for target"}
  BY AtNow DEF LookForMode, LookForWork, LookForTarget
<1>4. c = "create" /\ Now(p) \notin Carrying
  <2>1. Leads(c, Mode(p), Now(p), Modes(c)[run[p].at + 1])
    BY <1>1, MoverPlaces, StepLeads DEF Now, Laying
  <2> QED
    BY <1>1, <1>3, <2>1 DEF Leads, Loose, Carrying
<1>5. Occurs("create", "make stream")
  BY Targets
<1>6. ASSUME GoTo(p, "make stream"), Kept PROVE MoverFits(p)' /\ WorkGoesOn(p)
  BY <1>2, <1>4, <1>5, <1>6, MoverUntouched DEF Untouched
<1>7. Kept
  <2>1. tree' = tree \/ tree' = WithDirs({Workstreams})
    BY DEF LookForMode, LookForWork, LookForTarget, Idle, space
  <2> QED
    BY <1>2, <2>1, KeptWork
<1>8. ASSUME Go(p), NEW x, StepAfter(c, Now(p)) = x,
             x \in {"look for work", "look for target"} => Cmd(p).into \in Streams,
             x \in {"look for work", "look for target", "make target"},
             x = "make target" => NoWork(Target(p)), tree' = tree
      PROVE  MoverFits(p)' /\ WorkGoesOn(p)
  <2>1. PICK t, todo, moved : t = Target(p) /\ todo = run[p].todo /\ moved = run[p].moved
    OBVIOUS
  <2>2. ASSUME NEW s, NEW into, NEW mine, s = Source(p), into = Cmd(p).into, mine = Mine(p)
        PROVE  Placed(x, s, t, todo, moved, into, mine)'
    <3>1. NoWork(t) => NoWork(t)'
      BY <1>2, <1>8, SameWork, SamePlaces
    <3> QED
      BY <1>8, <2>1, <2>2, <3>1 DEF Placed, Carrying
  <2>3. /\ Target(p)' = t /\ run'[p].todo = todo /\ run'[p].moved = moved
        /\ Moving(p)' => Now(p)' = x
    BY <1>2, <1>8, <2>1
  <2> QED
    BY <1>4, <1>7, <2>2, <2>3, MoverAround
<1>9. CASE LookForMode(p)
  <2>1. Now(p) = "look for mode" /\ tree' = tree
        /\ (GoTo(p, "make stream") \/ (Go(p) /\ Cmd(p).into # Nothing))
    BY <1>9, AtNow DEF LookForMode, Idle, space
  <2>2. StepAfter(c, Now(p)) = "look for work"
    BY <2>1 DEF StepAfter
  <2>3. CASE GoTo(p, "make stream")
    BY <1>6, <1>7, <2>3
  <2>4. CASE Go(p) /\ Cmd(p).into # Nothing
    BY <1>2, <1>8, <2>1, <2>2, <2>4
  <2> QED
    BY <2>1, <2>3, <2>4
<1>10. CASE LookForWork(p)
  <2>1. Now(p) = "look for work" /\ (GoTo(p, "make stream") \/ (Go(p) /\ tree' = tree))
    BY <1>10, AtNow DEF LookForWork
  <2>2. StepAfter(c, Now(p)) = "look for target"
    BY <2>1 DEF StepAfter
  <2>3. Cmd(p).into \in Streams
    BY <1>2, <2>1 DEF Placed
  <2>4. CASE GoTo(p, "make stream")
    BY <1>6, <1>7, <2>4
  <2>5. CASE Go(p) /\ tree' = tree
    BY <1>8, <2>2, <2>3, <2>5
  <2> QED
    BY <2>1, <2>4, <2>5
<1>11. CASE LookForTarget(p)
  <2>1. Now(p) = "look for target" /\ tree' = tree
        /\ (Stop(p) \/ (Go(p) /\ ~Exists(Workstreams)))
    BY <1>11, AtNow DEF LookForTarget, Idle, space
  <2>2. StepAfter(c, Now(p)) = "make target"
    BY <2>1 DEF StepAfter
  <2>3. Cmd(p).into \in Streams
    BY <1>2, <2>1 DEF Placed
  <2>4. CASE Stop(p)
    BY <1>2, <1>4, <1>7, <2>4, MoverUntouched
  <2>5. CASE Go(p) /\ ~Exists(Workstreams)
    <3>1. ~Exists(Target(p))
      BY <1>1, <1>4, <2>3, <2>5 DEF SettingsInv, StreamsInside
    <3>2. NoWork(Target(p))
      BY <3>1 DEF NoWork, HasWork, Has
    <3> QED
      BY <1>8, <2>1, <2>2, <2>5, <3>2
  <2> QED
    BY <2>1, <2>4, <2>5
<1> QED
  BY <1>9, <1>10, <1>11

(* Those that make the directory files go to, and list them.               *)
LEMMA MoverPrepares ==
  ASSUME LockInv, SettingsInv, WorkInv, MovesApart, NEW p \in Procs, Moving(p), SpaceStep(p),
         MakeTarget(p) \/ PickArchive(p) \/ MakeArchive(p) \/ ListEntries(p)
  PROVE  MoverFits(p)' /\ WorkGoesOn(p)
<1> DEFINE c == Cmd(p).name
<1> PICK S, T : S = Source(p) /\ T = Target(p)
  OBVIOUS
<1>1. /\ c \in {"create", "finish"} /\ Laying(p)
      /\ c = "finish" => Target(p)' = ArchiveOf(Cmd(p).stream, run'[p].num)
  BY MoverPlaces
<1>2. /\ Saved' \subseteq Saved
      /\ Placed(Now(p), Source(p), Target(p), run[p].todo, run[p].moved, Cmd(p).into, Mine(p))
      /\ Now(p) \in Preparing => run[p].moved = <<>>
      /\ Go(p) => /\ run'[p].todo = run[p].todo /\ run'[p].moved = run[p].moved
                  /\ Target(p)' = Target(p)
                  /\ Moving(p)' => Now(p)' = StepAfter(c, Now(p))
      /\ \A x : GoTo(p, x) /\ Occurs(c, x) =>
           /\ run'[p].todo = run[p].todo /\ run'[p].moved = run[p].moved
           /\ Target(p)' = Target(p) /\ Moving(p)' /\ Now(p)' = x
      /\ \A v : GoWith(p, "num", v) =>
           /\ run'[p].todo = run[p].todo /\ run'[p].moved = run[p].moved
           /\ Moving(p)' => Now(p)' = StepAfter(c, Now(p))
      /\ \A v : GoWith(p, "num", v) => run'[p].num = v
      /\ \A v : GoWith(p, "todo", v) =>
           /\ run'[p].todo = v /\ run'[p].moved = run[p].moved
           /\ Target(p)' = Target(p)
           /\ Moving(p)' => Now(p)' = StepAfter(c, Now(p))
  BY MoverMoves
<1>3. TreeFits
  BY DEF WorkInv
<1>4. /\ MakeTarget(p) => Now(p) = "make target"
      /\ PickArchive(p) => Now(p) = "pick archive"
      /\ MakeArchive(p) => Now(p) = "make archive"
      /\ ListEntries(p) => Now(p) = "list entries"
  BY AtNow DEF MakeTarget, PickArchive, MakeArchive, ListEntries
<1>5. Now(p) \in {"make target", "pick archive", "make archive", "list entries"}
      /\ Now(p) \notin Carrying /\ Now(p) \in Preparing
  BY <1>4 DEF Carrying, Preparing
<1>6. Leads(c, Mode(p), Now(p), Modes(c)[run[p].at + 1])
  BY <1>1, MoverPlaces, StepLeads DEF Now, Laying
<1>7. /\ Now(p) = "make target" => c = "create"
      /\ Now(p) \in {"pick archive", "make archive", "list entries"} => c = "finish"
  BY <1>1, <1>6 DEF Leads, Loose
<1>8. WorkSame /\ Kept
  <2>1. tree' = tree \/ \E D : tree' = WithDirs(D)
    BY DEF MakeTarget, PickArchive, MakeArchive, ListEntries, Idle, space
  <2> QED
    BY <1>2, <2>1, SameWork, KeptWork
<1>9. run[p].moved = <<>> /\ ToSet(run[p].moved) = {}
  <2>1. ToSet(<<>>) = {}
    BY DEF ToSet
  <2> QED
    BY <1>2, <1>5, <2>1
<1>10. ASSUME NEW t, NoWork(t)
       PROVE  NoWork(t)' /\ AwayFrom(S, t, <<>>)'
  <2>1. NoWork(t)'
    BY <1>2, <1>8, <1>10, SamePlaces
  <2>2. ToSet(<<>>) = {}
    BY DEF ToSet
  <2> QED
    BY <2>1, <2>2 DEF AwayFrom, NoWork
<1>11. ASSUME NEW t, Target(p)' = t, NEW todo, run'[p].todo = todo, run'[p].moved = <<>>,
              NEW x, Moving(p)' => Now(p)' = x, NoWork(t),
              x \in {"make archive", "list entries", "discard", "look", "move"},
              x \in {"look", "move"} => LeftIn(S, todo)
       PROVE  MoverFits(p)' /\ WorkGoesOn(p)
  <2>1. LeftIn(S, todo) => LeftIn(S, todo)'
    BY <1>2, <1>8, SamePlaces
  <2>2. PICK moved : moved = <<>>
    OBVIOUS
  <2>3. AwayFrom(S, t, moved)' /\ NoWork(t)'
    BY <1>10, <1>11, <2>2
  <2>4. ASSUME NEW s, NEW into, NEW mine, s = Source(p), into = Cmd(p).into, mine = Mine(p)
        PROVE  Placed(x, s, t, todo, moved, into, mine)'
    BY <1>11, <2>1, <2>3, <2>4 DEF Placed
  <2> QED
    BY <1>5, <1>8, <1>11, <2>2, <2>4, MoverAround
<1>12. CASE MakeTarget(p)
  <2>1. GoWith(p, "todo", WorkFiles) /\ Now(p) = "make target"
    BY <1>4, <1>12 DEF MakeTarget
  <2>2. StepAfter(c, Now(p)) = "look"
    BY <2>1 DEF StepAfter
  <2>3. NoWork(T)
    BY <1>2, <2>1 DEF Placed
  <2>4. PICK todo : todo = WorkFiles
    OBVIOUS
  <2>5. LeftIn(S, todo)
    BY <2>4, FilesOfWork DEF LeftIn
  <2>6. /\ Target(p)' = T /\ run'[p].todo = todo /\ run'[p].moved = <<>>
        /\ Moving(p)' => Now(p)' = "look"
    BY <1>2, <1>9, <2>1, <2>2, <2>4
  <2> QED
    BY <1>11, <2>3, <2>5, <2>6
<1>13. CASE PickArchive(p)
  <2>1. PICK n : /\ n = CHOOSE i \in 0 .. Cardinality(DOMAIN tree) :
                        /\ ~Exists(ArchiveOf(Cmd(p).stream, i))
                        /\ \A m \in 0 .. i - 1 : Exists(ArchiveOf(Cmd(p).stream, m))
                 /\ GoWith(p, "num", n) /\ Now(p) = "pick archive"
    BY <1>4, <1>13 DEF PickArchive
  <2>2. ~Exists(ArchiveOf(Cmd(p).stream, n))
    BY <1>3, <2>1, FreeArchive DEF TreeFits
  <2>3. PICK t : t = ArchiveOf(Cmd(p).stream, n)
    OBVIOUS
  <2>4. NoWork(t)
    BY <2>2, <2>3 DEF NoWork, HasWork, Has
  <2>5. StepAfter(c, Now(p)) = "make archive"
    BY <2>1 DEF StepAfter
  <2>6. Target(p)' = t
    BY <1>1, <1>2, <1>7, <2>1, <2>3
  <2>7. PICK todo : todo = run[p].todo
    OBVIOUS
  <2>8. /\ run'[p].todo = todo /\ run'[p].moved = <<>>
        /\ Moving(p)' => Now(p)' = "make archive"
    BY <1>2, <1>9, <2>1, <2>5, <2>7
  <2>9. PICK x : x = "make archive"
    OBVIOUS
  <2>10. /\ Moving(p)' => Now(p)' = x
         /\ x \in {"make archive", "list entries", "discard", "look", "move"}
         /\ x \notin {"look", "move"} /\ run'[p].todo = todo /\ run'[p].moved = <<>>
    BY <2>8, <2>9
  <2> QED
    BY <1>11, <2>4, <2>6, <2>10
<1>14. CASE MakeArchive(p)
  <2>1. Go(p) /\ Now(p) = "make archive"
    BY <1>4, <1>14 DEF MakeArchive
  <2>2. StepAfter(c, Now(p)) = "list entries"
    BY <2>1 DEF StepAfter
  <2>3. NoWork(T)
    BY <1>2, <2>1 DEF Placed
  <2>4. PICK todo : todo = run[p].todo
    OBVIOUS
  <2>5. /\ Target(p)' = T /\ run'[p].todo = todo /\ run'[p].moved = <<>>
        /\ Moving(p)' => Now(p)' = "list entries"
    BY <1>2, <1>9, <2>1, <2>2, <2>4
  <2> QED
    BY <1>11, <2>3, <2>5
<1>15. CASE ListEntries(p)
  <2>1. Now(p) = "list entries" /\ NoWork(T)
    BY <1>2, <1>4, <1>15 DEF Placed
  <2>2. CASE Exists(Source(p))
    <3>1. PICK todo : todo = LockFile(S) \o SetToSeq(DOMAIN tree[S])
      OBVIOUS
    <3>2. GoWith(p, "todo", todo)
      BY <1>15, <2>2, <3>1 DEF ListEntries
    <3>3. IsFiniteSet(DOMAIN tree[S])
      BY <1>3, <2>2 DEF TreeFits, Exists
    <3>5. ToSet(todo) = ToSet(LockFile(S)) \cup DOMAIN tree[S]
      BY <3>1, <3>3, EntriesListed
    <3>6. LeftIn(S, todo)
      BY <3>5 DEF LeftIn, HasWork, Has
    <3>7. StepAfter(c, Now(p)) = "move"
      BY <2>1 DEF StepAfter
    <3>8. /\ Target(p)' = T /\ run'[p].todo = todo /\ run'[p].moved = <<>>
          /\ Moving(p)' => Now(p)' = "move"
      BY <1>2, <1>9, <3>2, <3>7
    <3> QED
      BY <1>11, <2>1, <3>6, <3>8
  <2>3. CASE ~Exists(Source(p))
    <3>1. GoTo(p, "discard") /\ Occurs(c, "discard")
      BY <1>7, <1>15, <2>1, <2>3, Targets DEF ListEntries
    <3>2. PICK todo : todo = run[p].todo
      OBVIOUS
    <3>3. /\ Target(p)' = T /\ run'[p].todo = todo /\ run'[p].moved = <<>>
          /\ Moving(p)' => Now(p)' = "discard"
      BY <1>2, <1>9, <3>1, <3>2
    <3> QED
      BY <1>11, <2>1, <3>3
  <2> QED
    BY <2>2, <2>3
<1> QED
  BY <1>12, <1>13, <1>14, <1>15

(* The steps while work is moved: the call goes on with it,                *)
LEMMA MoverCarriesOn ==
  ASSUME LockInv, NEW p \in Procs, Moving(p), SpaceStep(p),
         NEW s, s = Source(p), NEW t, t = Target(p), Target(p)' = t, Moving(p)',
         NEW x \in Carrying, Now(p)' = x,
         NEW todo, run'[p].todo = todo, NEW moved, run'[p].moved = moved,
         AwayFrom(s, t, moved)', x \in {"look", "move"} => LeftIn(s, todo)',
         Kept \/ Borne(s, t)
  PROVE  MoverFits(p)' /\ WorkGoesOn(p)
<1>1. Cmd(p)' = Cmd(p) /\ Mine(p)' = Mine(p) /\ Source(p)' = s
  BY MoverPlaces
<1>2. PICK into, mine : into = Cmd(p).into /\ mine = Mine(p)
  OBVIOUS
<1>3. Placed(x, s, t, todo, moved, into, mine)'
  BY DEF Placed, Carrying
<1>4. MoverFits(p)'
  BY <1>1, <1>2, <1>3, FitsAnew
<1>5. StaysMoving(p)
  BY <1>1 DEF StaysMoving
<1> QED
  BY <1>4, <1>5 DEF WorkGoesOn

(* or leaves it where it is all together.                                  *)
LEMMA MoverSettles ==
  ASSUME NEW p \in Procs, Kept, Moving(p)' => Now(p)' \in Untouched,
         NEW d \in {Source(p), Target(p)},
         \A c \in Saved' : Lies(c, Source(p)) \/ Lies(c, Target(p)) => Lies(c, d)
  PROVE  MoverFits(p)' /\ WorkGoesOn(p)
<1>1. MoverFits(p)'
  BY DEF MoverFits, Placed, Carrying, Untouched
<1>2. Settled(Source(p), Target(p))
  BY DEF Settled, Kept
<1> QED
  BY <1>1, <1>2 DEF WorkGoesOn

(* Nothing is left to move: all of it lies at the target.                  *)
LEMMA NothingLeft ==
  ASSUME NEW s, LeftIn(s, <<>>)
  PROVE  \A c \in Saved : ~Lies(c, s)
BY DEF LeftIn, Lies, HasWork, ToSet

(* The steps that move one file after another,                           *)
LEMMA MoverMovesOn ==
  ASSUME LockInv, SettingsInv, WorkInv, MovesApart, NEW p \in Procs, Moving(p), SpaceStep(p),
         Look(p) \/ Moved(p)
  PROVE  MoverFits(p)' /\ WorkGoesOn(p)
<1> DEFINE c == Cmd(p).name
<1> PICK s, t : s = Source(p) /\ t = Target(p)
  OBVIOUS
<1>1. /\ c \in {"create", "finish"} /\ Laying(p) /\ Formed /\ Same(p) /\ s # t
      /\ \A N : Is(p, N) <=> Cmd(p).name \in N
      /\ run'[p].num = run[p].num \/ c = "create" => Target(p)' = Target(p)
  BY MoverPlaces
<1>2. /\ Saved' \subseteq Saved
      /\ Placed(Now(p), s, t, run[p].todo, run[p].moved, Cmd(p).into, Mine(p))
      /\ run[p].todo \in Seq(ToSet(run[p].todo)) /\ run[p].moved \in Seq(ToSet(run[p].moved))
      /\ Go(p) => /\ run'[p].todo = run[p].todo /\ run'[p].moved = run[p].moved
                  /\ Target(p)' = Target(p)
                  /\ Moving(p)' => Now(p)' = StepAfter(c, Now(p))
                  /\ Now(p) \notin {"point", "drop workstreams"} => Moving(p)'
      /\ \A x : GoTo(p, x) /\ Occurs(c, x) => Moving(p)' /\ Now(p)' = x
  BY MoverMoves
<1>3. /\ Look(p) => Now(p) = "look"
      /\ Moved(p) => Now(p) = "move"
  BY AtNow DEF Look, Moved
<1>4. DOMAIN run = Procs /\ DOMAIN run[p] = Fields
  BY <1>1 DEF Formed, CallFormed
<1>5. /\ run'[p].at = run[p].at => Moving(p)' /\ Now(p)' = Now(p)
      /\ run'[p].at = run[p].at - 1 /\ c = "create" /\ Now(p) = "move" =>
           Moving(p)' /\ Now(p)' = "look"
  BY <1>1, WhereMoving DEF Same
<1>6. AwayFrom(s, t, run[p].moved) /\ LeftIn(s, run[p].todo)
  BY <1>2, <1>3 DEF Placed, Carrying
<1> PICK todo, moved : todo = run[p].todo /\ moved = run[p].moved
  OBVIOUS
<1>7. CASE Look(p)
  <2>1. tree' = tree
    BY <1>7 DEF Look, Idle, space
  <2>2. Kept /\ AwayFrom(s, t, moved)' /\ LeftIn(s, todo)'
    BY <1>2, <1>6, <2>1, KeptWork, SameWork, SamePlaces
  <2>3. c = "create"
    <3>1. Leads(c, Mode(p), Now(p), Modes(c)[run[p].at + 1])
      BY <1>1, MoverPlaces, StepLeads DEF Now, Laying
    <3> QED
      BY <1>1, <1>3, <1>7, <3>1 DEF Leads, Loose
  <2>4. CASE todo = <<>>
    <3>1. GoTo(p, "make stream") /\ Occurs(c, "make stream")
      BY <1>7, <2>3, <2>4, Targets DEF Look
    <3>2. \A e \in Saved : ~Lies(e, s)
      BY <1>6, <2>4, NothingLeft
    <3>3. Now(p)' \in Untouched
      BY <1>2, <3>1 DEF Untouched
    <3> QED
      BY <1>2, <2>2, <3>2, <3>3, MoverSettles
  <2>5. CASE todo # <<>> /\ Has(s, Todo(p))
    <3>1. Go(p) /\ Now(p) = "look"
      BY <1>3, <1>7, <2>5 DEF Look
    <3>2. Moving(p)' /\ Now(p)' = "move" /\ run'[p].todo = todo /\ run'[p].moved = moved
          /\ Target(p)' = t
      BY <1>2, <3>1 DEF StepAfter
    <3>3. "move" \in Carrying
      BY DEF Carrying
    <3> QED
      BY <2>2, <3>2, <3>3, MoverCarriesOn
  <2>6. CASE todo # <<>> /\ ~Has(s, Todo(p))
    <3>1. run' = [run EXCEPT ![p].todo = Tail(@)]
      BY <1>7, <2>6 DEF Look
    <3>2. /\ run'[p].todo = Tail(todo) /\ run'[p].moved = moved
          /\ run'[p].at = run[p].at
      BY <1>4, <3>1, FieldsAre
    <3>3. Moving(p)' /\ Now(p)' = "look" /\ Target(p)' = t
      BY <1>1, <1>3, <1>5, <1>7, <2>3, <3>2
    <3>4. ToSet(todo) = {Head(todo)} \cup ToSet(Tail(todo))
      BY <1>2, <2>6, SeqMembers
    <3>5. LeftIn(s, Tail(todo))
      BY <1>6, <2>6, <3>4 DEF LeftIn, HasWork, Todo
    <3>6. LeftIn(s, Tail(todo))'
      BY <1>2, <2>1, <3>5, SameWork, SamePlaces
    <3>7. PICK rest : rest = Tail(todo)
      OBVIOUS
    <3>8. "look" \in Carrying /\ LeftIn(s, rest)' /\ run'[p].todo = rest
      BY <3>2, <3>6, <3>7 DEF Carrying
    <3> QED
      BY <2>2, <3>2, <3>3, <3>8, MoverCarriesOn
  <2> QED
    BY <2>4, <2>5, <2>6
<1>8. CASE Moved(p)
  <2>1. /\ todo # <<>> /\ CanRename(s, t, Head(todo)) /\ tree' = Renamed(s, t, Head(todo))
        /\ run' = [run EXCEPT ![p].todo = Tail(@), ![p].moved = Append(@, Todo(p)),
                              ![p].at = IF Is(p, {"create"}) THEN @ - 1 ELSE @]
    BY <1>8 DEF Moved, Todo
  <2>2. /\ run'[p].todo = Tail(todo) /\ run'[p].moved = Append(moved, Head(todo))
        /\ run'[p].at = IF Is(p, {"create"}) THEN run[p].at - 1 ELSE run[p].at
        /\ run'[p].num = run[p].num
    BY <1>4, <2>1, FieldsAre DEF Todo
  <2>3. /\ AwayFrom(s, t, Append(moved, Head(todo)))' /\ LeftIn(s, Tail(todo))'
        /\ Head(todo) # ".lock" => ~HasWork(t, Head(todo))
    BY <1>1, <1>2, <1>6, <2>1, MovedAway
  <2>4. Kept \/ Borne(s, t)
    <3>1. CASE Head(todo) = ".lock"
      <4>1. WorkSame
        BY <1>1, <2>1, <3>1, SameWork
      <4> QED
        BY <1>2, <4>1, KeptWork
    <3>2. CASE Head(todo) # ".lock"
      <4>1. PICK f : f = Head(todo)
        OBVIOUS
      <4>2. ASSUME NEW e \in Saved
            PROVE  /\ \A d : d \notin {s, t} /\ Lies(e, d) => Lies(e, d)'
                   /\ Lies(e, s) \/ Lies(e, t) => Lies(e, s)' \/ Lies(e, t)'
        BY <1>1, <2>1, <2>3, <3>2, <4>1, RenamedLies
      <4> QED
        BY <1>2, <4>2 DEF Borne
    <3> QED
      BY <3>1, <3>2
  <2>5. /\ Moving(p)' /\ Target(p)' = t
        /\ Now(p)' = IF c = "create" THEN "look" ELSE "move"
    BY <1>1, <1>3, <1>5, <1>8, <2>2
  <2>6. PICK rest, more, x : /\ rest = Tail(todo) /\ more = Append(moved, Head(todo))
                             /\ x = IF c = "create" THEN "look" ELSE "move"
    OBVIOUS
  <2>7. x \in Carrying
    BY <2>6 DEF Carrying
  <2>8. AwayFrom(s, t, more)' /\ LeftIn(s, rest)' /\ run'[p].todo = rest /\ run'[p].moved = more
    BY <2>2, <2>3, <2>6
  <2> QED
    BY <2>4, <2>5, <2>6, <2>7, <2>8, MoverCarriesOn
<1> QED
  BY <1>7, <1>8

(* and those that have moved all, or move it back.                       *)
LEMMA MoverStops ==
  ASSUME LockInv, SettingsInv, WorkInv, MovesApart, NEW p \in Procs, Moving(p), SpaceStep(p),
         MoveFails(p) \/ AllMoved(p) \/ Undo(p) \/ AllUndone(p)
  PROVE  MoverFits(p)' /\ WorkGoesOn(p)
<1> DEFINE c == Cmd(p).name
<1> PICK s, t : s = Source(p) /\ t = Target(p)
  OBVIOUS
<1>1. /\ c \in {"create", "finish"} /\ Laying(p) /\ Formed /\ Same(p) /\ s # t
      /\ Cmd(p)' = Cmd(p) /\ Mine(p)' = Mine(p) /\ Source(p)' = s
      /\ run'[p].num = run[p].num \/ c = "create" => Target(p)' = Target(p)
  BY MoverPlaces
<1>2. /\ Saved' \subseteq Saved
      /\ Placed(Now(p), s, t, run[p].todo, run[p].moved, Cmd(p).into, Mine(p))
      /\ run[p].moved \in Seq(ToSet(run[p].moved))
      /\ Go(p) => /\ run'[p].todo = run[p].todo /\ run'[p].moved = run[p].moved
                  /\ Target(p)' = Target(p)
                  /\ Moving(p)' => Now(p)' = StepAfter(c, Now(p))
      /\ \A x : GoTo(p, x) /\ Occurs(c, x) =>
           /\ run'[p].todo = run[p].todo /\ run'[p].moved = run[p].moved
           /\ Target(p)' = Target(p) /\ Moving(p)' /\ Now(p)' = x
  BY MoverMoves
<1>3. /\ MoveFails(p) => Now(p) = "move"
      /\ AllMoved(p) => Now(p) = "move"
      /\ Undo(p) => Now(p) = "undo"
      /\ AllUndone(p) => Now(p) = "undo"
  BY AtNow DEF MoveFails, AllMoved, Undo, AllUndone
<1>4. DOMAIN run = Procs /\ DOMAIN run[p] = Fields
  BY <1>1 DEF Formed, CallFormed
<1>5. run'[p].at = run[p].at => Moving(p)' /\ Now(p)' = Now(p)
  BY <1>1, WhereMoving DEF Same
<1> PICK todo, moved : todo = run[p].todo /\ moved = run[p].moved
  OBVIOUS
<1>6. AwayFrom(s, t, moved)
  BY <1>2, <1>3 DEF Placed, Carrying
<1>7. CASE MoveFails(p)
  <2>1. tree' = tree /\ GoTo(p, "undo") /\ Occurs(c, "undo")
    BY <1>1, <1>7, Targets DEF MoveFails, space
  <2>2. Kept /\ AwayFrom(s, t, moved)'
    BY <1>2, <1>6, <2>1, KeptWork, SameWork, SamePlaces
  <2>3. /\ Moving(p)' /\ Now(p)' = "undo" /\ Target(p)' = t
        /\ run'[p].todo = todo /\ run'[p].moved = moved
    BY <1>2, <2>1
  <2>4. "undo" \in Carrying /\ "undo" \notin {"look", "move"}
    BY DEF Carrying
  <2> QED
    BY <2>2, <2>3, <2>4, MoverCarriesOn
<1>8. CASE AllMoved(p)
  <2>1. /\ tree' = tree /\ GoTo(p, "remove stream") /\ todo = <<>> /\ Now(p) = "move"
    BY <1>3, <1>8 DEF AllMoved, Idle, space
  <2>2. Mode(p) # "looked"
    BY <1>1, <2>1 DEF LockInv, LooksFirst, Laying, Running
  <2>3. Leads(c, Mode(p), Now(p), Modes(c)[run[p].at + 1])
    BY <1>1, MoverPlaces, StepLeads DEF Now, Laying
  <2>4. c = "finish"
    BY <1>1, <2>1, <2>2, <2>3 DEF Leads, Loose
  <2>5. Occurs(c, "remove stream")
    BY <2>4, Targets
  <2>6. LeftIn(s, <<>>)
    BY <1>2, <2>1 DEF Placed
  <2>7. \A e \in Saved : ~Lies(e, s)
    BY <2>6, NothingLeft
  <2>8. Now(p)' \in Untouched /\ Kept
    BY <1>2, <2>1, <2>5, KeptWork DEF Untouched
  <2> QED
    BY <1>2, <2>7, <2>8, MoverSettles
<1>9. CASE AllUndone(p)
  <2>1. tree' = tree /\ Go(p) /\ Now(p) = "undo" /\ moved = <<>>
    BY <1>3, <1>9 DEF AllUndone, Idle, space
  <2>2. NoWork(t) /\ WorkSame /\ Kept
    <3>1. ToSet(<<>>) = {}
      BY DEF ToSet
    <3>2. NoWork(t)
      BY <1>6, <2>1, <3>1 DEF AwayFrom, NoWork, HasWork
    <3> QED
      BY <1>2, <2>1, <3>2, KeptWork, SameWork
  <2>3. \A e \in Saved : ~Lies(e, t)
    BY <2>2 DEF NoWork, HasWork, Lies
  <2>4. NoWork(t)'
    BY <1>2, <2>2, SamePlaces
  <2>5. /\ Target(p)' = t /\ run'[p].todo = todo /\ run'[p].moved = moved
        /\ Moving(p)' => Now(p)' = "discard"
    BY <1>2, <2>1 DEF StepAfter
  <2>6. PICK into, mine, x : into = Cmd(p).into /\ mine = Mine(p) /\ x = "discard"
    OBVIOUS
  <2>7. Placed(x, s, t, todo, moved, into, mine)'
    BY <2>4, <2>6 DEF Placed, Carrying
  <2>8. MoverFits(p)'
    BY <1>1, <2>5, <2>6, <2>7, FitsAnew
  <2>9. Settled(Source(p), Target(p))
    BY <1>2, <2>2, <2>3 DEF Settled, Kept
  <2> QED
    BY <2>2, <2>8, <2>9 DEF WorkGoesOn
<1>10. CASE Undo(p)
  <2>1. /\ run' = [run EXCEPT ![p].moved = Tail(@)] /\ moved # <<>>
        /\ IF CanRename(t, s, Head(moved))
             THEN \/ tree' = Renamed(t, s, Head(moved))
                  \/ tree' = tree /\ lost' = lost \cup {tree[t][Head(moved)]}
             ELSE tree' = tree
    BY <1>10 DEF Undo
  <2>2. /\ run'[p].moved = Tail(moved) /\ run'[p].todo = todo
        /\ run'[p].at = run[p].at /\ run'[p].num = run[p].num
    BY <1>4, <2>1, FieldsAre
  <2>3. IF CanRename(t, s, Head(moved))
          THEN \/ tree' = Renamed(t, s, Head(moved))
               \/ tree' = tree /\ tree[t][Head(moved)] \notin Saved'
          ELSE tree' = tree
    BY <2>1 DEF Saved
  <2>4. /\ AwayFrom(s, t, Tail(moved))'
        /\ Head(moved) # ".lock" /\ CanRename(t, s, Head(moved)) => ~HasWork(s, Head(moved))
    BY <1>1, <1>2, <1>6, <2>1, <2>3, UndoneAway
  <2>5. Kept \/ Borne(s, t)
    <3>1. CASE tree' = tree
      BY <1>2, <3>1, KeptWork
    <3>2. CASE Head(moved) = ".lock" /\ tree' = Renamed(t, s, Head(moved))
      <4>1. WorkSame
        BY <1>1, <3>2, SameWork
      <4> QED
        BY <1>2, <4>1, KeptWork
    <3>3. CASE /\ Head(moved) # ".lock" /\ CanRename(t, s, Head(moved))
               /\ tree' = Renamed(t, s, Head(moved))
      <4>1. PICK f : f = Head(moved)
        OBVIOUS
      <4>2. /\ f # ".lock" /\ CanRename(t, s, f) /\ tree' = Renamed(t, s, f)
            /\ ~HasWork(s, f)
        BY <2>4, <3>3, <4>1
      <4>3. ASSUME NEW e \in Saved
            PROVE  /\ \A d : d \notin {s, t} /\ Lies(e, d) => Lies(e, d)'
                   /\ Lies(e, s) \/ Lies(e, t) => Lies(e, s)' \/ Lies(e, t)'
        <5>1. /\ \A d : d \notin {t, s} /\ Lies(e, d) => Lies(e, d)'
              /\ Lies(e, t) \/ Lies(e, s) => Lies(e, t)' \/ Lies(e, s)'
          BY <1>1, <4>2, RenamedLies
        <5> QED
          BY <5>1
      <4> QED
        BY <1>2, <4>3 DEF Borne
    <3> QED
      BY <2>1, <3>1, <3>2, <3>3
  <2>6. Moving(p)' /\ Now(p)' = "undo" /\ Target(p)' = t
    BY <1>1, <1>3, <1>5, <1>10, <2>2
  <2>7. PICK rest : rest = Tail(moved)
    OBVIOUS
  <2>8. AwayFrom(s, t, rest)' /\ run'[p].moved = rest /\ run'[p].todo = todo
    BY <2>2, <2>4, <2>7
  <2>9. "undo" \in Carrying /\ "undo" \notin {"look", "move"}
    BY DEF Carrying
  <2> QED
    BY <2>5, <2>6, <2>8, <2>9, MoverCarriesOn
<1> QED
  BY <1>7, <1>8, <1>9, <1>10

(* What comes after: the target goes, or STATE.md is written.              *)
LEMMA MoverEnds ==
  ASSUME LockInv, SettingsInv, WorkInv, MovesApart, NEW p \in Procs, Moving(p), SpaceStep(p),
         \/ Discard(p) \/ LookForState(p) \/ WriteNewState(p)
         \/ (StateFails(p) /\ At(p, "write new state"))
  PROVE  MoverFits(p)' /\ WorkGoesOn(p)
<1> DEFINE c == Cmd(p).name
<1> PICK s, t, mine : s = Source(p) /\ t = Target(p) /\ mine = Mine(p)
  OBVIOUS
<1>1. c \in {"create", "finish"} /\ Cmd(p)' = Cmd(p) /\ Mine(p)' = Mine(p) /\ Source(p)' = s
  BY MoverPlaces
<1>2. /\ Saved' \subseteq Saved
      /\ Placed(Now(p), s, t, run[p].todo, run[p].moved, Cmd(p).into, mine)
      /\ Go(p) => /\ run'[p].todo = run[p].todo /\ run'[p].moved = run[p].moved
                  /\ Target(p)' = Target(p)
                  /\ Moving(p)' => Now(p)' = StepAfter(c, Now(p))
      /\ Stop(p) => ~Moving(p)'
      /\ Skip(p) /\ Moving(p)' => Now(p)' = StepAfter(c, StepAfter(c, Now(p)))
  BY MoverMoves
<1>3. /\ Discard(p) => Now(p) = "discard"
      /\ LookForState(p) => Now(p) = "look for state"
      /\ WriteNewState(p) => Now(p) = "write new state"
      /\ (StateFails(p) /\ At(p, "write new state")) => Now(p) = "write new state"
  BY AtNow DEF Discard, LookForState, WriteNewState
<1>4. Now(p) \notin Carrying
  BY <1>3 DEF Carrying
<1>5. TreeFits
  BY DEF WorkInv
<1>6. CASE Discard(p)
  <2>1. tree' = Drop(tree, {t}) /\ Go(p) /\ Now(p) = "discard"
    BY <1>3, <1>6 DEF Discard
  <2>2. NoWork(t)
    BY <1>2, <2>1 DEF Placed
  <2>3. Kept
    <3>1. tree' = Drop(tree, {t}) /\ Saved' \subseteq Saved
      BY <1>2, <2>1
    <3>2. WorkLike
      BY <2>2, <3>1, DroppedOne
    <3> QED
      BY <3>2, KeptWork
  <2>4. Moving(p)' => Now(p)' \in Untouched
    BY <1>1, <1>2, <2>1 DEF StepAfter, Untouched
  <2> QED
    BY <1>4, <2>3, <2>4, MoverUntouched
<1>7. CASE LookForState(p)
  <2>1. tree' = tree /\ Now(p) = "look for state"
    BY <1>3, <1>7 DEF LookForState, Idle, space
  <2>2. Kept /\ WorkSame
    BY <1>2, <2>1, KeptWork, SameWork
  <2>3. CASE Has(mine, "STATE.md")
    <3>1. Skip(p)
      BY <1>7, <2>3 DEF LookForState
    <3>2. Moving(p)' => Now(p)' \in Untouched
      BY <1>2, <2>1, <3>1 DEF StepAfter, Untouched
    <3> QED
      BY <1>4, <2>2, <3>2, MoverUntouched
  <2>4. CASE ~Has(mine, "STATE.md")
    <3>1. Go(p)
      BY <1>7, <2>4 DEF LookForState
    <3>2. PICK todo, moved, into, x : /\ todo = run[p].todo /\ moved = run[p].moved
                                      /\ into = Cmd(p).into /\ x = "write new state"
      OBVIOUS
    <3>3. /\ Target(p)' = t /\ run'[p].todo = todo /\ run'[p].moved = moved
          /\ Moving(p)' => Now(p)' = x
      BY <1>2, <2>1, <3>1, <3>2 DEF StepAfter
    <3>4. ~HasWork(mine, "STATE.md")'
      <4>1. ~HasWork(mine, "STATE.md")
        BY <2>4 DEF HasWork
      <4> QED
        BY <1>2, <2>2, <4>1, SamePlaces
    <3>5. Placed(x, s, t, todo, moved, into, mine)'
      BY <3>2, <3>4 DEF Placed, Carrying
    <3>6. MoverFits(p)'
      BY <1>1, <3>2, <3>3, <3>5, FitsAnew
    <3> QED
      BY <1>4, <2>2, <3>6 DEF WorkGoesOn
  <2> QED
    BY <2>3, <2>4
<1>8. CASE WriteNewState(p) \/ (StateFails(p) /\ At(p, "write new state"))
  <2>1. /\ tree' = tree \/ tree' = WithFile(mine, "STATE.md", NewWork)
        /\ Go(p) \/ Stop(p)
        /\ Now(p) = "write new state"
    <3>1. CASE WriteNewState(p)
      BY <1>3, <3>1 DEF WriteNewState
    <3>2. CASE StateFails(p) /\ At(p, "write new state")
      <4>1. /\ Stop(p) /\ tree' \in {tree, WithFile(Mine(p), "STATE.md", NewWork)}
            /\ At(p, "write new state")
        BY <3>2 DEF StateFails, At
      <4> QED
        BY <1>3, <3>2, <4>1
    <3> QED
      BY <1>8, <3>1, <3>2
  <2>2. ~HasWork(mine, "STATE.md")
    BY <1>2, <2>1 DEF Placed
  <2>3. Kept
    <3>1. tree' = tree => Kept
      BY <1>2, KeptWork
    <3>2. tree' = WithFile(mine, "STATE.md", NewWork) => Kept
      BY <1>2, <1>5, <2>2, NewIsNoWork, WrittenWork, KeptWork
    <3> QED
      BY <2>1, <3>1, <3>2
  <2>4. Moving(p)' => Now(p)' \in Untouched
    BY <1>2, <2>1 DEF StepAfter, Untouched
  <2> QED
    BY <1>4, <2>3, <2>4, MoverUntouched
<1> QED
  BY <1>6, <1>7, <1>8

(* So every step of such a call does.                                      *)
LEMMA MoverStep ==
  ASSUME LockInv, SettingsInv, WorkInv, MovesApart, NEW p \in Procs, Moving(p), SpaceStep(p)
  PROVE  MoverFits(p)' /\ WorkGoesOn(p)
<1>1. Now(p) \in MovingSteps
  BY MoverPlaces
<1>2. \/ LookForStream(p) \/ LookForMode(p) \/ LookForWork(p) \/ LookForTarget(p)
      \/ MakeTarget(p) \/ Unpoint(p) \/ PickArchive(p) \/ MakeArchive(p)
      \/ ListEntries(p) \/ Look(p) \/ Moved(p) \/ MoveFails(p) \/ AllMoved(p)
      \/ Undo(p) \/ AllUndone(p) \/ Discard(p) \/ RemoveStream(p) \/ DropWorkstreams(p)
      \/ MakeStream(p) \/ LookForState(p) \/ WriteNewState(p) \/ Point(p)
      \/ (StateFails(p) /\ At(p, "write new state"))
  BY <1>1, StepsOfMovers
<1>3. CASE \/ LookForStream(p) \/ Unpoint(p) \/ Point(p) \/ RemoveStream(p)
           \/ DropWorkstreams(p) \/ MakeStream(p)
  BY <1>3, MoverLooks
<1>4. CASE LookForMode(p) \/ LookForWork(p) \/ LookForTarget(p)
  BY <1>4, CreateLooks
<1>5. CASE MakeTarget(p) \/ PickArchive(p) \/ MakeArchive(p) \/ ListEntries(p)
  BY <1>5, MoverPrepares
<1>6. CASE Look(p) \/ Moved(p)
  BY <1>6, MoverMovesOn
<1>7. CASE MoveFails(p) \/ AllMoved(p) \/ Undo(p) \/ AllUndone(p)
  BY <1>7, MoverStops
<1>8. CASE \/ Discard(p) \/ LookForState(p) \/ WriteNewState(p)
           \/ (StateFails(p) /\ At(p, "write new state"))
  BY <1>8, MoverEnds
<1> QED
  BY <1>2, <1>3, <1>4, <1>5, <1>6, <1>7, <1>8

-----------------------------------------------------------------------------
(***************************************************************************)
(* The steps of all calls.                                                 *)
(***************************************************************************)
(* There are finitely many files, and none beside the workstreams, after a *)
(* directory is made,                                                      *)
LEMMA FitsMade ==
  ASSUME TreeFits, work' = work, NEW D, IsFiniteSet(D), tree' = WithDirs(D)
  PROVE  TreeFits'
<1>1. /\ DOMAIN tree' = DOMAIN tree \cup D
      /\ \A d \in DOMAIN tree' : tree'[d] = IF Exists(d) THEN tree[d] ELSE <<>>
  BY DEF WithDirs
<1>2. IsFiniteSet(DOMAIN tree')
  BY <1>1, FS_Union DEF TreeFits
<1>3. DOMAIN <<>> = {} /\ IsFiniteSet({})
  BY FS_EmptySet
<1>4. ASSUME NEW d \in DOMAIN tree' PROVE IsFiniteSet(DOMAIN tree'[d])
  <2>1. CASE Exists(d)
    BY <1>1, <1>4, <2>1 DEF TreeFits, Exists
  <2>2. CASE ~Exists(d)
    BY <1>1, <1>3, <1>4, <2>2
  <2> QED
    BY <2>1, <2>2
<1>5. Exists(Workstreams)' => tree'[Workstreams] = <<>>
  BY <1>1 DEF TreeFits, Exists
<1> QED
  BY <1>2, <1>4, <1>5 DEF TreeFits

(* a directory goes,                                                       *)
LEMMA FitsDropped ==
  ASSUME TreeFits, work' = work, NEW D, tree' = Drop(tree, D)
  PROVE  TreeFits'
<1>1. /\ DOMAIN tree' \subseteq DOMAIN tree
      /\ \A d \in DOMAIN tree' : tree'[d] = tree[d]
  BY DEF Drop
<1>2. IsFiniteSet(DOMAIN tree')
  BY <1>1, FS_Subset DEF TreeFits
<1> QED
  BY <1>1, <1>2 DEF TreeFits, Exists

(* or the files of some others change.                                     *)
LEMMA FitsChanged ==
  ASSUME TreeFits, work' = work, DOMAIN tree' = DOMAIN tree, NEW D, Workstreams \notin D,
         \A d \in DOMAIN tree \ D : tree'[d] = tree[d],
         \A d \in D \cap DOMAIN tree :
           \E f : DOMAIN tree'[d] \subseteq DOMAIN tree[d] \cup {f}
  PROVE  TreeFits'
<1>1. ASSUME NEW d \in DOMAIN tree' PROVE IsFiniteSet(DOMAIN tree'[d])
  <2>1. IsFiniteSet(DOMAIN tree[d])
    BY <1>1 DEF TreeFits
  <2>2. CASE d \in D
    <3>1. PICK f : DOMAIN tree'[d] \subseteq DOMAIN tree[d] \cup {f}
      BY <1>1, <2>2
    <3>2. IsFiniteSet(DOMAIN tree[d] \cup {f})
      BY <2>1, FS_AddElement
    <3> QED
      BY <3>1, <3>2, FS_Subset
  <2>3. CASE d \notin D
    BY <1>1, <2>1, <2>3
  <2> QED
    BY <2>2, <2>3
<1>2. Exists(Workstreams)' => tree'[Workstreams] = <<>>
  BY DEF TreeFits, Exists
<1> QED
  BY <1>1, <1>2 DEF TreeFits

(* Every step keeps that.                                                  *)
LEMMA TreeFitsStep ==
  ASSUME LockInv, TreeFits, NEW p \in Procs, Laying(p), SpaceStep(p)
  PROVE  TreeFits'
<1>1. work' = work
  BY StepsKeepWork
<1>2. \A a, b : IsFiniteSet({a}) /\ IsFiniteSet({a, b})
  <2> TAKE a, b
  <2>1. IsFiniteSet({a}) /\ IsFiniteSet({b})
    BY FS_Singleton
  <2>2. IsFiniteSet({a} \cup {b}) /\ {a} \cup {b} = {a, b}
    BY <2>1, FS_Union
  <2> QED
    BY <2>1, <2>2
<1>3. /\ Workstreams # Here(p) /\ Workstreams # Mine(p) /\ Workstreams # Source(p)
      /\ Workstreams # Target(p)
  <2>1. Here(p) \in {Root, Workstream(run[p].scope)}
    BY Places DEF Here
  <2>2. /\ Source(p) \in {Root, Mine(p)}
        /\ Target(p) \in {Workstream(Cmd(p).into), ArchiveOf(Cmd(p).stream, run[p].num)}
    BY DEF Source, Target
  <2> QED
    BY <2>1, <2>2, Places DEF Mine
<1>4. CASE tree' = tree
  BY <1>1, <1>4 DEF TreeFits, Exists
<1>5. ASSUME NEW d, NEW f, NEW v, tree' = WithFile(d, f, v), Workstreams # d PROVE TreeFits'
  <2>1. CASE Exists(d)
    <3>1. tree' = [tree EXCEPT ![d] = Put(@, f, v)]
      BY <1>5, <2>1 DEF WithFile
    <3>2. /\ DOMAIN tree' = DOMAIN tree /\ \A e \in DOMAIN tree \ {d} : tree'[e] = tree[e]
          /\ DOMAIN tree'[d] \subseteq DOMAIN tree[d] \cup {f}
      BY <2>1, <3>1 DEF Put, Exists
    <3> QED
      BY <1>1, <1>5, <3>2, FitsChanged
  <2>2. CASE ~Exists(d)
    BY <1>4, <1>5, <2>2 DEF WithFile
  <2> QED
    BY <2>1, <2>2
<1>6. ASSUME NEW s, NEW t, NEW f, Workstreams \notin {s, t}, s # t,
             CanRename(s, t, f), tree' = Renamed(s, t, f)
      PROVE  TreeFits'
  <2>1. CASE IsLock(s, f)
    <3>1. tree' = WithFile(t, f, [text |-> "lock"])
      BY <1>6, <2>1 DEF Renamed
    <3> QED
      BY <1>5, <1>6, <3>1
  <2>3. CASE ~IsLock(s, f) /\ IsLock(t, f)
    <3>1. /\ Exists(s) /\ tree' = [tree EXCEPT ![s] = Drop(@, {f})]
      BY <1>6, <2>3 DEF Renamed, CanRename, Has
    <3>2. /\ DOMAIN tree' = DOMAIN tree /\ \A e \in DOMAIN tree \ {s} : tree'[e] = tree[e]
          /\ DOMAIN tree'[s] \subseteq DOMAIN tree[s] \cup {f}
      BY <3>1 DEF Drop, Exists
    <3> QED
      BY <1>1, <1>6, <3>2, FitsChanged
  <2>2. CASE ~IsLock(s, f) /\ ~IsLock(t, f)
    <3>1. /\ Exists(s) /\ Exists(t)
          /\ tree' = [tree EXCEPT ![t] = Put(@, f, tree[s][f]), ![s] = Drop(@, {f})]
      BY <1>6, <2>2 DEF Renamed, CanRename, Has
    <3>2. /\ DOMAIN tree' = DOMAIN tree /\ \A e \in DOMAIN tree \ {s, t} : tree'[e] = tree[e]
          /\ DOMAIN tree'[t] \subseteq DOMAIN tree[t] \cup {f}
          /\ DOMAIN tree'[s] \subseteq DOMAIN tree[s] \cup {f}
      BY <1>6, <3>1 DEF Put, Drop, Exists
    <3> QED
      BY <1>1, <1>6, <3>2, FitsChanged
  <2> QED
    BY <2>1, <2>2, <2>3
<1>7. CASE \/ Route(p) \/ Heal(p) \/ Point(p) \/ Unpoint(p) \/ LookForStream(p)
           \/ LookForMode(p) \/ LookForTarget(p) \/ PickArchive(p) \/ ListEntries(p)
           \/ Look(p) \/ MoveFails(p) \/ AllMoved(p) \/ AllUndone(p)
  BY <1>4, <1>7 DEF Route, Heal, Point, Unpoint, LookForStream, LookForMode, LookForTarget,
        PickArchive, ListEntries, Look, MoveFails, AllMoved, AllUndone, Idle, space
<1>8. CASE \/ LookForState(p) \/ LookForConfig(p) \/ ReadConfig(p) \/ LoadConfig(p)
           \/ Inspect(p) \/ Repair(p) \/ RewriteFails(p) \/ LockInVain(p)
  BY <1>4, <1>8 DEF LookForState, LookForConfig, ReadConfig, LoadConfig, Inspect, Repair,
        RewriteFails, LockInVain, Idle, space
<1>9. CASE LookForWork(p) \/ MakeTarget(p) \/ MakeArchive(p) \/ MakeScope(p)
  <2>1. tree' = tree \/ \E D : tree' = WithDirs(D) /\ IsFiniteSet(D)
    BY <1>2, <1>9 DEF LookForWork, MakeTarget, MakeArchive, MakeScope, MadeDirs
  <2> QED
    BY <1>1, <1>4, <2>1, FitsMade
<1>10. CASE MakeStream(p)
  <2> DEFINE made == WithDirs({Workstreams, Mine(p)})
  <2>1. tree' = IF Has(Mine(p), "phases") THEN made
                ELSE [made EXCEPT ![Mine(p)] = Put(@, "phases", NewWork)]
    BY <1>10 DEF MakeStream
  <2>2. CASE tree' = made
    BY <1>1, <1>2, <2>2, FitsMade
  <2>3. CASE tree' = [made EXCEPT ![Mine(p)] = Put(@, "phases", NewWork)]
    <3>1. /\ DOMAIN made = DOMAIN tree \cup {Workstreams, Mine(p)}
          /\ \A d \in DOMAIN made : made[d] = IF Exists(d) THEN tree[d] ELSE <<>>
      BY DEF WithDirs
    <3> HIDE DEF made
    <3>2. /\ DOMAIN tree' = DOMAIN tree \cup {Workstreams, Mine(p)}
          /\ \A d \in DOMAIN tree' \ {Mine(p)} : tree'[d] = made[d]
          /\ DOMAIN tree'[Mine(p)] = DOMAIN made[Mine(p)] \cup {"phases"}
      <4>1. \A g, v : DOMAIN Put(g, "phases", v) = DOMAIN g \cup {"phases"}
        BY DEF Put
      <4>2. Mine(p) \in DOMAIN made /\ DOMAIN tree' = DOMAIN made
        BY <2>3, <3>1
      <4>3. /\ \A d \in DOMAIN made \ {Mine(p)} : tree'[d] = made[d]
            /\ tree'[Mine(p)] = Put(made[Mine(p)], "phases", NewWork)
        BY <2>3, <4>2
      <4> QED
        BY <3>1, <4>1, <4>2, <4>3
    <3>3. IsFiniteSet(DOMAIN tree')
      <4>1. IsFiniteSet(DOMAIN tree) /\ IsFiniteSet({Workstreams, Mine(p)})
        BY <1>2 DEF TreeFits
      <4>2. IsFiniteSet(DOMAIN tree \cup {Workstreams, Mine(p)})
        BY <4>1, FS_Union
      <4> QED
        BY <3>2, <4>2
    <3>4. DOMAIN <<>> = {} /\ IsFiniteSet({})
      BY FS_EmptySet
    <3>5. ASSUME NEW d \in DOMAIN made PROVE IsFiniteSet(DOMAIN made[d])
      <4>1. CASE Exists(d)
        BY <3>1, <3>5, <4>1 DEF TreeFits, Exists
      <4>2. CASE ~Exists(d)
        BY <3>1, <3>4, <3>5, <4>2
      <4> QED
        BY <4>1, <4>2
    <3>6. ASSUME NEW d \in DOMAIN tree' PROVE IsFiniteSet(DOMAIN tree'[d])
      <4>1. CASE d = Mine(p)
        <5>1. IsFiniteSet(DOMAIN made[Mine(p)])
          BY <3>1, <3>5
        <5>2. IsFiniteSet(DOMAIN made[Mine(p)] \cup {"phases"})
          BY <5>1, FS_AddElement
        <5> QED
          BY <3>2, <4>1, <5>2
      <4>2. CASE d # Mine(p)
        BY <3>1, <3>2, <3>5, <3>6, <4>2
      <4> QED
        BY <4>1, <4>2
    <3>7. tree'[Workstreams] = <<>>
      <4>1. tree'[Workstreams] = made[Workstreams]
        BY <1>3, <3>2
      <4>2. made[Workstreams] = IF Exists(Workstreams) THEN tree[Workstreams] ELSE <<>>
        BY <3>1
      <4>3. Exists(Workstreams) => tree[Workstreams] = <<>>
        BY DEF TreeFits
      <4> QED
        BY <4>1, <4>2, <4>3
    <3> QED
      BY <1>1, <3>3, <3>6, <3>7 DEF TreeFits
  <2> QED
    BY <2>1, <2>2, <2>3
<1>11. CASE \/ WriteNewState(p) \/ BackUpState(p) \/ RegenerateState(p) \/ WriteDefaults(p)
            \/ WriteConfig(p) \/ TruncateConfig(p) \/ FillConfig(p) \/ ConfigFails(p)
            \/ StateFails(p)
  <2>1. tree' = tree \/ \E d \in {Mine(p), Here(p)} : \E f, v : tree' = WithFile(d, f, v)
    BY <1>11 DEF WriteNewState, BackUpState, RegenerateState, WriteDefaults, WriteConfig,
           TruncateConfig, FillConfig, AtomicWrite, ConfigFails, EmptiesConfig, StateFails
  <2> QED
    BY <1>3, <1>4, <1>5, <2>1
<1>12. CASE Moved(p) \/ Undo(p)
  <2>1. Now(p) \in {"move", "undo"}
    BY <1>12, AtNow DEF Moved, Undo
  <2>2. Formed /\ Running(p) /\ Cmd(p) # Nothing
    BY DEF LockInv, Formed, CallFormed, Laying, Running
  <2>3. Leads(Cmd(p).name, Mode(p), Now(p), Modes(Cmd(p).name)[run[p].at + 1])
    BY <2>2, StepLeads DEF Now
  <2>4. Cmd(p).name \in {"create", "finish"}
    BY <2>1, <2>3 DEF Leads, Loose
  <2>5. Moving(p) /\ Source(p) # Target(p)
    <3>1. Moving(p)
      BY <2>2, <2>4 DEF Moving, Movers
    <3> QED
      BY <3>1, MoverPlaces
  <2>6. \/ tree' = tree
        \/ \E f : /\ CanRename(Source(p), Target(p), f)
                  /\ tree' = Renamed(Source(p), Target(p), f)
        \/ \E f : /\ CanRename(Target(p), Source(p), f)
                  /\ tree' = Renamed(Target(p), Source(p), f)
    BY <1>12 DEF Moved, Undo
  <2> QED
    BY <1>3, <1>4, <1>6, <2>5, <2>6
<1>13. CASE Discard(p) \/ RemoveStream(p) \/ DropWorkstreams(p)
  <2>1. tree' = tree \/ \E D : tree' = Drop(tree, D)
    BY <1>13 DEF Discard, RemoveStream, DropWorkstreams
  <2> QED
    BY <1>1, <1>4, <2>1, FitsDropped
<1> QED
  BY <1>7, <1>8, <1>9, <1>10, <1>11, <1>12, <1>13 DEF SpaceStep

(* A call that moves nothing changes no work, but health writes STATE.md   *)
(* anew, or begins to.                                                     *)
LEMMA OthersWork ==
  ASSUME LockInv, NEW p \in Procs, Laying(p), SpaceStep(p), Cmd(p).name \notin Movers
  PROVE  \/ WorkSame
         \/ /\ Now(p) = "regenerate state" /\ Cmd(p).name = "health"
            /\ tree' = WithFile(Here(p), "STATE.md", NewWork)
<1> DEFINE c == Cmd(p).name
<1>1. Formed /\ Local(p) /\ LooksFirst
  BY SpaceStepIsLocal DEF LockInv
<1>2. Leads(c, Mode(p), Now(p), Modes(c)[run[p].at + 1])
  BY <1>1, StepLeads DEF Now, Laying
<1>3. c \notin {"create", "finish"}
  BY DEF Movers
<1>4. Now(p) \notin {"look for work", "make target", "make archive", "move", "undo", "discard",
                     "remove stream", "drop workstreams", "make stream", "write new state"}
  BY <1>2, <1>3 DEF Leads, Loose
<1>5. Now(p) = "regenerate state" => c = "health"
  BY <1>2, <1>3 DEF Leads, Loose
<1>6. /\ LookForWork(p) => Now(p) = "look for work"
      /\ MakeTarget(p) => Now(p) = "make target"
      /\ MakeArchive(p) => Now(p) = "make archive"
      /\ Moved(p) \/ MoveFails(p) \/ AllMoved(p) => Now(p) = "move"
      /\ Undo(p) \/ AllUndone(p) => Now(p) = "undo"
      /\ Discard(p) => Now(p) = "discard"
      /\ RemoveStream(p) => Now(p) = "remove stream"
      /\ DropWorkstreams(p) => Now(p) = "drop workstreams"
      /\ MakeStream(p) => Now(p) = "make stream"
      /\ WriteNewState(p) => Now(p) = "write new state"
      /\ RegenerateState(p) => Now(p) = "regenerate state"
  BY AtNow DEF LookForWork, MakeTarget, MakeArchive, Moved, MoveFails, AllMoved, Undo,
     AllUndone, Discard, RemoveStream, DropWorkstreams, MakeStream, WriteNewState, RegenerateState
<1>7. \/ Route(p) \/ Heal(p) \/ Point(p) \/ Unpoint(p)
      \/ LookForStream(p) \/ LookForMode(p) \/ LookForTarget(p)
      \/ PickArchive(p) \/ ListEntries(p) \/ Look(p) \/ LookForState(p)
      \/ MakeScope(p) \/ LookForConfig(p) \/ WriteDefaults(p) \/ ReadConfig(p)
      \/ WriteConfig(p) \/ LoadConfig(p) \/ TruncateConfig(p) \/ FillConfig(p)
      \/ Inspect(p) \/ Repair(p) \/ BackUpState(p) \/ RegenerateState(p) \/ LockInVain(p)
      \/ ConfigFails(p) \/ RewriteFails(p) \/ StateFails(p)
  BY <1>4, <1>6 DEF SpaceStep
<1>8. CASE \/ Route(p) \/ Heal(p) \/ Point(p) \/ Unpoint(p)
           \/ LookForStream(p) \/ LookForMode(p) \/ LookForTarget(p)
           \/ PickArchive(p) \/ ListEntries(p) \/ Look(p) \/ LookForState(p)
           \/ LookForConfig(p) \/ ReadConfig(p) \/ LoadConfig(p)
           \/ Inspect(p) \/ Repair(p) \/ RewriteFails(p) \/ LockInVain(p)
  <2>1. tree' = tree
    BY <1>8 DEF Route, Heal, Point, Unpoint, LookForStream, LookForMode, LookForTarget,
       PickArchive, ListEntries, Look, LookForState, LookForConfig, ReadConfig, LoadConfig,
       Inspect, Repair, RewriteFails, LockInVain, Idle, space
  <2> QED
    BY <2>1, SameWork
<1>9. CASE MakeScope(p)
  <2>1. tree' = WithDirs(MadeDirs(Here(p)))
    BY <1>9 DEF MakeScope
  <2> QED
    BY <2>1, SameWork
<1>10. "config.json" \notin Work /\ "STATE.md.bak" \notin Work
  BY DEF Work
<1>11. CASE WriteDefaults(p) \/ WriteConfig(p) \/ TruncateConfig(p) \/ FillConfig(p)
  <2>1. \E v : tree' = WithFile(Here(p), "config.json", v)
    BY <1>11 DEF WriteDefaults, WriteConfig, TruncateConfig, FillConfig, AtomicWrite
  <2> QED
    BY <1>10, <2>1, SameWork
<1>12. CASE BackUpState(p)
  <2>1. tree' = tree \/ \E v : tree' = WithFile(Here(p), "STATE.md.bak", v)
    BY <1>12 DEF BackUpState
  <2> QED
    BY <1>10, <2>1, SameWork
<1>13. CASE ConfigFails(p)
  <2>1. tree' = tree \/ \E v : tree' = WithFile(Here(p), "config.json", v)
    BY <1>13 DEF ConfigFails, EmptiesConfig
  <2> QED
    BY <1>10, <2>1, SameWork
<1>14. CASE RegenerateState(p)
  <2>1. tree' = WithFile(Here(p), "STATE.md", NewWork)
    BY <1>14 DEF RegenerateState
  <2> QED
    BY <1>5, <1>6, <1>14, <2>1
<1>15. CASE StateFails(p)
  <2>1. \/ At(p, "write new state") \/ tree' = tree
        \/ At(p, "regenerate state") /\ tree' = WithFile(Here(p), "STATE.md", NewWork)
    BY <1>15 DEF StateFails
  <2>2. ~At(p, "write new state")
    BY <1>4, AtNow
  <2>3. At(p, "regenerate state") => Now(p) = "regenerate state"
    BY AtNow
  <2> QED
    BY <1>5, <2>1, <2>2, <2>3, SameWork
<1> QED
  BY <1>7, <1>8, <1>9, <1>11, <1>12, <1>13, <1>14, <1>15

(* Health has seen no STATE.md before it regenerates it: what it carries   *)
(* on with,                                                                *)
LEMMA CarriedMends ==
  ASSUME NEW p \in Procs, Laying(p), Carried(p), MenderFits(p), WorkLike, Cmd(p)' = Cmd(p)
  PROVE  MenderFits(p)'
<1>1. SUFFICES ASSUME Running(p)', Cmd(p).name = "health", Now(p)' \in Regenerating
               PROVE  ~HasWork(Here(p), "STATE.md")'
  BY DEF MenderFits
<1>2. Laying(p)' /\ Running(p) /\ "STATE.md" \in Work
  BY <1>1 DEF Laying, Work
<1>3. Now(p) \in Regenerating
  BY <1>1, <1>2 DEF Carried, Carries
<1>4. run'[p].scope = run[p].scope
  BY <1>3 DEF Carried, Regenerating
<1>5. PICK d : d = Here(p)
  OBVIOUS
<1>6. ~HasWork(d, "STATE.md")
  BY <1>1, <1>2, <1>3, <1>5 DEF MenderFits
<1>7. ~HasWork(d, "STATE.md")' /\ Here(p)' = d
  BY <1>2, <1>4, <1>5, <1>6 DEF WorkLike, Here, PlanningDir, Workstream, Root, Place
<1> QED
  BY <1>7 DEF HasWork, Has, Exists

(* and what it decides.                                                    *)
LEMMA MenderStep ==
  ASSUME LockInv, NEW p \in Procs, Laying(p), SpaceStep(p), MenderFits(p), WorkLike
  PROVE  MenderFits(p)'
<1> DEFINE c == Cmd(p).name
<1>1. /\ Formed /\ Same(p) /\ Local(p) /\ LooksFirst /\ c \in SpaceCommands
      /\ Cmd(p)' = Cmd(p) /\ DOMAIN run = Procs /\ DOMAIN run[p] = Fields
  BY SpaceIsSame, SpaceStepIsLocal DEF LockInv, Formed, CallFormed, Same, Cmd, Laying
<1>2. SUFFICES ASSUME Running(p)', c = "health", Now(p)' \in Regenerating
               PROVE  ~HasWork(Here(p), "STATE.md")'
  BY <1>1 DEF MenderFits
<1>3. Laying(p)' /\ Running(p) /\ "STATE.md" \in Work
  BY <1>1, <1>2 DEF Laying, Work
<1>4. \A d : ~HasWork(d, "STATE.md") => ~HasWork(d, "STATE.md")'
  BY <1>3 DEF WorkLike
<1>5. run'[p].scope = run[p].scope => Here(p)' = Here(p)
  BY DEF Here, PlanningDir, Workstream, Root, Place
<1>6. ASSUME run'[p].scope = run[p].scope, ~HasWork(Here(p), "STATE.md")
      PROVE  ~HasWork(Here(p), "STATE.md")'
  <2>1. PICK d : d = Here(p)
    OBVIOUS
  <2>2. ~HasWork(d, "STATE.md")' /\ Here(p)' = d
    BY <1>4, <1>5, <1>6, <2>1
  <2> QED
    BY <2>2 DEF HasWork, Has, Exists
<1>7. CASE Carried(p)
  <2>1. MenderFits(p)'
    BY <1>1, <1>7, CarriedMends
  <2> QED
    BY <1>1, <1>2, <2>1 DEF MenderFits
<1>8. CASE Decides(p)
  <2>1. Leads(c, Mode(p), Now(p), Modes(c)[run[p].at + 1])
    BY <1>1, StepLeads DEF Now, Laying
  <2>2. Now(p) \notin {"look for mode", "look for config", "read config", "load config",
                       "write config"}
    BY <1>2, <2>1 DEF Leads, Loose
  <2>3. /\ LookForMode(p) => Now(p) = "look for mode"
        /\ LookForConfig(p) => Now(p) = "look for config"
        /\ ReadConfig(p) => Now(p) = "read config"
        /\ LoadConfig(p) => Now(p) = "load config"
        /\ WriteConfig(p) => Now(p) = "write config"
        /\ Inspect(p) => Now(p) = "inspect"
        /\ Repair(p) => Now(p) = "repair"
    BY AtNow DEF LookForMode, LookForConfig, ReadConfig, LoadConfig, WriteConfig, Inspect,
       Repair
  <2>4. /\ run'[p].at = run[p].at => Now(p)' = Now(p)
        /\ run'[p].at = run[p].at + 1 => Follows(c, Now(p), Now(p)')
        /\ \A x : Occurs(c, x) /\ run'[p].at = StepNo(p, x) => Now(p)' = x
        /\ run'[p].at # Len(Steps(p)) + 1
    BY <1>1, <1>3, WhereSpace DEF Same
  <2>5. Occurs(c, "repair")
    BY <1>2, Targets
  <2>6. Follows("health", Now(p), Now(p)') => Now(p) # "repair"
    BY <1>2 DEF Follows
  <2>7. CASE Repair(p)
    <3>1. run'[p].at \in {run[p].at, run[p].at + 1, Len(Steps(p)) + 1}
      BY <1>1, <2>7, FieldsAre DEF Repair, Stop
    <3> QED
      BY <1>2, <2>3, <2>4, <2>6, <2>7, <3>1 DEF Regenerating
  <2>8. CASE FillConfig(p) \/ RewriteFails(p)
    <3>1. Is(p, {"health"})
      BY <1>2, <1>3 DEF Is, Running
    <3>4. Rewritten(p)
      BY <2>8 DEF FillConfig, RewriteFails
    <3>2. GoTo(p, "repair")
      BY <3>1, <3>4 DEF Rewritten, Is
    <3>3. run'[p].at = StepNo(p, "repair")
      BY <1>1, <3>2, FieldsAre DEF GoTo
    <3> QED
      BY <1>2, <2>4, <2>5, <3>3 DEF Regenerating
  <2>9. CASE Inspect(p)
    <3>1. /\ run'[p].scope = run[p].scope
          /\ run'[p].at = IF ~Exists(Here(p)) THEN Len(Steps(p)) + 1
                          ELSE IF Has(Here(p), "STATE.md") THEN StepNo(p, "repair")
                          ELSE run[p].at + 1
      BY <1>1, <2>9, FieldsAre DEF Inspect
    <3>2. ~Has(Here(p), "STATE.md")
      BY <1>2, <2>4, <2>5, <3>1 DEF Regenerating
    <3> QED
      BY <1>6, <3>1, <3>2 DEF HasWork
  <2> QED
    BY <1>8, <2>2, <2>3, <2>7, <2>8, <2>9 DEF Decides
<1> QED
  BY <1>7, <1>8, SpaceMoves

(* A call that moves work runs beside none that moves or regenerates it.   *)
LEMMA OnlyMover ==
  ASSUME TogetherFits, MovesApart, NEW p \in Procs, Moving(p),
         NEW q \in Procs, q # p, Running(q)
  PROVE  Cmd(q).name \notin Movers \cup {"health"}
<1> SUFFICES ASSUME Cmd(q).name \in Movers \cup {"health"} PROVE FALSE
  OBVIOUS
<1>1. Running(p) /\ Cmd(p).name \in Movers
  BY DEF Moving
<1>2. {Cmd(p).name, Cmd(q).name} \subseteq SpaceCommands
  BY <1>1, CommandsAre DEF Movers
<1>3. Related(Cmd(p).name, Cmd(q).name)
  BY <1>2 DEF Related
<1>4. {p, q} \in together
  BY <1>1, <1>3 DEF TogetherFits
<1>5. Is(p, Movers) /\ Is(q, Movers \cup {"health"})
  BY <1>1 DEF Is, Running
<1> QED
  BY <1>4, <1>5 DEF MovesApart, Apart

(* A call that takes no step is where it was.                              *)
LEMMA StillThere ==
  ASSUME NEW q \in Procs, run'[q] = run[q], killed \subseteq killed'
  PROVE  /\ Cmd(q)' = Cmd(q) /\ Now(q)' = Now(q)
         /\ Running(q)' => Running(q)
         /\ killed' = killed => (Running(q)' <=> Running(q))
         /\ Source(q)' = Source(q) \/ ~Moving(q)
         /\ Target(q)' = Target(q) \/ ~Moving(q)
         /\ Mine(q)' = Mine(q) /\ Here(q)' = Here(q)
<1>1. Cmd(q)' = Cmd(q) /\ Steps(q)' = Steps(q) /\ (Started(q)' <=> Started(q))
  BY DEF Cmd, Steps, Started
<1>2. Now(q)' = Now(q)
  BY <1>1 DEF Now
<1>3. Running(q)' => Running(q)
  BY <1>1 DEF Running
<1>4. killed' = killed => (Running(q)' <=> Running(q))
  BY <1>1 DEF Running
<1>5. Mine(q)' = Mine(q)
  BY <1>1 DEF Mine, Workstream, Place
<1>6. Here(q)' = Here(q)
  BY DEF Here, PlanningDir, Root, Workstream, Place
<1>7. \A N : Is(q, N)' <=> Is(q, N)
  BY <1>1 DEF Is
<1>8. Source(q)' = Source(q)
  BY <1>5, <1>7 DEF Source, Root, Place
<1>9. Target(q)' = Target(q)
  BY <1>1, <1>7 DEF Target, ArchiveOf, Workstream, Place
<1> QED
  BY <1>1, <1>2, <1>3, <1>4, <1>5, <1>6, <1>8, <1>9

(* Its lists fit; so does what it does, if the work is the same, and what  *)
(* it bears it still does, if nothing is killed.                           *)
LEMMA ListsStay ==
  ASSUME NEW q \in Procs, run'[q] = run[q], killed \subseteq killed', ListsFit(q)
  PROVE  ListsFit(q)'
<1>1. Cmd(q)' = Cmd(q) /\ Now(q)' = Now(q) /\ (Moving(q)' => Moving(q))
  BY StillThere DEF Moving
<1> QED
  BY <1>1 DEF ListsFit

(* What health has seen it has seen still.                               *)
LEMMA MendersStay ==
  ASSUME NEW q \in Procs, run'[q] = run[q], killed \subseteq killed', MenderFits(q), WorkLike
  PROVE  MenderFits(q)'
<1>1. Cmd(q)' = Cmd(q) /\ Now(q)' = Now(q) /\ (Running(q)' => Running(q)) /\ Here(q)' = Here(q)
  BY StillThere
<1>2. SUFFICES ASSUME Running(q)', Cmd(q).name = "health", Now(q)' \in Regenerating
               PROVE  ~HasWork(Here(q), "STATE.md")'
  BY <1>1 DEF MenderFits
<1>3. PICK d : d = Here(q)
  OBVIOUS
<1>4. ~HasWork(d, "STATE.md")
  BY <1>1, <1>2, <1>3 DEF MenderFits
<1>5. ~HasWork(d, "STATE.md")' /\ Here(q)' = d
  BY <1>1, <1>3, <1>4 DEF WorkLike, Work
<1> QED
  BY <1>5 DEF HasWork, Has, Exists

(* What a mover needs it has, and what it carries it carries.            *)
LEMMA MoversStay ==
  ASSUME NEW q \in Procs, run'[q] = run[q], killed \subseteq killed', WorkSame,
         Saved' \subseteq Saved
  PROVE  /\ MoverFits(q) => MoverFits(q)'
         /\ killed' = killed =>
              \A c, e \in Saved' : Bears(q, c, e) => Bears(q, c, e)'
<1>1. /\ Cmd(q)' = Cmd(q) /\ Now(q)' = Now(q) /\ (Moving(q)' => Moving(q))
      /\ killed' = killed => (Moving(q)' <=> Moving(q))
      /\ Moving(q) => Source(q)' = Source(q) /\ Target(q)' = Target(q)
      /\ Mine(q)' = Mine(q)
  BY StillThere DEF Moving
<1>2. ASSUME MoverFits(q), Moving(q)' PROVE MoverFits(q)'
  <2>1. PICK x, s, t, into, mine :
          x = Now(q) /\ s = Source(q) /\ t = Target(q) /\ into = Cmd(q).into /\ mine = Mine(q)
    OBVIOUS
  <2>2. PICK todo, moved : todo = run[q].todo /\ moved = run[q].moved
    OBVIOUS
  <2>3. Placed(x, s, t, todo, moved, into, mine)
    BY <1>1, <1>2, <2>1, <2>2 DEF MoverFits
  <2>4. Placed(x, s, t, todo, moved, into, mine)'
    BY <2>3, SamePlaces
  <2>5. /\ Now(q)' = x /\ Source(q)' = s /\ Target(q)' = t /\ Cmd(q)'.into = into
        /\ Mine(q)' = mine /\ run'[q].todo = todo /\ run'[q].moved = moved
    BY <1>1, <1>2, <2>1, <2>2
  <2> QED
    BY <2>4, <2>5, FitsAnew
<1>3. ~Moving(q)' => MoverFits(q)'
  BY DEF MoverFits
<1>4. ASSUME killed' = killed, NEW c \in Saved', NEW e \in Saved', Bears(q, c, e)
      PROVE  Bears(q, c, e)'
  <2>1. PICK s, t : s = Source(q) /\ t = Target(q)
    OBVIOUS
  <2>2. /\ Moving(q) /\ Now(q) \in Carrying /\ (Lies(c, s) \/ Lies(c, t))
        /\ Lies(e, s) \/ Lies(e, t)
    BY <1>4, <2>1 DEF Bears
  <2>3. WorkLike
    BY SameWork
  <2>4. /\ Lies(c, s)' \/ Lies(c, t)'
        /\ Lies(e, s)' \/ Lies(e, t)'
    BY <2>2, <2>3, LikeLies
  <2>5. Moving(q)' /\ Now(q)' \in Carrying /\ Source(q)' = s /\ Target(q)' = t
    BY <1>1, <1>4, <2>1, <2>2
  <2> QED
    BY <2>4, <2>5 DEF Bears, Lies, Has, Exists
<1> QED
  BY <1>2, <1>3, <1>4

\* What WorkInv says of the work itself.
WorkThere ==
  /\ \A c \in Saved : \E d \in DOMAIN tree : Lies(c, d)
  /\ killed = {} => \A c, e \in Saved : c.of = e.of => Gathered(c, e)

(* Where something lies is a directory.                                    *)
LEMMA LiesSomewhere ==
  /\ \A c, d : Lies(c, d) => d \in DOMAIN tree
  /\ \A c, d : Lies(c, d)' => d \in DOMAIN tree'
BY DEF Lies, Has, Exists

(* It is all there after a step of the call that moves it,                 *)
LEMMA MovedThere ==
  ASSUME LockInv, SettingsInv, TogetherFits, WorkInv, MovesApart, NEW p \in Procs, Moving(p),
         SpaceStep(p)
  PROVE  WorkThere'
<1>1. /\ WorkGoesOn(p) /\ Saved' \subseteq Saved /\ killed' = killed
      /\ \A c \in Saved : \E d \in DOMAIN tree : Lies(c, d)
      /\ killed = {} => \A c, e \in Saved : c.of = e.of => Gathered(c, e)
  BY MoverStep, StepsKeepWork, MoverPlaces DEF WorkInv, Same
<1>2. PICK s, t : s = Source(p) /\ t = Target(p)
  OBVIOUS
<1>3. Kept \/ (StaysMoving(p) /\ Borne(s, t))
  BY <1>1, <1>2 DEF WorkGoesOn
<1>4. \A c \in Saved' : \E d \in DOMAIN tree' : Lies(c, d)'
  BY <1>1, <1>3, LiesSomewhere DEF Kept, Borne
<1>5. StaysMoving(p) => Moving(p)' /\ Now(p)' \in Carrying /\ Source(p)' = s /\ Target(p)' = t
  BY <1>2 DEF StaysMoving
<1>6. ASSUME NEW c \in Saved', NEW e \in Saved', StaysMoving(p),
             Lies(c, s)' \/ Lies(c, t)', Lies(e, s)' \/ Lies(e, t)'
      PROVE  Gathered(c, e)'
  <2>1. Bears(p, c, e)'
    BY <1>5, <1>6 DEF Bears, Lies, Has, Exists
  <2> QED
    BY <2>1 DEF Gathered
<1>7. ASSUME NEW c \in Saved', NEW e \in Saved', NEW d, Lies(c, d)', Lies(e, d)'
      PROVE  Gathered(c, e)'
  <2>1. d \in DOMAIN tree'
    BY <1>7, LiesSomewhere
  <2> QED
    BY <1>7, <2>1 DEF Gathered
<1>8. ASSUME killed' = {}, NEW c \in Saved', NEW e \in Saved', c.of = e.of
      PROVE  Gathered(c, e)'
  <2>1. Gathered(c, e)
    BY <1>1, <1>8
  <2>2. CASE \E d \in DOMAIN tree : Lies(c, d) /\ Lies(e, d)
    <3>1. PICK d \in DOMAIN tree : Lies(c, d) /\ Lies(e, d)
      BY <2>2
    <3>2. CASE Kept
      BY <1>7, <3>1, <3>2 DEF Kept
    <3>3. CASE StaysMoving(p) /\ Borne(s, t)
      <4>1. CASE d \notin {s, t}
        BY <1>7, <3>1, <3>3, <4>1 DEF Borne
      <4>2. CASE d \in {s, t}
        <5>1. (Lies(c, s) \/ Lies(c, t)) /\ (Lies(e, s) \/ Lies(e, t))
          BY <3>1, <4>2
        <5>2. (Lies(c, s)' \/ Lies(c, t)') /\ (Lies(e, s)' \/ Lies(e, t)')
          BY <3>3, <5>1 DEF Borne
        <5> QED
          BY <1>6, <3>3, <5>2
      <4> QED
        BY <4>1, <4>2
    <3> QED
      BY <1>3, <3>2, <3>3
  <2>3. CASE \E q \in Procs : Bears(q, c, e)
    <3>1. PICK q \in Procs : Bears(q, c, e)
      BY <2>3
    <3>2. Moving(q) /\ Running(q) /\ Cmd(q).name \in Movers
      BY <3>1 DEF Bears, Moving
    <3>3. q = p
      BY <3>2, OnlyMover
    <3>4. /\ Now(p) \in Carrying
          /\ (Lies(c, s) \/ Lies(c, t)) /\ (Lies(e, s) \/ Lies(e, t))
      BY <1>2, <3>1, <3>3 DEF Bears
    <3>5. StaysMoving(p) \/ (Kept /\ Settled(s, t))
      BY <1>1, <1>2, <3>4 DEF WorkGoesOn
    <3>6. CASE StaysMoving(p)
      <4>1. (Lies(c, s)' \/ Lies(c, t)') /\ (Lies(e, s)' \/ Lies(e, t)')
        BY <1>3, <3>4 DEF Kept, Borne
      <4> QED
        BY <1>6, <3>6, <4>1
    <3>7. CASE Kept /\ Settled(s, t)
      <4>1. PICK d \in {s, t} :
              \A a \in Saved' : Lies(a, s) \/ Lies(a, t) => Lies(a, d)'
        BY <3>7 DEF Settled
      <4> QED
        BY <1>7, <3>4, <4>1
    <3> QED
      BY <3>5, <3>6, <3>7
  <2> QED
    BY <2>1, <2>2, <2>3 DEF Gathered
<1> QED
  BY <1>4, <1>8 DEF WorkThere

(* and after any that leaves it where it is.                               *)
LEMMA LeftThere ==
  ASSUME WorkThere, WorkLike, killed \subseteq killed',
         \A p \in Procs : \A c, e \in Saved' :
           killed' = {} /\ Bears(p, c, e) => Bears(p, c, e)'
  PROVE  WorkThere'
<1>0. Saved' \subseteq Saved
  BY DEF WorkLike
<1>1. \A c \in Saved' : \E d \in DOMAIN tree' : Lies(c, d)'
  BY <1>0, LikeLies, LiesSomewhere DEF WorkThere
<1>2. ASSUME killed' = {}, NEW c \in Saved', NEW e \in Saved', c.of = e.of
      PROVE  Gathered(c, e)'
  <2>1. Gathered(c, e)
    BY <1>0, <1>2 DEF WorkThere
  <2>2. CASE \E d \in DOMAIN tree : Lies(c, d) /\ Lies(e, d)
    <3>1. PICK d \in DOMAIN tree : Lies(c, d) /\ Lies(e, d)
      BY <2>2
    <3>2. Lies(c, d)' /\ Lies(e, d)' /\ d \in DOMAIN tree'
      BY <3>1, LikeLies, LiesSomewhere
    <3> QED
      BY <3>2 DEF Gathered
  <2>3. CASE \E p \in Procs : Bears(p, c, e)
    BY <1>2, <2>3 DEF Gathered
  <2> QED
    BY <2>1, <2>2, <2>3 DEF Gathered
<1> QED
  BY <1>1, <1>2 DEF WorkThere

(* A step of a call that moves work keeps what the moves rest on,          *)
LEMMA WorkInvMover ==
  ASSUME LockInv, SettingsInv, TogetherFits, WorkInv, MovesApart' => MovesApart,
         NEW p \in Procs, Moving(p), SpaceStep(p)
  PROVE  WorkInv'
<1>1. /\ Same(p) /\ Laying(p) /\ Cmd(p)' = Cmd(p) /\ killed' = killed
      /\ \A q \in Procs \ {p} : run'[q] = run[q]
  BY MoverPlaces DEF Same
<1>2. TreeFits'
  BY <1>1, TreeFitsStep DEF WorkInv
<1>3. \A q \in Procs : ListsFit(q)'
  BY <1>1, ListsKeep, ListsStay DEF WorkInv
<1>4. ASSUME MovesApart', NEW q \in Procs
      PROVE  MoverFits(q)' /\ MenderFits(q)'
  <2>1. CASE q = p
    <3>1. MoverFits(p)'
      BY <1>4, MoverStep
    <3>2. Cmd(p)'.name # "health"
      BY <1>1 DEF Moving, Movers
    <3> QED
      BY <2>1, <3>1, <3>2 DEF MenderFits
  <2>2. CASE q # p
    <3>1. Running(q)' => Running(q)
      BY <1>1, <2>2, StillThere
    <3>2. Running(q)' => Cmd(q).name \notin Movers \cup {"health"}
      BY <1>4, <2>2, <3>1, OnlyMover
    <3>3. Cmd(q)' = Cmd(q)
      BY <1>1, <2>2, StillThere
    <3> QED
      BY <3>2, <3>3 DEF MoverFits, MenderFits, Moving
  <2> QED
    BY <2>1, <2>2
<1>5. MovesApart' => WorkThere'
  BY MovedThere
<1> QED
  BY <1>2, <1>3, <1>4, <1>5 DEF WorkInv, WorkThere

(* one of another call does,                                               *)
LEMMA WorkInvOther ==
  ASSUME LockInv, SettingsInv, TogetherFits, WorkInv, MovesApart' => MovesApart,
         NEW p \in Procs, Laying(p), SpaceStep(p), Cmd(p).name \notin Movers
  PROVE  WorkInv'
<1>1. /\ Same(p) /\ Cmd(p)' = Cmd(p) /\ killed' = killed /\ Saved' \subseteq Saved
      /\ \A q \in Procs \ {p} : run'[q] = run[q]
  BY SpaceIsSame, StepsKeepWork DEF Same, Cmd
<1>2. TreeFits'
  BY TreeFitsStep DEF WorkInv
<1>3. ASSUME NEW q \in Procs PROVE ListsFit(q)'
  <2>1. CASE q = p
    BY <1>1, <2>1 DEF ListsFit
  <2>2. CASE q # p
    BY <1>1, <2>2, ListsStay DEF WorkInv
  <2> QED
    BY <2>1, <2>2
<1>4. \/ WorkSame
      \/ /\ Now(p) = "regenerate state" /\ Cmd(p).name = "health"
         /\ tree' = WithFile(Here(p), "STATE.md", NewWork)
  BY OthersWork
<1>5. ASSUME MovesApart'
      PROVE  /\ \A q \in Procs : MoverFits(q)' /\ MenderFits(q)'
             /\ WorkThere'
  <2>1. /\ WorkThere /\ \A q \in Procs : MoverFits(q) /\ MenderFits(q)
        /\ TreeFits /\ MovesApart
    BY <1>5 DEF WorkInv, WorkThere
  <2>2. MoverFits(p)' /\ ~Moving(p)
    BY <1>1 DEF MoverFits, Moving
  <2>3. ASSUME ~WorkSame
        PROVE  WorkLike /\ \A q \in Procs : ~Moving(q) /\ ~Moving(q)'
    <3>1. Cmd(p).name = "health" /\ Running(p)
      BY <1>4, <2>3 DEF Laying
    <3>2. Now(p) = "regenerate state" /\ tree' = WithFile(Here(p), "STATE.md", NewWork)
      BY <1>4, <2>3
    <3>3. ~HasWork(Here(p), "STATE.md")
      BY <2>1, <3>1, <3>2 DEF MenderFits, Regenerating
    <3>4. NewWork \notin Saved
      BY <2>1, NewIsNoWork
    <3>5. WorkLike
      BY <1>1, <3>2, <3>3, <3>4, WrittenWork
    <3>6. ASSUME NEW q \in Procs PROVE ~Moving(q)
      <4>1. q # p => ~Moving(q)
        BY <2>1, <3>1, OnlyMover
      <4> QED
        BY <2>2, <4>1
    <3>7. ASSUME NEW q \in Procs PROVE Moving(q)' => Moving(q)
      <4>1. q = p => ~Moving(q)'
        BY <1>1 DEF Moving
      <4>2. q # p => (Moving(q)' => Moving(q))
        BY <1>1, StillThere DEF Moving
      <4> QED
        BY <4>1, <4>2
    <3> QED
      BY <3>5, <3>6, <3>7
  <2>4. WorkLike
    BY <1>1, <2>3, SameWork
  <2>5. MenderFits(p)'
    BY <2>1, <2>4, MenderStep
  <2>6. ASSUME NEW q \in Procs \ {p} PROVE MoverFits(q)' /\ MenderFits(q)'
    <3>1. MenderFits(q)'
      BY <1>1, <2>1, <2>4, <2>6, MendersStay
    <3>2. CASE WorkSame
      BY <1>1, <2>1, <2>6, <3>1, <3>2, MoversStay
    <3>3. CASE ~WorkSame
      BY <2>3, <3>1, <3>3 DEF MoverFits
    <3> QED
      BY <3>2, <3>3
  <2>7. ASSUME NEW q \in Procs, NEW c \in Saved', NEW e \in Saved', Bears(q, c, e)
        PROVE  Bears(q, c, e)'
    <3>1. Moving(q) /\ q # p
      BY <2>2, <2>7 DEF Bears
    <3>2. WorkSame
      BY <2>3, <3>1
    <3> QED
      BY <1>1, <2>7, <3>1, <3>2, MoversStay
  <2>8. WorkThere'
    BY <1>1, <2>1, <2>4, <2>7, LeftThere
  <2> QED
    BY <2>2, <2>5, <2>6, <2>8
<1> QED
  BY <1>2, <1>3, <1>5 DEF WorkInv, WorkThere

(* and whatever else happens to the call q does.                           *)
LEMMA AsideMoves ==
  ASSUME LockInv, WorkSame, Saved' \subseteq Saved, told' = told, NEW q \in Procs, LeavesBe(q),
         killed \subseteq killed', Cmd(q)' = Cmd(q), ListsFit(q)
  PROVE  /\ ListsFit(q)'
         /\ MoverFits(q) => MoverFits(q)'
         /\ MenderFits(q) => MenderFits(q)'
         /\ \A c, e \in Saved' : killed' = {} /\ Bears(q, c, e) => Bears(q, c, e)'
<1>1. Formed /\ DOMAIN run = Procs /\ DOMAIN run[q] = Fields /\ run[q].at \in Nat /\ WorkLike
  BY SameWork DEF LockInv, Formed, CallFormed
<1>2. CASE run'[q] = run[q]
  <2>1. killed' = {} => killed' = killed
    OBVIOUS
  <2> QED
    BY <1>1, <1>2, <2>1, ListsStay, MoversStay, MendersStay
<1>3. CASE Opens(q)
  <2>1. run[q].at = 0 /\ run' = [run EXCEPT ![q].at = @ + 1]
    BY <1>3 DEF Opens, Call, Go
  <2>2. run'[q].at = 1 /\ run'[q].todo = run[q].todo /\ run'[q].moved = run[q].moved
    BY <1>1, <2>1, FieldsAre
  <2>3. ~Moving(q)
    BY <2>1 DEF Moving, Running, Started
  <2>4. ListsFit(q)'
    BY <1>1, <2>1, <2>2 DEF ListsFit
  <2>5. ASSUME Cmd(q).name \in SpaceCommands
        PROVE  Now(q)' \in {"route", "look for stream"}
    <3>1. PICK x, y : Linked(Cmd(q).name, Program[Cmd(q).name], x, y)
                       /\ x \in {"route", "look for stream"}
      BY <2>5, SpaceLinks
    <3> QED
      BY <2>2, <3>1 DEF Linked, Now, Steps, Cmd
  <2>6. {"health"} \cup Movers \subseteq SpaceCommands
    BY CommandsAre DEF Movers
  <2>7. MoverFits(q)'
    <3>1. ASSUME Moving(q)' PROVE Now(q)' \in {"route", "look for stream"}
      BY <2>5, <2>6, <3>1 DEF Moving
    <3> QED
      BY <3>1 DEF MoverFits, Placed, Carrying
  <2>8. MenderFits(q)'
    BY <2>5, <2>6 DEF MenderFits, Regenerating
  <2> QED
    BY <2>3, <2>4, <2>7, <2>8 DEF Bears
<1>4. CASE Running(q) /\ Cmd(q).name \notin SpaceCommands
  <2>1. Cmd(q).name \notin {"health"} \cup Movers
    BY <1>4, CommandsAre DEF Movers
  <2> QED
    BY <2>1 DEF ListsFit, MoverFits, MenderFits, Bears, Moving
<1>5. CASE AtALockOnly(q)
  <2>1. /\ Running(q) /\ OneMoves(q) /\ Now(q) \in LockSteps /\ Hands(q)
        /\ run'[q].todo = run[q].todo
        /\ run'[q].at \in {run[q].at, run[q].at + 1} \/ ~Running(q)'
    BY <1>5 DEF AtALockOnly
  <2>2. ~Moving(q)
    <3>1. SUFFICES ASSUME Moving(q) PROVE FALSE
      OBVIOUS
    <3>2. Now(q) \in MovingSteps
      BY <1>1, <2>1, <3>1, WhereMoving DEF OneMoves
    <3> QED
      BY <2>1, <3>2 DEF LockSteps, MovingSteps
  <2>3. Cmd(q).name \notin Movers
    BY <2>1, <2>2 DEF Moving
  <2>4. MenderFits(q) => MenderFits(q)'
    <3>0. SUFFICES ASSUME Running(q)' PROVE MenderFits(q) => MenderFits(q)'
      BY DEF MenderFits
    <3>1. CASE Laying(q)
      <4>1. Same(q)
        BY <1>1, <2>1, StepLeads DEF OneMoves, Same
      <4>2. Now(q) \notin Deciding
        BY <2>1 DEF LockSteps, Deciding
      <4>3. Carried(q)
        BY <1>1, <2>1, <3>0, <3>1, <4>1, <4>2, GoingIsCarried
      <4> QED
        BY <1>1, <3>1, <4>3, CarriedMends
    <3>2. CASE ~Laying(q)
      <4>1. Cmd(q).name # "health"
        BY <2>1, <3>2, CommandsAre DEF Laying
      <4> QED
        BY <4>1 DEF MenderFits
    <3> QED
      BY <3>1, <3>2
  <2> QED
    BY <2>2, <2>3, <2>4 DEF ListsFit, MoverFits, Moving, Bears
<1> QED
  BY <1>2, <1>3, <1>4, <1>5 DEF LeavesBe

(* So every step keeps it;                                                 *)
LEMMA WorkInvStep ==
  ASSUME LockInv, TogetherFits, SettingsInv, WorkInv, [Next]_vars
  PROVE  WorkInv'
<1>1. MovesApart' => MovesApart
  BY TogetherStep DEF MovesApart
<1>2. ASSUME NEW p \in Procs, Laying(p), SpaceStep(p)
      PROVE  WorkInv'
  <2>1. Moving(p) \/ Cmd(p).name \notin Movers
    BY <1>2 DEF Moving, Laying
  <2> QED
    BY <1>1, <1>2, <2>1, WorkInvMover, WorkInvOther
<1>3. CASE Aside
  <2>1. /\ tree' = tree /\ work' = work /\ told' = told /\ killed \subseteq killed'
        /\ \A q \in Procs : LeavesBe(q) /\ Cmd(q)' = Cmd(q)
        /\ Saved' \subseteq Saved
    BY <1>3, RunsOn DEF Aside, layoutVars, space, Saved
  <2>2. WorkSame /\ WorkLike
    BY <2>1, SameWork
  <2>3. TreeFits'
    BY <2>1 DEF WorkInv, TreeFits, Exists
  <2>4. ASSUME NEW q \in Procs
        PROVE  /\ ListsFit(q)'
               /\ MoverFits(q) => MoverFits(q)'
               /\ MenderFits(q) => MenderFits(q)'
               /\ \A c, e \in Saved' : killed' = {} /\ Bears(q, c, e) => Bears(q, c, e)'
    BY <2>1, <2>2, AsideMoves DEF WorkInv
  <2>5. ASSUME MovesApart' PROVE WorkThere'
    <3>1. WorkThere
      BY <1>1, <2>5 DEF WorkInv, WorkThere
    <3> QED
      BY <2>1, <2>2, <2>4, <3>1, LeftThere
  <2>6. ASSUME MovesApart', NEW q \in Procs PROVE MoverFits(q)' /\ MenderFits(q)'
    BY <1>1, <2>4, <2>6 DEF WorkInv
  <2> QED
    BY <2>3, <2>4, <2>5, <2>6 DEF WorkInv, WorkThere
<1> QED
  BY <1>2, <1>3, StepsOfSettings

(* at the start all work is where it belongs;                              *)
LEMMA WorkInvInit == Init => WorkInv
<1> SUFFICES ASSUME Init PROVE WorkInv
  OBVIOUS
<1>1. PICK w \in Sessions : SpaceInit(w.space) /\ ProcessInit(w.calls)
  BY DEF Init
<1>2. /\ tree = w.space.tree /\ work = w.space.work /\ Saved = work
      /\ \A p \in Procs : run[p].at = 0 /\ run[p].todo = <<>> /\ run[p].moved = <<>>
  BY <1>1 DEF SpaceInit, ProcessInit, ToCall, Saved
<1>3. /\ IsFiniteSet(DOMAIN tree)
      /\ \A d \in DOMAIN tree : IsFiniteSet(DOMAIN tree[d]) /\ (d = Workstreams => tree[d] = <<>>)
      /\ \A c, e \in work :
           /\ "of" \in DOMAIN c
           /\ c.of = e.of =>
                \E d \in DOMAIN tree :
                  \A x \in {c, e} : \E f \in ToSet(WorkFiles) \cap DOMAIN tree[d] : tree[d][f] = x
  BY <1>2, SessionsAssumption
<1>4. TreeFits
  <2>1. \A c \in work : "of" \in DOMAIN c
    BY <1>3
  <2> QED
    BY <1>3, <2>1 DEF TreeFits, Exists
<1>5. \A p \in Procs : ~Running(p)
  BY <1>2 DEF Running, Started
<1>6. \A p \in Procs : ListsFit(p) /\ MoverFits(p) /\ MenderFits(p)
  <2>1. <<>> \in Seq(ToSet(<<>>))
    OBVIOUS
  <2> QED
    BY <1>2, <1>5, <2>1 DEF ListsFit, MoverFits, MenderFits, Moving
<1>7. ASSUME NEW c \in work, NEW e \in work, c.of = e.of
      PROVE  \E d \in DOMAIN tree : Lies(c, d) /\ Lies(e, d)
  <2>1. PICK d \in DOMAIN tree :
          \A x \in {c, e} : \E f \in ToSet(WorkFiles) \cap DOMAIN tree[d] : tree[d][f] = x
    BY <1>3, <1>7
  <2>2. \A x \in {c, e} : Lies(x, d)
    BY <2>1, FilesOfWork DEF Lies, Has, Exists
  <2> QED
    BY <2>2
<1>8. \A c \in work : \E d \in DOMAIN tree : Lies(c, d)
  BY <1>7
<1>9. \A c, e \in work : c.of = e.of => Gathered(c, e)
  BY <1>7 DEF Gathered
<1> QED
  BY <1>2, <1>4, <1>6, <1>8, <1>9 DEF WorkInv

(* and when no call runs, it is gathered in one place.                     *)
LEMMA WorkInvKeeps == WorkInv => WorkIsKept
<1> DEFINE In(c, d) == \E f \in DOMAIN tree[d] : tree[d][f] = c
<1> SUFFICES ASSUME WorkInv, MovesApart
             PROVE  /\ \A c \in Saved : \E d \in DOMAIN tree : In(c, d)
                    /\ (Quiet /\ killed = {}) =>
                         \A c, e \in Saved : c.of = e.of =>
                           \E d \in DOMAIN tree : In(c, d) /\ In(e, d)
  BY DEF WorkIsKept, MovesApart, Saved
<1>1. \A c, d : Lies(c, d) => In(c, d)
  BY DEF Lies, Has, Exists
<1>2. \A c \in Saved : \E d \in DOMAIN tree : In(c, d)
  <2>1. \A c \in Saved : \E d \in DOMAIN tree : Lies(c, d)
    BY DEF WorkInv
  <2> QED
    BY <1>1, <2>1
<1>3. ASSUME Quiet, killed = {}, NEW c \in Saved, NEW e \in Saved, c.of = e.of
      PROVE  \E d \in DOMAIN tree : In(c, d) /\ In(e, d)
  <2>1. \A p \in Procs : ~Bears(p, c, e)
    BY <1>3 DEF Quiet, Bears, Moving
  <2>2. \E d \in DOMAIN tree : Lies(c, d) /\ Lies(e, d)
    BY <1>3, <2>1 DEF WorkInv, Gathered
  <2> QED
    BY <1>1, <2>2
<1> QED
  BY <1>2, <1>3

(* No work is lost by create and complete: a file is in some directory,    *)
(* whatever was killed, failed or rolled back, and between calls, if none  *)
(* was killed, what belongs together is in one, unless two that move or    *)
(* regenerate files overlapped; but for a file whose way back failed in a  *)
(* rollback too.  For any number of calls, files and faults.               *)
THEOREM WorkIsSafe == Spec => []WorkIsKept
<1>1. WorkInv => WorkIsKept
  BY WorkInvKeeps
<1>2. Init => TogetherFits /\ SettingsInv /\ WorkInv
  BY SettingsInvInit, WorkInvInit
<1>3. LockInv /\ TogetherFits /\ SettingsInv /\ WorkInv /\ [Next]_vars
        => TogetherFits' /\ SettingsInv' /\ WorkInv'
  BY WorkInvStep, SettingsInvStep, TogetherStep
<1> QED
  BY <1>1, <1>2, <1>3, LocksAreOwned, PTL DEF Spec
=============================================================================
