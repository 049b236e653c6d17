---------------------------- MODULE PlanningProject ----------------------------
(***************************************************************************)
(* A project's .planning/ directory and the processes that work on it:     *)
(* PlanningTool's commands on the phases, PlanningSpace's on the layout    *)
(* and the settings, behind the same locks, ProfileTool's on the models of *)
(* the agents and KnowledgeStore's on what all projects have learnt.       *)
(***************************************************************************)
EXTENDS PlanningTool, PlanningSpace, ProfileTool, KnowledgeStore

CONSTANT Sessions   \* the projects, and what is called on them

(* A call is one of the commands; the workstream it names, and the ones    *)
(* the session keys point to, have names of workstreams; work says whose   *)
(* it is, what belongs together is in one directory, and workstreams/ has  *)
(* only directories; a directory of a phase has what PlanningFiles says,   *)
(* and STATE.md has its lists.  A profile says what gsd's agents run on,   *)
(* and they do.  A copy has sections to store; a learning is there once,   *)
(* in a file no call has named.                                            *)
ASSUME SessionsAssumption ==
  \A w \in Sessions :
    /\ "entries" \in DOMAIN w.phases.state
    /\ \A d \in w.phases.disk \cup w.phases.archive :
         {"num", "slug", "plans", "sums", "notes"} \subseteq DOMAIN d
    /\ \A k \in DOMAIN w.space.pointer : w.space.pointer[k] \in Streams \cup {Nothing}
    /\ \A s \in Streams :
         Workstream(s) \in DOMAIN w.space.tree => Workstreams \in DOMAIN w.space.tree
    /\ IsFiniteSet(DOMAIN w.space.tree)
    /\ \A d \in DOMAIN w.space.tree :
         IsFiniteSet(DOMAIN w.space.tree[d]) /\ (d = Workstreams => w.space.tree[d] = <<>>)
    /\ \A c, e \in w.space.work :
         /\ "of" \in DOMAIN c
         /\ c.of = e.of =>
              \E d \in DOMAIN w.space.tree :
                \A x \in {c, e} : \E f \in ToSet(WorkFiles) \cap DOMAIN w.space.tree[d] :
                  w.space.tree[d][f] = x
    /\ \A p \in Procs :
         w.calls[p] # Nothing =>
           /\ w.calls[p].name \in Commands
           /\ w.calls[p].name \in SpaceCommands =>
                /\ {w.calls[p].stream, w.calls[p].into} \subseteq Streams \cup {Nothing}
                /\ w.calls[p].key \in DOMAIN w.space.pointer
                /\ w.calls[p].setting \notin InternalKeys \cup DOMAIN Torn
           /\ w.calls[p].name \in Movers => w.calls[p].stream \in Streams
           /\ w.calls[p].name = "copy" =>
                /\ w.calls[p].project # Nothing
                /\ w.calls[p].lessons \in Seq(ToSet(w.calls[p].lessons)) \ {<<>>}
    /\ Readable(w.profiles, "oc") =>
         /\ {"current", "presets"} \subseteq DOMAIN w.profiles.oc
         /\ \A n \in DOMAIN w.profiles.oc.presets : DOMAIN w.profiles.oc.presets[n] \subseteq Kinds
    /\ Readable(w.profiles, "opencode") =>
         {"agent", "allowed"} \subseteq DOMAIN w.profiles.opencode
    /\ AgentsFollow(w.profiles)
    /\ \A f \in DOMAIN w.library : f[1] \notin Procs
    /\ \A f, g \in DOMAIN w.library :
         w.library[f].text # Malformed /\ w.library[f].text = w.library[g].text => f = g

phaseVars == <<files, recorded>>
layoutVars == <<space, told, work>>
vars == <<phaseVars, layoutVars, profileVars, knowledgeVars, locks, run, history>>

Init ==
  \E w \in Sessions :
    /\ PhaseInit(w.phases) /\ SpaceInit(w.space) /\ ProfileInit(w.profiles)
    /\ KnowledgeInit(w.library)
    /\ ProcessInit(w.calls)

Step(p) ==
  /\ Running(p)
  /\ \/ /\ LockStep(p) /\ ~InVain(p)
        /\ UNCHANGED <<phaseVars, layoutVars, profileVars, knowledgeVars>>
     \/ /\ Is(p, PhaseCommands) /\ PhaseStep(p)
        /\ UNCHANGED <<layoutVars, profileVars, knowledgeVars>>
     \/ /\ Is(p, SpaceCommands) /\ SpaceStep(p)
        /\ UNCHANGED <<phaseVars, profileVars, knowledgeVars>>
     \/ /\ Is(p, ProfileCommands) /\ ProfileStep(p)
        /\ UNCHANGED <<phaseVars, layoutVars, knowledgeVars>>
     \/ /\ Is(p, KnowledgeCommands) /\ KnowledgeStep(p)
        /\ UNCHANGED <<phaseVars, layoutVars, profileVars>>

Next ==
  \/ \E p \in Procs : Step(p)
  \/ /\ \/ \E p \in Procs : Call(p) \/ Kill(p)
        \/ \E l \in Locks : Age(l)
     /\ UNCHANGED <<phaseVars, layoutVars, profileVars, knowledgeVars>>

(* While a process can take a step, some process does; no turns are assumed. *)
Fairness == WF_vars(\E p \in Procs : Step(p))

Spec == Init /\ [][Next]_vars /\ Fairness

(* Liveness: every command that is called ends, whoever was killed inside *)
(* a lock: there comes a time from which on no process runs.              *)
EveryCommandEnds == <>[]Quiet
================================================================================
