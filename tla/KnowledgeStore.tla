------------------------------ MODULE KnowledgeStore ----------------------------
(***************************************************************************)
(* gsd-tools learnings (.opencode/get-shit-done/bin/lib/learnings.cjs):    *)
(* what all projects of a user have learnt, one file each in               *)
(* ~/.gsd/knowledge.  copy stores the sections of a project's LEARNINGS.md *)
(* that are not there yet, prune unlinks the old files and delete one.     *)
(* Nothing is locked; a file is created and then filled, a write may fail, *)
(* and a file that does not parse is passed over.                          *)
(* Mutants stand above what they mutate.                                   *)
(***************************************************************************)
EXTENDS PlanningProcess

VARIABLES
    library,        \* the files: [text, aged], text being Malformed or [project, lesson]
    taught          \* history: the learnings a copy reported, unless removed since

knowledgeVars == <<library, taught>>

Malformed == [project |-> Nothing, lesson |-> Nothing]

(* A hash of the lesson and the project it comes from. *)
ContentHashOfLesson(text) == text.lesson
ContentHash(text) == text

LearningsList(files) == {files[f].text : f \in {g \in DOMAIN files : files[g].text # Malformed}}

KnowledgeInit(l) == library = l /\ taught = LearningsList(l)

Lesson(p) == [project |-> Cmd(p).project, lesson |-> Head(run[p].todo)]
Without(f) == [g \in DOMAIN library \ {f} |-> library[g]]

\* Each section a call stores has a file of its own.
NewFile(p) == <<p, Len(run[p].todo)>>
Stored(f, text) ==
  [g \in DOMAIN library \cup {f} |->
     IF g = f THEN [text |-> text, aged |-> FALSE] ELSE library[g]]

(* The next section, if there is one, in a new scan of the directory. *)
NextSection(p) ==
  run' = [run EXCEPT ![p].todo = Tail(@),
                     ![p].at = IF Len(run[p].todo) = 1 THEN Len(Steps(p)) + 1
                               ELSE StepNo(p, "scan library")]

ListLibrary(p) ==
  /\ At(p, "scan library") \/ At(p, "list old")
  /\ run' = [run EXCEPT ![p].at = @ + 1, ![p].dirs = DOMAIN library,
                        ![p].todo = IF Is(p, {"copy"}) /\ @ = <<>> THEN Cmd(p).lessons ELSE @]
  /\ UNCHANGED <<knowledgeVars, locks, history>>

(* learningsWrite reads file by file until one has the same hash; one that *)
(* is gone or torn is passed over.                                         *)
ReadLearning(p) ==
  /\ At(p, "read learning")
  /\ \/ /\ run[p].dirs = {} /\ Go(p)
        /\ UNCHANGED taught
     \/ \E f \in run[p].dirs :
          IF f \in DOMAIN library /\ library[f].text # Malformed
               /\ ContentHash(library[f].text) = ContentHash(Lesson(p))
            THEN NextSection(p) /\ taught' = taught \cup {Lesson(p)}
            ELSE /\ run' = [run EXCEPT ![p].dirs = @ \ {f}]
                 /\ UNCHANGED taught
  /\ UNCHANGED <<library, locks, history>>

CreateLearning(p) ==
  /\ At(p, "create learning")
  /\ library' = Stored(NewFile(p), Malformed)
  /\ Go(p)
  /\ UNCHANGED <<taught, locks, history>>

FillLearning(p) ==
  /\ At(p, "fill learning")
  /\ library' = Stored(NewFile(p), Lesson(p))
  /\ taught' = taught \cup {Lesson(p)}
  /\ NextSection(p)
  /\ UNCHANGED <<locks, history>>

LearningFails(p) ==
  /\ At(p, "create learning") \/ At(p, "fill learning")
  /\ Fault /\ Stop(p)
  /\ UNCHANGED <<knowledgeVars, locks, killed, usurped, together, lost>>

(* prune looks at one file after the other. *)
LookAtOld(p) ==
  /\ At(p, "look at old")
  /\ \/ run[p].dirs = {} /\ Stop(p)
     \/ \E f \in run[p].dirs :
          IF f \in DOMAIN library /\ library[f].text # Malformed /\ library[f].aged
            THEN run' = [run EXCEPT ![p].at = @ + 1, ![p].kept = f]
            ELSE run' = [run EXCEPT ![p].dirs = @ \ {f}]
  /\ UNCHANGED <<knowledgeVars, locks, history>>

FindLearning(p) ==
  /\ At(p, "find learning")
  /\ IF library = <<>> THEN Stop(p)
     ELSE \E f \in DOMAIN library : GoWith(p, "kept", f)
  /\ UNCHANGED <<knowledgeVars, locks, history>>

(* A file someone else has unlinked by now ends the command. *)
UnlinkLearning(p) ==
  /\ At(p, "unlink learning")
  /\ LET f == run[p].kept
     IN  IF f \notin DOMAIN library THEN Stop(p) /\ UNCHANGED knowledgeVars
         ELSE /\ library' = Without(f)
              /\ taught' = taught \ (IF library[f].text \in LearningsList(Without(f)) THEN {}
                                     ELSE {library[f].text})
              /\ IF Is(p, {"purge"})
                   THEN run' = [run EXCEPT ![p].at = StepNo(p, "look at old"),
                                           ![p].dirs = @ \ {f}]
                   ELSE Go(p)
  /\ UNCHANGED <<locks, history>>

KnowledgeStep(p) ==
  \/ ListLibrary(p) \/ ReadLearning(p) \/ CreateLearning(p) \/ FillLearning(p)
  \/ LearningFails(p) \/ LookAtOld(p) \/ FindLearning(p) \/ UnlinkLearning(p)

(* Safety: what a copy reported as stored can be read until it is pruned   *)
(* or deleted, whoever was killed or failed in the middle of a write; and  *)
(* copies that did not overlap keep it once.                               *)
KnowledgeIsKept ==
  /\ taught \subseteq LearningsList(library)
  /\ Apart({"copy"}, {"copy"}) =>
       \A f, g \in DOMAIN library :
         library[f].text # Malformed /\ library[f].text = library[g].text => f = g
================================================================================
