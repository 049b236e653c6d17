---------------------------- MODULE ReviewTriggers ---------------------------
(***************************************************************************)
(* What the reviewer DAG makes of a change before it calls the model       *)
(* (review/heuristics.ts): whether any reviewer runs at all, and which     *)
(* conditional ones.                                                       *)
(*                                                                         *)
(* A changed file is abstracted to the set of things the heuristics see in *)
(* its path and in the symbols of the index, the diff to what they see in  *)
(* its added lines and in its text.                                        *)
(***************************************************************************)
EXTENDS FiniteSets

FileSigns ==
    {"documentation", "test", "executable",     \* by its name and directory
     "dependency",                              \* a manifest, lock or .env file
     "touched function",    \* a function or method that a hunk intersects
     "sensitive symbol"}    \* a symbol whose name the security pattern matches
DiffSigns == {"control flow", "sensitive"}

(* Changes of one file or two (an empty scope never reaches the DAG).      *)
Changes ==
    [files : {{f, g} : f, g \in SUBSET FileSigns}, diff : SUBSET DiffSigns]

IsDocumentationFile(file) == "documentation" \in file
IsTestFile(file) == "test" \in file

(* The fast path: nothing but documentation and tests has changed.         *)
AllDocOrTest(change) ==
    \A file \in change.files : IsDocumentationFile(file) \/ IsTestFile(file)

(* A function of a source file was touched, or one was changed and some    *)
(* added line, of whatever file, has control flow.                         *)
ShouldTriggerSemanticReviewer(change) ==
    LET codeFiles == {file \in change.files : "executable" \in file}
    IN  /\ codeFiles # {}
        /\ \/ \E file \in codeFiles : "touched function" \in file
           \/ "control flow" \in change.diff

ShouldTriggerSecurityReviewer(change) ==
    \/ \E file \in change.files : "dependency" \in file \/ "sensitive symbol" \in file
    \/ "sensitive" \in change.diff

TriggeredReviewers(change) ==
    {"structural"}
        \cup (IF ShouldTriggerSemanticReviewer(change) THEN {"semantic"} ELSE {})
        \cup (IF ShouldTriggerSecurityReviewer(change) THEN {"security"} ELSE {})

(* What the DAG goes by: all that distinguishes two changes to it.         *)
Plans ==
    {[docOnly |-> AllDocOrTest(change), triggered |-> TriggeredReviewers(change)] :
        change \in Changes}
=============================================================================
