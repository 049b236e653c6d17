--------------------------- MODULE MCReviewCommand --------------------------
(* The review command on a small instance: configurations whose layers speak *)
(* of one setting, of both or of none, and whose files are missing, invalid  *)
(* or out of reach.                                                          *)
EXTENDS ReviewCommand, TLC

FailOn(value) == [failOn |-> value]
Both(value) == [failOn |-> value, maxFindings |-> "10"]
MaxFindingsOnly == [maxFindings |-> "10"]
NoOption == Nothing("no option")
Up(file) == <<Nothing("directory"), file>>

MCSources ==
    [config : {NoOption},
     dirs : {Up(Nothing("none")), Up(Nothing("inaccessible")),
             Up(Yaml(TRUE, FailOn("high"))), Up(Yaml(TRUE, MaxFindingsOnly)),
             <<Yaml(TRUE, Silent), Yaml(FALSE, Silent)>>, Up(Yaml(FALSE, FailOn("high")))},
     global : {Nothing("none"), Nothing("unreadable"), Yaml(FALSE, Both("none")),
               Yaml(FALSE, Both(Invalid))},
     env : {Silent, FailOn("medium"), FailOn(Invalid), ("other section" :> Invalid), ("unknown key" :> "1")},
     cli : {Silent, FailOn("off"), FailOn(Invalid)}]
    \cup
    [config : {Nothing("none"), Nothing("unreadable"), Yaml(TRUE, FailOn("low"))},
     dirs : {Up(Yaml(TRUE, FailOn("high")))},
     global : {Yaml(FALSE, FailOn("none"))}, env : {Silent}, cli : {Silent, FailOn("off")}]
=============================================================================
