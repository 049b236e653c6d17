--------------------------- MODULE MCFindingTriage --------------------------
(* Small files and findings for FindingTriage. *)
EXTENDS FindingTriage

(* Lines 1 to 3 and 8 to 9 each lie in a function; the file has ten lines. *)
MCSymbolAt == [l \in 1..12 |-> IF l <= 3 THEN "f" ELSE IF l \in 8..9 THEN "g" ELSE NoSymbol]
MCHunk == <<1, 5>>
InSnapshot(status, lines, changed) == [status |-> status, lines |-> lines, changed |-> changed]
MCSnapshot ==
    [this  |-> InSnapshot("changed", 10, {2, 3}),
     pruned |-> InSnapshot("changed", 4, {}),
     other |-> InSnapshot("unchanged", 4, {}),
     gone  |-> InSnapshot("deleted", 0, {}),
     lock  |-> InSnapshot("excluded", 9, {}),
     fancy |-> InSnapshot("absent", 0, {})]

Evidence(file, line, linked) == [file |-> file, line |-> line, linked |-> linked]
On(line) == Evidence("this", line, FALSE)

Plain == [start |-> 2, end |-> 2, title |-> "a", category |-> "security",
          severity |-> 5, confidence |-> 80, length |-> 1, evidence |-> <<On(2)>>,
          reviewers |-> {"structural"}, signs |-> {},
          contradicted |-> FALSE, attribution |-> "introduced_by_patch",
          criticDecision |-> "approved"]

At(f, lines) == [f EXCEPT !.start = lines[1], !.end = lines[2]]

(* What the reviewers find: overlapping and separate lines, a range whose   *)
(* end lies before its start, and one that bridges two others.              *)
Seen(lines) ==
    CASE lines = <<4, 6>> -> {"benign"} [] lines = <<6, 5>> -> {"generic fix"}
      [] lines = <<9, 9>> -> {"deliberate"} [] OTHER -> {}
RawFindings ==
    {At([Plain EXCEPT !.reviewers = {k.by}, !.severity = k.sev,
                      !.confidence = k.conf, !.evidence = k.ev,
                      !.signs = Seen(lines)], lines) :
        lines \in {<<1, 2>>, <<2, 4>>, <<4, 6>>, <<6, 5>>, <<9, 9>>},
        k \in {[by |-> "structural", sev |-> 5, conf |-> 50, ev |-> <<On(2)>>],
               [by |-> "semantic",   sev |-> 2, conf |-> 90, ev |-> <<On(12), Evidence("other", 3, TRUE)>>],
               [by |-> "security",   sev |-> 3, conf |-> 80, ev |-> << >>]}}

(* What the critic may answer: lists that differ in lines, titles and       *)
(* severities, and pairs that differ in everything the gate looks at.       *)
Structured ==
    {At([Plain EXCEPT !.title = t, !.severity = s,
                      !.category = IF t = "a" THEN "security" ELSE "performance"], lines) :
        t \in {"a", "b", "c"}, s \in {5, 3},
        lines \in {<<1, 2>>, <<2, 2>>, <<5, 5>>, <<8, 9>>}}

Judged ==
    {At([Plain EXCEPT !.severity = s, !.criticDecision = d, !.attribution = p,
                      !.confidence = c, !.evidence = ev,
                      !.contradicted = (p = "unknown" /\ ev = <<On(2)>>)], lines) :
        s \in {5, 1}, d \in {"approved", "rejected", "uncertain"},
        p \in {"introduced_by_patch", "pre_existing", "unknown"},
        c \in {50, 90},
        ev \in {<<On(2)>>, <<On(8)>>, <<On(2), On(12)>>, <<On(2), Evidence("lock", 1, TRUE)>>,
                <<Evidence("other", 3, TRUE), Evidence("other", 3, FALSE)>>,
                <<Evidence("other", 5, TRUE)>>, <<Evidence("fancy", 1, TRUE)>>,
                <<Evidence("gone", 1, FALSE)>>, <<Evidence("pruned", 4, FALSE)>>},
        lines \in {<<1, 2>>, <<8, 9>>, <<12, 12>>}}

AllAnswers ==
    BoundedSeq(Structured, 3)
        \cup {<<[Plain EXCEPT !.signs = {sign}]>> : sign \in Signs} \cup {<<f>> : f \in Judged}
        \cup {<<f, g>> : f \in Judged, g \in {[Plain EXCEPT !.severity = 4],
                                              [Plain EXCEPT !.criticDecision = "rejected"]}}

(* Every answer to one list of candidates, one answer to all the others. *)
MCAnswers(found) ==
    IF found = <<Plain>> THEN AllAnswers
    ELSE {<<Plain>>}
MCRawSeqs == BoundedSeq(RawFindings, 3) \cup {<<Plain>>}
=============================================================================
