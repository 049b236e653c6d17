--------------------------- MODULE MCReviewContext --------------------------
(* Instances of ReviewContext for TLC. *)
EXTENDS ReviewContext

Declaration(kind, name, line, last, exported, bases) ==
    [kind |-> kind, name |-> name, line |-> line, last |-> last, exported |-> exported, bases |-> bases]
File(dir, package, inTests, namedTest, length, mirrors, declarations) ==
    [dir |-> dir, package |-> package, inTests |-> inTests, namedTest |-> namedTest,
     length |-> length, mirrors |-> mirrors, declarations |-> declarations]
Base(kind, name) == [kind |-> kind, name |-> name]

(* packages/x/core.ts, its neighbour, a file of the same package, and the  *)
(* test of core.ts; core.ts has two declarations of one name and kind.     *)
MCProject ==
    [core |-> File("x", "x", FALSE, FALSE, 8, <<>>,
                << Declaration("interface", "Shape", 1, 1, TRUE, <<>>),
                   Declaration("function", "run", 2, 4, TRUE, <<>>),
                   Declaration("function", "run", 6, 7, TRUE, <<>>) >>),
     near |-> File("x", "x", FALSE, FALSE, 4, <<>>,
                << Declaration("class", "Box", 1, 4, TRUE, << Base("interface", "Shape") >>),
                   Declaration("function", "use", 3, 3, FALSE, <<>>) >>),
     far  |-> File("y", "x", FALSE, FALSE, 3, <<>>,
                << Declaration("function", "other", 2, 2, FALSE, <<>>) >>),
     test |-> File("x", "x", TRUE, TRUE, 5, << "core", "test" >>,
                << Declaration("variable", "check", 5, 5, FALSE, <<>>) >>)]

Hunk(f, start, count) == [file |-> f, start |-> start, count |-> count]
MCDiffs ==
    {t \o c \o n \o f :
        t \in { <<>>, << Hunk("test", 1, 1) >>, << Hunk("test", 4, 2) >> },
        c \in { << Hunk("core", 4, 1) >>, << Hunk("core", 1, 2) >>, << Hunk("core", 1, 0), Hunk("core", 6, 2) >> },
        n \in { <<>>, << Hunk("near", 2, 0) >>, << Hunk("near", 1, 4) >> },
        f \in { <<>>, << Hunk("far", 1, 3) >> } }

Name(name, alias) == [name |-> name, alias |-> alias]
Import(oneLine, tries, package, names) ==
    [oneLine |-> oneLine, tries |-> tries, package |-> package, names |-> names]
(* far.ts imports core.ts through the name of its package, whose directory *)
(* the name stands for if it has no index file; in one choice the import   *)
(* of near.ts is spread over several lines.                                *)
MCImports ==
    {[core |-> <<>>, near |-> << Import(o, << "core.js", "core" >>, "none", n) >>,
      far  |-> << Import(TRUE, t, "@p/x", << Name("run", "go") >>) >>,
      test |-> << Import(TRUE, << "core" >>, "none", << Name("run", "run") >>),
                  Import(TRUE, << "near" >>, "none", << Name("Box", "Box") >>) >>] :
        <<o, n, t>> \in { <<TRUE, << Name("Shape", "Shape"), Name("run", "run") >>, << "index", "core" >> >>,
                          <<TRUE, << Name("run", "run"), Name("run", "go") >>, << "index", "core" >> >>,
                          <<FALSE, << Name("run", "run") >>, << "index" >> >> }}
(* The package is a workspace, or a negative pattern takes it out again.   *)
Manifest(excluded) ==
    [matched |-> {"packages/x", "packages/y"}, excluded |-> excluded,
     names |-> [dir \in {"packages/x", "packages/y"} |-> IF dir = "packages/x" THEN "@p/x" ELSE "none"]]
MCManifests == {Manifest({}), Manifest({"packages/x"})}
MCMentions == { <<"near", 3, "run">>, <<"near", 3, "go">>, <<"far", 2, "go">>,
                <<"test", 5, "run">>, <<"test", 5, "Box">> }

Complaint(f, line, rule) == [file |-> f, line |-> line, rule |-> rule]
MCComplaints == { <<>>, << Complaint("core", 2, "no-undef"), Complaint("core", 2, "no-undef"),
                           Complaint("near", 1, "none"), Complaint("near", 1, "none"),
                           Complaint("near", 1, "eqeqeq") >> }
=============================================================================
