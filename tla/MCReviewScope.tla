---------------------------- MODULE MCReviewScope ---------------------------
(* Instances of ReviewScope for TLC. *)
EXTENDS ReviewScope

MCGenerated == "g"
Terminated(lines) == [lines |-> lines, terminated |-> lines # <<>>]
Open(lines) == [lines |-> lines, terminated |-> FALSE]

MCTexts == {Terminated(lines) : lines \in
              { <<>>, <<"a">>, <<"b">>, <<"a", "b">>, <<"a", "b", "a">>, <<"b", "a", "b">>,
                <<MCGenerated>>, <<"b", "a", "b", "a", "b">>, <<"b", "b", "b", "a", "b">> }}
           \cup {Open(<<"a">>), Open(<<"a", "b">>)}
MCContents == << MCTexts \cup {Absent, Binary}, {Absent, Terminated(<<"a">>)} >>

(* The second file is a critical one, and each layer may speak of it. *)
MCRuleSets == [Layers -> {<<"silent", v>> : v \in Verdicts}]

(* A commit by its id and by name, the first commit of a history among them, *)
(* ranges with two and three dots, and a branch that is ahead of HEAD, is    *)
(* HEAD, has diverged from it, or has nothing to be compared with.           *)
Refs(main, topic) == [main |-> main, master |-> 0, origin |-> 0, topic |-> topic]
History(parents, main, topic, branch) ==
    [parents |-> parents, refs |-> Refs(main, topic), attached |-> branch]
Single == History(<<0>>, 1, 0, "main")
Linear == History(<<0, 1>>, 2, 0, "main")
Ahead == History(<<0, 1>>, 1, 2, "main")
OnTopic == History(<<0, 1>>, 1, 2, "topic")
Diverged == History(<<0, 1, 1>>, 3, 2, "main")
Unrelated == History(<<0, 0>>, 1, 2, "main")
TopicOnly == History(<<0>>, 0, 1, "topic")
Same == History(<<0>>, 1, 1, "main")

Call(option, words, histories) ==
    {[option |-> option, words |-> words, history |-> h] : h \in histories}
HEAD == Name("HEAD")
Topic == Name("topic")
MCReviews ==
    UNION {Call("staged", NoWords, {Single}),
           Call("none", NoWords, {Single}),
           Call("commit", One(Reference("oid", 2, 0)), {Linear}),
           Call("none", One(HEAD), {Single, Linear}),
           Call("none", Words(Reference("HEAD", 0, 1), 2, HEAD), {Single, Linear}),
           Call("range", Words(Name("main"), 3, Topic), {Diverged, Unrelated}),
           Call("branch", One(Topic), {Ahead, OnTopic, TopicOnly, Same})}
=============================================================================
