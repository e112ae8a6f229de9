--------------------------- MODULE MCScatterPlan ----------------------------
(* A local tree and SRC lists for ScatterPlan.                             *)
EXTENDS ScatterPlan

\* Links below the current directory to a directory in and one out of it, to nothing and round;
\* a device; two files that are "a/f" below DEST.
LocalTree ==
  [p \in { <<"a">>, <<"a", "f">>, <<"w">>, <<"w", "a">>, <<"w", "a", "f">>, <<"w", "l">>, <<"w", "out">>,
           <<"w", "n">>, <<"w", "b">>, <<"w", "b", "up">>, <<"w", "b", "dev">> } |->
    CASE p \in {<<"a">>, <<"w">>, <<"w", "a">>, <<"w", "b">>} -> "dir"
      [] p \in {<<"a", "f">>, <<"w", "a", "f">>} -> "file"
      [] p = <<"w", "b", "dev">> -> "other"
      [] OTHER -> "link"]
Targets ==
  [p \in {q \in DOMAIN LocalTree : LocalTree[q] = "link"} |->
    CASE p = <<"w", "l">> -> <<"w", "a">> [] p = <<"w", "out">> -> <<"a">>
      [] p = <<"w", "b", "up">> -> <<"w", "b">> [] OTHER -> <<"x">>]
AllNames == <<"..", "a", "b", "dev", "f", "l", "n", "out", "up", "w", "x">>
NoPrivate == {}
Taken == {<<"w", "a", "f">>, <<"w", "a">>, <<"a">>, <<"w", "l">>}
Dir == <<"w">>

Lit(from, path) == [from |-> from, path |-> path, rx |-> FALSE, tail |-> <<>>]
Rex(from, path, tail) == [from |-> from, path |-> path, rx |-> TRUE, tail |-> tail]
SomeRequests ==
  { <<Lit("root", <<"a", "f">>), Lit("cwd", <<"a", "f">>)>>,
    <<Lit("cwd", <<"a", "f">>), Lit("root", <<"w", "a", "f">>)>>,
    <<Lit("cwd", <<"l">>), Lit("cwd", <<"b", "..", "a", "f">>)>>,
    <<Lit("cwd", <<"a">>), Lit("root", <<"w", "a", "f">>), Rex("cwd", <<"a">>, <<{"f"}>>)>>,
    <<Rex("root", <<"w">>, <<>>), Lit("root", <<"w", "n">>)>>,
    <<Lit("root", <<"a">>), Lit("cwd", <<"out", "f">>)>>,
    <<Lit("cwd", <<"b">>), Lit("root", <<"w", "out", "f">>)>>,
    <<Lit("cwd", <<"l">>), Lit("root", <<"w", "a">>), Lit("root", <<"a", "f">>)>>,
    <<Lit("cwd", <<"..", "a">>)>>,
    <<Rex("root", <<"w", "b", "..">>, <<{"a", "b"}, {"f", "up", "dev"}>>), Lit("root", <<"a">>), Lit("cwd", <<"a">>)>> }
=============================================================================
