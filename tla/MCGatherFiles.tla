--------------------------- MODULE MCGatherFiles ----------------------------
(* A remote tree and SRC lists for GatherFiles.                            *)
EXTENDS GatherFiles

\* Links to a file, to nothing and to the directory itself; a file that no one else may read;
\* a device; a directory and a file with one safe name, which ".." does not take away, so that
\* two files have one place.
RemoteTree ==
  [p \in { <<"d">>, <<"d", "f">>, <<"d", "to">>, <<"d", "loop">>, <<"d", "dev">>,
           <<"d", ":">>, <<"d", "<">>, <<"d", "<", "f">>, <<"d", "z">>, <<"d", "z", "f">> } |->
    CASE p \in {<<"d">>, <<"d", "<">>, <<"d", "z">>} -> "dir"
      [] p \in {<<"d", "to">>, <<"d", "loop">>} -> "link"
      [] p = <<"d", "dev">> -> "other"
      [] OTHER -> "file"]
Targets == [p \in {<<"d", "to">>, <<"d", "loop">>} |-> IF p = <<"d", "to">> THEN <<"d", "f">> ELSE <<"d">>]
AllNames == <<"..", ":", "<", "d", "dev", "f", "loop", "to", "z">>
SafeNames == [n \in {AllNames[i] : i \in DOMAIN AllNames} |-> IF n \in {":", "<"} THEN "_" ELSE n]

RootOnly == {<<"d", "z">>}
Taken == {<<"d">>, <<"d", "f">>, <<"d", "loop">>, <<"d", "<">>}
HomeDir == <<"d">>

Lit(from, path) == [from |-> from, path |-> path, tail |-> <<>>]
Rex(from, path, tail) == [from |-> from, path |-> path, tail |-> tail]
SomeRequests ==
  { <<Lit("root", <<"d">>)>>,
    <<Lit("relative", <<"<", "f">>), Lit("root", <<"d", "<", "..", "f">>)>>,
    <<Lit("relative", <<"..", "d", "z">>), Lit("tilde", <<"..", "d", "z">>), Rex("root", <<"d">>, <<{"f", "to"}>>)>>,
    <<Rex("root", <<"d">>, <<{"loop", "<"}, {"f", ":", "to"}>>)>>,
    <<Lit("root", <<"d", "dev">>), Lit("root", <<"d", "to">>), Rex("relative", <<>>, <<{":", "<", "loop", "to"}>>)>> }
=============================================================================
