---------------------------- MODULE PackDownload ----------------------------
(***************************************************************************)
(* One host's part of gm-gather --pack: run_host_gather() calls pull_one   *)
(* for every entry of the host's plan; the first call packs all of them on *)
(* the remote host (remote_pack_paths), downloads the archive and extracts *)
(* it (download_and_extract_tar), and every later call does nothing.       *)
(*                                                                         *)
(* The archive holds regular files and hard links. Extraction writes each  *)
(* one below the destination under its normalised name, files first; two   *)
(* names may be normalised to the same path. Remote commands may fail or   *)
(* lose the session, local writes may fail. A stop request ends the loop   *)
(* between two calls: that is ParallelExecute's business.                  *)
(***************************************************************************)
EXTENDS Integers, Sequences, FiniteSets

CONSTANTS
  Entries,       \* the length of the host's plan, which is not empty
  NumMembers,    \* files and hard links in the archive, in its order
  LinkTo,        \* 0 for a regular file, else the member a hard link stands for
  Path,          \* the path a member's name is normalised to
  Dropped,       \* members that _safe_members() leaves out
  LinkedDir,     \* paths below a local directory that is a symbolic link
  MaxFaults      \* bound: commands and writes that fail while the session is up

Member == 1..NumMembers

ASSUME DownloadAssumption ==
  /\ Entries \in Nat \ {0}
  /\ NumMembers \in Nat \ {0}
  /\ LinkTo \in [Member -> 0..NumMembers]
  /\ \A m \in Member : LinkTo[m] # 0 => LinkTo[m] < m /\ LinkTo[LinkTo[m]] = 0
  /\ DOMAIN Path = Member
  /\ Dropped \subseteq Member
  /\ MaxFaults \in Nat

VARIABLES
  pc,            \* what happens next; "entry" is the loop of run_host_gather()
  trial, processed, errors,     \* its counters
  ran,           \* pull_one's flag: has the first call been made?
  sudo,          \* is sudo used on the remote host?
  remote,        \* the temporaries there: "lst", "tar" and "tgz"
  localTmp,      \* is there a local copy of the archive?
  next,          \* the member the extraction looks at next
  extracted,     \* members in extracted_map, which the count is of
  local,         \* path -> the member whose content it has, Nothing or Partial
  badLinks,      \* history: hard links whose writing failed
  session,       \* is the SSH session up?
  faults,        \* failures other than the session's
  broke          \* history: the labels at which something has failed

countVars == <<trial, processed, errors, ran>>
fileVars == <<localTmp, next, extracted, local, badLinks>>
faultVars == <<session, faults, broke>>
vars == <<pc, countVars, sudo, remote, fileVars, faultVars>>

Nothing == 0
Partial == -1
Paths == {Path[m] : m \in Member}

Init ==
  /\ pc = "entry"
  /\ trial = 0 /\ processed = 0 /\ errors = 0
  /\ ran = FALSE
  /\ sudo \in BOOLEAN
  /\ remote = {}
  /\ localTmp = FALSE /\ next = 1 /\ extracted = {}
  /\ local = [p \in Paths |-> Nothing]
  /\ badLinks = {}
  /\ session = TRUE /\ faults = 0 /\ broke = {}

-----------------------------------------------------------------------------
(* Commands, and how a call of pull_one ends                                *)

Works == session /\ UNCHANGED faultVars

\* A command or a write fails: before, in or after its effect.
Breaks ==
  /\ faults < MaxFaults
  /\ faults' = faults + 1
  /\ broke' = broke \cup {pc}
  /\ UNCHANGED session
Fails ==
  \/ session /\ Breaks
  \/ ~session /\ broke' = broke \cup {pc} /\ UNCHANGED <<session, faults>>

\* What a failed command leaves when it would have made r of the remote files.
Before(r) == IF session THEN {remote, r} ELSE {remote}

\* The except clause of run_host_gather() counts; a call that returns is processed.
PullRaises == pc' = "entry" /\ errors' = errors + 1 /\ UNCHANGED <<trial, processed, ran>>
PullReturns == pc' = "entry" /\ processed' = processed + 1 /\ UNCHANGED <<trial, errors, ran>>
Proceed(l) == pc' = l /\ UNCHANGED countVars

\* The flag is set before the work is done: there is no second attempt.
NextEntry ==
  /\ pc = "entry"
  /\ \/ trial = Entries /\ Proceed("end")
     \/ /\ trial < Entries
        /\ trial' = trial + 1
        /\ ran' = TRUE
        /\ IF ran THEN processed' = processed + 1 /\ UNCHANGED pc
                  ELSE pc' = "list" /\ UNCHANGED processed
        /\ UNCHANGED errors
  /\ UNCHANGED <<sudo, remote, fileVars, faultVars>>

-----------------------------------------------------------------------------
(* remote_pack_paths()                                                     *)

PrepareList ==
  /\ pc = "list"
  /\ \/ Works /\ remote' = remote \cup {"lst"} /\ Proceed("tar")
     \/ /\ Fails
        /\ remote' \in Before(remote \cup {"lst"})
        /\ PullRaises
  /\ UNCHANGED <<sudo, fileVars>>

\* What tar and gzip leave behind when sudo ran them is root's.
Unremovable(left) == IF sudo THEN left ELSE {}

MakeTar ==
  /\ pc = "tar"
  /\ \/ Works /\ remote' = remote \cup {"tar"} /\ Proceed("gzip")
     \/ /\ Fails
        /\ remote' \in Before(remote \cup {"tar"})
        /\ Proceed("undo")
  /\ UNCHANGED <<sudo, fileVars>>

Gzip ==
  /\ pc = "gzip"
  /\ \/ Works /\ remote' = (remote \ {"tar"}) \cup {"tgz"} /\ Proceed("dropList")
     \/ /\ Fails
        /\ remote' \in Before(remote \cup {"tgz"}) \cup Before((remote \ {"tar"}) \cup {"tgz"})
        /\ Proceed("undo")
  /\ UNCHANGED <<sudo, fileVars>>

\* The except clause removes the three files, without sudo.
UndoNothing ==                              \* mutant: failures are not cleaned up after
  /\ pc = "undo"
  /\ Proceed("dropListRaise")
  /\ UNCHANGED <<sudo, fileVars, faultVars, remote>>
Undo ==
  /\ pc = "undo"
  /\ \/ Works /\ remote' = remote \ ({"lst", "tar", "tgz"} \ Unremovable({"tar", "tgz"}))
     \/ Fails /\ remote' \in Before(remote \ ({"lst", "tar", "tgz"} \ Unremovable({"tar", "tgz"})))
  /\ Proceed("dropListRaise")
  /\ UNCHANGED <<sudo, fileVars>>

\* The finally clause removes the list, however the rest went.
DropListTolerant ==                         \* mutant: a list that stays is no error
  /\ pc \in {"dropList", "dropListRaise"}
  /\ \/ Works /\ remote' = remote \ {"lst"}
     \/ Fails /\ remote' \in Before(remote \ {"lst"})
  /\ IF pc = "dropList" THEN Proceed("temp") ELSE PullRaises
  /\ UNCHANGED <<sudo, fileVars>>
DropList ==
  /\ pc \in {"dropList", "dropListRaise"}
  /\ \/ /\ Works
        /\ remote' = remote \ {"lst"}
        /\ IF pc = "dropList" THEN Proceed("temp") ELSE PullRaises
     \/ /\ Fails
        /\ remote' \in Before(remote \ {"lst"})
        /\ PullRaises
  /\ UNCHANGED <<sudo, fileVars>>

-----------------------------------------------------------------------------
(* download_and_extract_tar()                                              *)

\* The destination is created, then a local temporary.
MakeTemp ==
  /\ pc = "temp"
  /\ \/ localTmp' = TRUE /\ Proceed("get") /\ UNCHANGED faultVars
     \/ Breaks /\ PullRaises /\ UNCHANGED localTmp
  /\ UNCHANGED <<sudo, remote, next, extracted, local, badLinks>>

GetLeaves ==                                \* mutant: no except clause around get()
  /\ pc = "get"
  /\ \/ Works /\ Proceed("open") /\ UNCHANGED localTmp
     \/ Fails /\ PullRaises /\ UNCHANGED localTmp
  /\ UNCHANGED <<sudo, remote, next, extracted, local, badLinks>>
Get ==
  /\ pc = "get"
  /\ \/ Works /\ Proceed("open") /\ UNCHANGED localTmp
     \/ Fails /\ PullRaises /\ localTmp' = FALSE
  /\ UNCHANGED <<sudo, remote, next, extracted, local, badLinks>>

\* What happens from here to the removal of the temporary happens on the local host.
OpenArchive ==
  /\ pc = "open"
  /\ \/ Proceed("files") /\ UNCHANGED faultVars
     \/ Breaks /\ Proceed("closeRaise")
  /\ UNCHANGED <<sudo, remote, fileVars>>

IsFile(m) == LinkTo[m] = 0
Blocked(m) == m \in Dropped \/ Path[m] \in LinkedDir

\* The members are gone through twice: files, then hard links.
AdvanceOn(again) ==                         \* mutant: the second pass goes on where the first ended
  /\ next' = next + 1
  /\ Proceed(IF next = NumMembers THEN again ELSE pc)
Advance(again) ==
  /\ next' = IF next = NumMembers THEN 1 ELSE next + 1
  /\ Proceed(IF next = NumMembers THEN again ELSE pc)

SkipMember ==
  /\ \/ pc = "files" /\ (~IsFile(next) \/ Blocked(next)) /\ Advance("links")
     \/ pc = "links" /\ (IsFile(next) \/ Blocked(next)) /\ Advance("close")
  /\ UNCHANGED <<sudo, remote, localTmp, extracted, local, badLinks, faultVars>>

\* A file that cannot be written ends the extraction.
ExtractFile ==
  /\ pc = "files"
  /\ IsFile(next) /\ ~Blocked(next)
  /\ \/ /\ local' = [local EXCEPT ![Path[next]] = next]
        /\ extracted' = extracted \cup {next}
        /\ Advance("links")
        /\ UNCHANGED faultVars
     \/ /\ Breaks
        /\ local' \in {local, [local EXCEPT ![Path[next]] = Partial]}
        /\ Proceed("closeRaise")
        /\ UNCHANGED <<next, extracted>>
  /\ UNCHANGED <<sudo, remote, localTmp, badLinks>>

\* A hard link is copied from the path its target was extracted to (a copy of a path onto
\* itself is empty), or else read from the archive's first member of that path once more. One
\* that can be had from neither is skipped with a warning, as is one that cannot be written.
Copyable(m) == \E u \in extracted : Path[u] = Path[LinkTo[m]]
Copied(m) == IF Path[m] = Path[LinkTo[m]] THEN Partial ELSE local[Path[LinkTo[m]]]
Indexed(m) ==
  {u \in Member \ Dropped : /\ Path[u] = Path[LinkTo[m]] /\ IsFile(u)
                            /\ \A v \in 1..(u - 1) : v \in Dropped \/ Path[v] # Path[u]}

LinkFailure ==
  /\ Breaks
  /\ local' \in {local, [local EXCEPT ![Path[next]] = Partial]}
  /\ badLinks' = badLinks \cup {next}
  /\ UNCHANGED extracted

Extract(c) ==
  /\ local' = [local EXCEPT ![Path[next]] = c]
  /\ extracted' = extracted \cup {next}
  /\ UNCHANGED badLinks

ExtractLinkDirect ==                        \* mutant: hard links are read like files, and empty
  /\ pc = "links"
  /\ ~IsFile(next) /\ ~Blocked(next)
  /\ Extract(Partial) /\ UNCHANGED faultVars
  /\ Advance("close")
  /\ UNCHANGED <<sudo, remote, localTmp>>
ExtractLink ==
  /\ pc = "links"
  /\ ~IsFile(next) /\ ~Blocked(next)
  /\ \/ Copyable(next) /\ Extract(Copied(next)) /\ UNCHANGED faultVars
     \/ \E u \in Indexed(next) :
          Extract(u) /\ IF Copyable(next) THEN Breaks ELSE UNCHANGED faultVars
     \/ ~Copyable(next) /\ Indexed(next) = {} /\ UNCHANGED <<local, extracted, badLinks, faultVars>>
     \/ (Copyable(next) \/ Indexed(next) # {}) /\ LinkFailure
  /\ Advance("close")
  /\ UNCHANGED <<sudo, remote, localTmp>>

\* The directory a hard link goes to is made outside the clauses that tolerate failures.
NoParent ==
  /\ pc = "links"
  /\ ~IsFile(next) /\ ~Blocked(next)
  /\ Breaks
  /\ Proceed("closeRaise")
  /\ UNCHANGED <<sudo, remote, fileVars>>

\* The finally clause.
CloseArchive ==
  /\ pc \in {"close", "closeRaise"}
  /\ localTmp' = FALSE
  /\ IF pc = "close" THEN Proceed("rm") ELSE PullRaises
  /\ UNCHANGED <<sudo, remote, next, extracted, local, badLinks, faultVars>>

-----------------------------------------------------------------------------
(* The end of pull_one                                                     *)

\* rm with sudo, or without: what it exits with is not looked at, an exception is counted.
RemoveArchive ==
  /\ pc = "rm"
  /\ \/ Works /\ remote' = remote \ {"tgz"} /\ PullReturns
     \/ Fails /\ remote' \in Before(remote \ {"tgz"}) /\ PullRaises
     \/ session /\ Breaks /\ UNCHANGED remote /\ PullReturns
  /\ UNCHANGED <<sudo, fileVars>>

\* close_all(), or the network.
LoseSession ==
  /\ session
  /\ pc # "end"
  /\ session' = FALSE
  /\ UNCHANGED <<pc, countVars, sudo, remote, fileVars, faults, broke>>

Next ==
  \/ NextEntry \/ PrepareList \/ MakeTar \/ Gzip \/ Undo \/ DropList
  \/ MakeTemp \/ Get \/ OpenArchive \/ SkipMember \/ ExtractFile \/ ExtractLink \/ NoParent
  \/ CloseArchive \/ RemoveArchive \/ LoseSession

Spec == Init /\ [][Next]_vars

-----------------------------------------------------------------------------
(* Properties                                                              *)

Labels == { "entry", "list", "tar", "gzip", "undo", "dropList", "dropListRaise", "temp", "get",
  "open", "files", "links", "close", "closeRaise", "rm", "end" }

\* The type of every variable; the counters stay within the plan, next within the archive.
TypeOK ==
  /\ pc \in Labels
  /\ trial \in 0..Entries /\ processed \in 0..Entries /\ errors \in 0..1
  /\ ran \in BOOLEAN /\ sudo \in BOOLEAN
  /\ remote \subseteq {"lst", "tar", "tgz"}
  /\ localTmp \in BOOLEAN
  /\ next \in Member
  /\ extracted \subseteq Member /\ badLinks \subseteq Member
  /\ local \in [Paths -> Member \cup {Nothing, Partial}]
  /\ session \in BOOLEAN /\ faults \in 0..MaxFaults
  /\ broke \subseteq Labels

\* The host's counters (run_host_gather): every entry tried is processed or an error; there is
\* an error only if something failed, and none only if nothing did but the writing of a hard
\* link or the removal of the fetched archive, through all the except and finally clauses.
CountsTruthful ==
  /\ pc \in {"entry", "end"} => processed + errors = trial
  /\ errors > 0 => broke # {}
  /\ pc = "end" /\ errors = 0 => broke \subseteq {"links", "rm"}

\* A host that ends without an error has every file of the archive, whole and under its own
\* name, unless another one is normalised to the same name; hard links are files of their
\* own, with their target's content, unless writing one failed.
Kept == {m \in Member : ~Blocked(m)}
Alone(m) == \A u \in Member : Path[u] = Path[m] => u = m
Content(m) == IF IsFile(m) THEN m ELSE LinkTo[m]
Arrived ==
  pc = "end" /\ errors = 0 =>
    \A m \in Kept \ badLinks :
      Alone(m) /\ (IsFile(m) \/ (Alone(LinkTo[m]) /\ LinkTo[m] \notin Dropped)) =>
        m \in extracted /\ local[Path[m]] = Content(m)

\* No temporary outlives its use: the local archive never survives the call, whatever fails;
\* on the remote host the list only stays if writing or removing it failed, the tar if making
\* it failed and could not be undone, and the archive also if fetching or extracting it did.
TempsRemoved ==
  pc \in {"entry", "end"} =>
    LET undone == sudo \/ "undo" \in broke IN
    /\ ~localTmp
    /\ "lst" \in remote => broke \cap {"list", "dropList", "dropListRaise"} # {}
    /\ "tar" \in remote => broke \cap {"tar", "gzip"} # {} /\ undone
    /\ "tgz" \in remote => \/ "gzip" \in broke /\ undone
                           \/ broke \cap {"dropList", "temp", "get", "open", "files", "links", "rm"} # {}
=============================================================================
