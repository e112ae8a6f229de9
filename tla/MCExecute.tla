----------------------------- MODULE MCExecute -----------------------------
(***************************************************************************)
(* Instances of ParallelExecute for TLC: hosts files that list one host    *)
(* twice, two hosts, on one worker or on two, and one host.                *)
(***************************************************************************)
EXTENDS ParallelExecute, TLC

CONSTANTS h1, h2      \* model values

OneTwiceThenOther == <<h1, h1, h2>>
TwoHosts == <<h1, h2>>
OneHost == <<h1>>
OneHostTwice == <<h1, h1>>
OneThenTwoEntries == (h1 :> 1) @@ (h2 :> 2)
OneEntryEach == [h \in Host |-> 1]
=============================================================================
