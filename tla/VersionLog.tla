------------------------------ MODULE VersionLog ------------------------------
(***************************************************************************)
(* What the store promises about the versions of one workflow definition:  *)
(* a log that only grows, with a head that clients see as the latest       *)
(* version.  Nobody adds to the log before its last entry is the head.     *)
(***************************************************************************)
EXTENDS Naturals, Sequences

CONSTANT Content    \* what a version of a definition says

VARIABLES log,      \* the versions; version v is entry v + 1
          head      \* how many of them the latest definition takes in

Init == log = <<>> /\ head = 0

\* A new version follows the latest one.
AddVersion(c) ==
    /\ head = Len(log)
    /\ log' = Append(log, c)
    /\ UNCHANGED head

\* The newest version becomes the latest definition.
Publish ==
    /\ head < Len(log)
    /\ head' = Len(log)
    /\ UNCHANGED log

Next == Publish \/ \E c \in Content : AddVersion(c)

Spec == Init /\ [][Next]_<<log, head>>
=============================================================================
