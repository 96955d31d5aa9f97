--------------------------- MODULE EmbeddedManagerMC ---------------------------
(***************************************************************************)
(* A small instance of EmbeddedManager.                                    *)
(***************************************************************************)
EXTENDS EmbeddedManager, TLC

\* Processes differ in what they do only.
Symmetry == Permutations(Process)

MCEnvironment == <<"n">>
MCUUID == {<<"a">>}

Def(name, version, startAt, states) ==
    [name |-> name, version |-> version, startAt |-> startAt, states |-> states]

A == <<"a">>
S == <<"s">>
AB == <<"a", "b">>

(***************************************************************************)
(* Definitions that get in each other's way: of one name, of names that    *)
(* become the same, of names that make an ID too long, and with a suffix   *)
(* that looks like a separator.  The list that a process begins with may   *)
(* contain a name twice.                                                   *)
(***************************************************************************)
Library(offers, yaml) ==
    [offers |-> offers, yaml |-> {<<>>} \cup yaml, suffixes |-> {S}]

Immutable == LET x == Def(A, 0, S, "x")  y == Def(A, 0, S, "y")
             IN  Library({x, y}, {<<x>>, <<y, x>>})
Mutable   == Library({Def(A, -1, S, "x"), Def(A, -1, S, "y")}, {})
Mixed     == LET x == Def(A, -1, S, "x")  y == Def(A, 0, S, "y")
             IN  Library({x, y, Def(A, 0, S, "bad")}, {<<x, y>>, <<y>>})
Dashed    == Library({Def(A, -1, S, "x"), Def(<<"a", "-">>, 1, S, "y")}, {})
Replaced  == Library({Def(<<"a", "-">>, 0, S, "x"), Def(<<"a", ":">>, 0, S, "y")}, {})
Shadowed  == Library({Def(A, 0, S, "x"), Def(<<"a", "-">>, 0, S, "y")}, {})
Cut       == Library({Def(AB, -1, S, "x"), Def(AB, -1, S, "y")}, {})
CutDeeper == Library({Def(AB, -1, AB, "x"), Def(A, 0, <<"s", "-">>, "y")}, {})
Separator == LET x == Def(A, 0, S, "x")
             IN  [offers |-> {x}, yaml |-> {<<x>>}, suffixes |-> {Dashes}]

MCLibraries == {Immutable, Mutable, Mixed, Dashed, Replaced, Shadowed, Cut,
                CutDeeper, Separator}
=============================================================================
