---------------------------- MODULE MCWildcards ----------------------------
(***************************************************************************)
(* Three small directories and words of thirteen kinds.  The names in      *)
(* order are .a, aa, ab, abc and b; ab and abc are directories.  A word    *)
(* before it, as "ab*", leaves a tail in the buffer with which ab, ab*,    *)
(* ?b and * are read as ab*, ?b?, abc or a pattern for one of these.       *)
(***************************************************************************)
EXTENDS Wildcards, TLC

MCDirs == <<>> :> {1, 2, 3, 4} @@ <<3>> :> {1, 4, 5} @@ <<4>> :> {2, 5}
MCStale == {Plain(4), Wild({3, 4}, FALSE), Wild({4}, FALSE)}
MCEnvironment == "HOME" :> <<"h">> @@ "EMPTY" :> <<>>

Word(components) == [NoWord EXCEPT !.kind = "wild", !.components = components]
Lit(name) == [variable |-> FALSE, name |-> name]
Var(name) == [variable |-> TRUE, name |-> name]

Star == Wild({2, 3, 4, 5}, FALSE)      \* matches everything not hidden
Arguments ==
    {Word(<<Wild({1, 2, 3, 4, 5}, FALSE)>>),                \* *
     Word(<<Wild({1}, TRUE)>>),                             \* .?
     Word(<<Wild({3}, FALSE)>>), Word(<<Wild({9}, FALSE)>>),
     Word(<<Wild({3, 4}, FALSE), Star>>), Word(<<Plain(3), Star>>), Word(<<Star, Plain(5)>>),
     Word(<<Wild({3}, FALSE), Wild({4}, FALSE)>>),
     [Word(<<Wild({2, 5}, FALSE)>>) EXCEPT !.root = <<4>>],
     [NoWord EXCEPT !.parts = <<Lit("a")>>],
     [NoWord EXCEPT !.kind = "tilde", !.parts = <<"user">>],
     [NoWord EXCEPT !.kind = "variable", !.parts = <<Lit("a"), Var("HOME"), Var("?")>>],
     [NoWord EXCEPT !.kind = "variable", !.parts = <<Var("NONE")>>]}
Ls == [NoWord EXCEPT !.parts = <<Lit("ls")>>]
MCWords == Arguments \cup {Ls}
MCLines == {<< <<Ls, u, v>>, <<Ls, w>> >> : u, v, w \in Arguments}
=============================================================================
