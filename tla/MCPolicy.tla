------------------------------ MODULE MCPolicy ------------------------------
(* A small instance of Policy for TLC: a tree of four directories below a  *)
(* root, a home with two tools, and the files and requests that set paths  *)
(* above, below and beside each other.                                     *)
EXTENDS Policy, TLC

MCHomeDir == <<"h">>
MCBwrapStaticRoots == {<<"usr">>, <<"bin">>, <<"lib">>}
MCSeatbeltReadable == {<<"bin">>, <<"usr", "bin">>, <<"usr", "local">>}
MCSeatbeltScratch == {<<"tmp">>}
MCBasePATH == {<<"usr", "bin">>, <<"usr", "local", "bin">>, <<"bin">>}
MCNixStore == <<"nix", "store">>

Mise == <<"h", "mise", "shims">>
Cargo == <<"h", "cargo", "bin">>

MCToolDirs == {[bin |-> Mise, reads |-> {Front(Mise)}],
               [bin |-> Cargo, reads |-> {Cargo}]}

MCName == {"..", "h", "mise", "shims", "cargo", "bin", "usr", "local", "tmp",
           "w", "a", "b"}

(* The patterns: one of the baseline, one the operator adds, one malformed. *)
MCGlob == [HOME |-> {"HOME"}, USER |-> {"USER"}] @@ ("P*" :> {"PATH"})
MCBaselineAllowEnv == {"HOME", "USER"}
MCPatterns == {"HOME", "USER", "P*", "["}
MCKey == {"HOME", "USER", "PATH", "SECRET", "0BAD"}

W == <<"w">>
A == <<"w", "a">>
B == <<"w", "a", "b">>

Closure(ps) == UNION {{SubSeq(p, 1, n) : n \in 0..Len(p)} : p \in ps}

Always == {<<"usr", "bin">>, <<"usr", "local", "bin">>, <<"bin">>, <<"tmp">>}

MCDisks == {Closure(Always \cup ps) :
    ps \in {{B, Mise}, {B, Cargo}, {W, Mise, Cargo}}}

InFile(names) == [home |-> FALSE, names |-> names]
Sets(paths) == {<<>>} \cup {<<InFile(p)>> : p \in paths}

PlainFile == [state |-> "ok", read |-> <<>>, write |-> <<>>, socket |-> TRUE,
              allowEnv |-> {}, enabled |-> FALSE, accounts |-> {}]

MountFiles == {[PlainFile EXCEPT !.read = rs, !.write = ws] :
                  rs \in Sets({W, A}), ws \in Sets({W, A})}

MCFiles ==
    MountFiles
    \cup {[PlainFile EXCEPT !.write = <<[home |-> TRUE, names |-> <<"mise">>]>>]}
    \cup {[PlainFile EXCEPT !.allowEnv = {p}] : p \in {"P*", "["}}
    \cup {[PlainFile EXCEPT !.enabled = TRUE, !.accounts = as] : as \in {{}, {"sa"}}}
    \cup {[PlainFile EXCEPT !.state = s] : s \in {"absent", "malformed", "unreadable"}}

Asked(names, mode) == [abs |-> TRUE, names |-> names, mode |-> mode]

PathRequests ==
    LET One == {Asked(p, m) : p \in {W, A, B}, m \in Modes}
    IN  {<<>>} \cup {<<x>> : x \in One} \cup {<<x, y>> : x \in One, y \in One}

PlainRequest == [token |-> "none", env |-> {}, paths |-> <<>>]

MCRequests ==
    {[PlainRequest EXCEPT !.paths = ps] : ps \in PathRequests}
    \cup {[PlainRequest EXCEPT !.paths = <<Asked(<<"w", "..", "w">>, "rw")>>],
          [PlainRequest EXCEPT !.paths = <<Asked(<<"tmp", "a">>, "rw")>>],
          [PlainRequest EXCEPT !.paths = <<[abs |-> FALSE, names |-> W, mode |-> "ro"]>>]}
    \cup {[PlainRequest EXCEPT !.env = es] :
             es \in {{"USER", "SECRET"}, {"HOME", "PATH"}, {"0BAD"}}}
    \cup {[PlainRequest EXCEPT !.token = t] : t \in {"sa", "other", "bad"}}
=============================================================================
