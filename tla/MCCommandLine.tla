--------------------------- MODULE MCCommandLine ---------------------------
(* Model-checking instance of CommandLine. *)
EXTENDS CommandLine

UpTo(S, n) == UNION {[1 .. k -> S] : k \in 0 .. n}

\* Every short line around `run` and `server`, and every short `issue-token`.
RunWords == {W("run"), W("server"), W("hi"), Flag("--as"), Opt("--as=", "bob"),
             Flag("-p"), Flag("--channel"), Opt("--channel=", "x")}
RunEnvs == {<<>>, <<W("carol")>>, <<W(" ")>>}
IssueWords == {W("time"), W("hour"), Flag("--ttl"), Opt("--ttl=", "time"), Opt("--as=", "bob")}
IssueLines == {<<W("issue-token")>> \o s : s \in
                 UpTo(IssueWords, 2) \cup {w \o <<W("key.pub"), W("cli")>> : w \in UpTo(IssueWords, 3)}}
MCStarts == [line : UpTo(RunWords, 3), env : RunEnvs] \cup [line : IssueLines, env : {<<>>}]

MCWords == {"", " ", "run", "server", "issue-token", "hi", "bob", "carol", "time", "hour",
            "key.pub", "cli", "x", "--as", "--as=", "-p", "--channel", "--channel=",
            "server:claude-peers", "--ttl", "--ttl=", "none", "root", "home", "p", "q", "..x"}

\* A home with a project and a dotted directory in it; every directory has no
\* file or one with its own name in it, and one directory may have a blank file.
MCDirs == {<<>>, <<"home">>, <<"home", "p">>, <<"home", "p", "q">>, <<"home", "..x">>}
MCHomes == {<<>>, <<"home">>, NoHome}
OwnName(d) == IF d = <<>> THEN W("root") ELSE W(Last(d))
MCTrees ==
    {[d \in Dirs |-> CASE d \in named -> OwnName(d) [] d = blank -> W(" ") [] OTHER -> None] :
        named \in SUBSET Dirs, blank \in Dirs}

Numeral(n) == [n |-> n, len |-> PrintedLen(n)]
MCTerms(fractions) == {Term(Numeral(n), f, u) : n \in {1, 5, 22}, f \in fractions, u \in Units}
MCTimes == UpTo(MCTerms({NoDigits, [n |-> 5, len |-> 1]}), 1) \cup UpTo(MCTerms({NoDigits}), 2)
=============================================================================
