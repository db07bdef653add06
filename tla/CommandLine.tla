---------------------------- MODULE CommandLine ----------------------------
(***************************************************************************)
(* How a claude-peers process reads its command line: main and             *)
(* parseGlobalFlags, the wrapper `run` that replaces itself by claude      *)
(* (run_wrapper.go), `server`, which claude starts and which resolves the  *)
(* session's agent name (fleet_git.go), and `issue-token` with its --ttl.  *)
(* The other commands look at nothing modelled here.                       *)
(*                                                                         *)
(* An argument is a word, or an option with the value after its "=". A     *)
(* word made of blanks is W(" "), which TrimSpace turns into W("").        *)
(*                                                                         *)
(* Each loop of the code is an action that stands for one turn of it and   *)
(* another for what follows the loop: `at` is the argument the next turn   *)
(* looks at, `out` what the turns so far have kept.                        *)
(***************************************************************************)
EXTENDS Durations

CONSTANTS
    Words,     \* the texts of arguments
    Starts,    \* command lines a user may type, without the program name, each
               \* with the values of CLAUDE_PEERS_AGENT in its environment
    Dirs,      \* directories, each the sequence of its path components
    Dotted,    \* components whose name begins with ".."
    Homes,     \* values of $HOME, NoHome if unset
    NoHome,
    Trees,     \* the .claude-peers-agent file of each directory, or None
    Times      \* duration texts

Opt(o, v) == [opt |-> o, val |-> v]
W(w) == Opt("", w)
Flag(o) == Opt(o, "")
None == Flag("none")
Arguments == [opt : Words, val : Words]
TrimSpace(t) == IF t = W(" ") THEN W("") ELSE t

ASSUME PathAssumption ==
    /\ Dirs \subseteq Seq(STRING)
    /\ Homes \subseteq Dirs \cup {NoHome}
    /\ NoHome \notin Dirs
    /\ \A d \in Dirs : d # <<>> => Front(d) \in Dirs

ASSUME InputAssumption ==
    /\ {"", "none", "server", "--channel", "server:claude-peers"} \subseteq Words
    /\ Starts \subseteq [line : Seq(Arguments), env : Seq(Arguments)]
    /\ Trees \subseteq [Dirs -> Arguments]
    /\ Times \subseteq Seq(Terms)

VARIABLES
    pc,        \* where the process is
    args,      \* os.Args after the program name, or the arguments of the command
    at, out,   \* of the loop the process is in
    override,  \* agentNameOverride
    own,       \* skipChannel or hasChannelFlag of buildRunArgv
    asEnv,     \* envOverrides of buildRunArgv
    env,       \* the values of CLAUDE_PEERS_AGENT in the environment, in order
    claude,    \* the arguments claude is started with
    place,     \* where findAgentFile looks: cwd, $HOME and the files
    dir,       \* the directory its next turn looks at
    name,      \* the agent name the server registers with
    time,      \* the configured default lifetime, also spelt by W("time")
    ttl,       \* the lifetime of the token issued
    typed      \* history: the command line as typed

wrapper == <<own, asEnv, claude>>
naming == <<place, dir, name>>
issuing == <<time, ttl>>
vars == <<pc, args, at, out, override, env, wrapper, naming, issuing, typed>>

Nowhere == [cwd |-> <<>>, home |-> NoHome, files |-> <<>>]

TypeOK ==
    /\ pc \in {"main", "dispatch", "run", "claude", "server", "walk", "named",
               "issue-token", "ttl", "issued", "exit"}
    /\ args \in Seq(Arguments) /\ out \in Seq(Arguments) /\ at \in 1 .. Len(args) + 1
    /\ env \in Seq(Arguments) /\ asEnv \in Seq(Arguments) /\ claude \in Seq(Arguments)
    /\ own \in BOOLEAN
    /\ override \in Arguments /\ name \in Arguments
    /\ dir \in Dirs \cup {<<>>}
    /\ time \in Times \cup {<<>>}
    /\ ttl \in {Refused, 0} \cup MinTTL .. MaxTTL

Init ==
    /\ pc = "main"
    /\ \E st \in Starts : typed = st.line /\ env = st.env
    /\ args = typed
    /\ at = 1 /\ out = <<>>
    /\ override = W("")
    /\ own = FALSE /\ asEnv = <<>> /\ claude = <<>>
    /\ place = Nowhere /\ dir = <<>> /\ name = None
    /\ time = <<>> /\ ttl = 0

Exit == pc' = "exit" /\ UNCHANGED <<args, at, out, override, env, wrapper, naming, issuing, typed>>

\* A turn of a loop that moves on by n arguments and keeps those of kept.
Turn(n, kept) == at' = at + n /\ out' = out \o kept /\ UNCHANGED <<args, typed>>

-----------------------------------------------------------------------------
(* main *)

\* A turn of parseGlobalFlags. A last --as without a value ends the process.
ParseGlobalFlags ==
    /\ pc = "main" /\ at <= Len(args)
    /\ \/ args[at] = Flag("--as") /\ at = Len(args) /\ Exit
       \/ /\ \/ args[at] = Flag("--as") /\ at < Len(args) /\ override' = args[at + 1] /\ Turn(2, <<>>)
             \/ args[at].opt = "--as=" /\ override' = W(args[at].val) /\ Turn(1, <<>>)
             \/ /\ args[at] # Flag("--as") /\ args[at].opt # "--as="
                /\ Turn(1, <<args[at]>>)
                /\ UNCHANGED override
          /\ UNCHANGED <<pc, env, wrapper, naming, issuing>>

\* os.Args = out
GlobalFlagsParsed ==
    /\ pc = "main" /\ at > Len(args)
    /\ args' = out
    /\ at' = 1 /\ out' = <<>>
    /\ pc' = "dispatch"
    /\ UNCHANGED <<override, env, wrapper, naming, issuing, typed>>

Commands == {"run", "server", "issue-token"}

Dispatch ==
    /\ pc = "dispatch"
    /\ \/ \E c \in Commands :
             /\ args # <<>> /\ args[1] = W(c)
             /\ pc' = c
             /\ args' = Tail(args)
             /\ UNCHANGED <<at, out, override, env, wrapper, naming, issuing, typed>>
       \/ args = <<>> /\ Exit
       \/ args # <<>> /\ (\A c \in Commands : args[1] # W(c)) /\ Exit

-----------------------------------------------------------------------------
(* run *)

\* --dangerously-load-development-channels and -p, in all their forms.
ChannelForms == {"--channel", "--channel="}
PrintForms == {"-p", "--print", "--print="}
InjectedChannel == <<Flag("--channel"), W("server:claude-peers")>>

\* A turn of buildRunArgv. A channel flag takes its value along unseen, an --as
\* goes to the environment, and one without a value is left to claude.
BuildRunArgv ==
    LET a == args[at]
        takesNext == a \in {Flag("--channel"), Flag("--as")} /\ at < Len(args)
        mine == IF takesNext THEN <<a, args[at + 1]>> ELSE <<a>>
        as == IF a = Flag("--as") THEN Tail(mine)
              ELSE IF a.opt = "--as=" THEN <<W(a.val)>>
              ELSE <<>>
    IN  /\ pc = "run" /\ at <= Len(args)
        /\ own' = (own \/ a.opt \in ChannelForms \cup PrintForms)
        /\ asEnv' = asEnv \o as
        /\ Turn(Len(mine), IF as = <<>> THEN mine ELSE <<>>)
        /\ UNCHANGED <<pc, override, env, claude, naming, issuing>>

\* Mutant of RunClaudeWrapped: the flags of the user do not count.
RunWithChannelTwice ==
    /\ pc = "run" /\ at > Len(args)
    /\ claude' = InjectedChannel \o out
    /\ env' = env \o asEnv
    /\ pc' = "claude"
    /\ UNCHANGED <<args, at, out, override, own, asEnv, naming, issuing, typed>>

\* The process becomes claude; overrides come after the inherited environment.
RunClaudeWrapped ==
    /\ pc = "run" /\ at > Len(args)
    /\ claude' = (IF own THEN <<>> ELSE InjectedChannel) \o out
    /\ env' = env \o asEnv
    /\ pc' = "claude"
    /\ UNCHANGED <<args, at, out, override, own, asEnv, naming, issuing, typed>>

\* There is no claude in PATH, or, after the loop, it cannot be executed.
ClaudeMissing == pc = "run" /\ (at = 1 \/ at > Len(args)) /\ Exit

\* Claude starts its MCP server: a new process with the same environment.
ClaudeStartsServer ==
    /\ pc = "claude"
    /\ args' = <<W("server")>>
    /\ at' = 1 /\ out' = <<>>
    /\ override' = W("")
    /\ pc' = "main"
    /\ UNCHANGED <<env, wrapper, naming, issuing, typed>>

-----------------------------------------------------------------------------
(* server: resolveAgentName *)

\* os.Getenv: the first entry of the name counts.
Getenv == IF env = <<>> THEN W("") ELSE env[1]

Named(n) ==
    /\ pc' = "named"
    /\ name' = n
    /\ UNCHANGED <<args, at, out, override, env, wrapper, place, dir, issuing, typed>>

DeclaredName ==
    /\ pc = "server"
    /\ \/ override # W("") /\ Named(TrimSpace(override))
       \/ override = W("") /\ Getenv # W("") /\ Named(TrimSpace(Getenv))

NoDeclaredName(cwd, home, files) ==
    /\ pc = "server"
    /\ override = W("") /\ Getenv = W("")
    /\ place' = [cwd |-> cwd, home |-> home, files |-> files]
    /\ dir' = cwd
    /\ pc' = "walk"
    /\ UNCHANGED <<args, at, out, override, env, wrapper, name, issuing, typed>>

\* The path from root to p does not begin with "..", as text.
IsInside(p, root) ==
    /\ root # NoHome
    /\ IsPrefix(root, p)
    /\ p # root => p[Len(root) + 1] \notin Dotted

\* The name in the file of directory d, if any.
NameIn(d) == TrimSpace(place.files[d])
HasName(d) == NameIn(d) \notin {None, W("")}

\* Mutant of FindAgentFile: the walk stops below $HOME.
FindBelow ==
    /\ pc = "walk"
    /\ \/ dir # place.home /\ HasName(dir) /\ Named(NameIn(dir))
       \/ dir = place.home /\ Named(W(""))
       \/ /\ dir # place.home /\ ~HasName(dir)
          /\ dir' = Front(dir)
          /\ UNCHANGED <<pc, args, at, out, override, env, wrapper, place, name, issuing, typed>>

\* A turn of findAgentFile: from the working directory upwards to $HOME; not
\* upwards at all when the walk began outside.
FindAgentFile ==
    LET startedInsideHome == IsInside(place.cwd, place.home)
        stop == ~startedInsideHome \/ dir = place.home \/ dir = <<>>
    IN  /\ pc = "walk"
        /\ \/ HasName(dir) /\ Named(NameIn(dir))
           \/ ~HasName(dir) /\ stop /\ Named(W(""))
           \/ /\ ~HasName(dir) /\ ~stop
              /\ dir' = Front(dir)
              /\ UNCHANGED <<pc, args, at, out, override, env, wrapper, place, name, issuing, typed>>

-----------------------------------------------------------------------------
(* issue-token *)

\* The duration an argument spells; most spell none.
Spells(a, t) ==
    IF a = W("time") THEN t
    ELSE IF a = W("hour") THEN <<Term([n |-> 1, len |-> 1], NoDigits, "h")>>
    ELSE <<Term(NoDigits, NoDigits, "?")>>

CliIssueToken(t) ==
    /\ pc = "issue-token"
    /\ time' = t
    /\ ttl' = DefaultChildTTL(t)
    /\ pc' = "ttl"
    /\ UNCHANGED <<args, at, out, override, env, wrapper, naming, typed>>

\* A turn of parseIssueTokenArgs with a --ttl: the last one wins, one that is
\* refused ends the process.
TTLFlag(raw, n) ==
    /\ ttl' = ParseFlexibleDuration(Spells(raw, time))
    /\ pc' = IF ttl' = Refused THEN "exit" ELSE pc
    /\ Turn(n, <<>>)

ParseIssueTokenArgs ==
    /\ pc = "ttl" /\ at <= Len(args)
    /\ LET a == args[at]
       IN  \/ a = Flag("--ttl") /\ at = Len(args) /\ ttl' = Refused /\ pc' = "exit" /\ Turn(0, <<>>)
           \/ a = Flag("--ttl") /\ at < Len(args) /\ TTLFlag(args[at + 1], 2)
           \/ a.opt = "--ttl=" /\ TTLFlag(W(a.val), 1)
           \/ a # Flag("--ttl") /\ a.opt # "--ttl=" /\ Turn(1, <<a>>) /\ UNCHANGED <<pc, ttl>>
    /\ UNCHANGED <<override, env, wrapper, naming, time>>

Roles == {W("peer-session"), W("fleet-read"), W("fleet-write"), W("cli")}

\* A key or token that cannot be loaded ends the process as well.
IssueToken ==
    /\ pc = "ttl" /\ at > Len(args)
    /\ \/ pc' = "exit"
       \/ Len(out) >= 2 /\ out[2] \in Roles /\ pc' = "issued"
    /\ UNCHANGED <<args, at, out, override, env, wrapper, naming, issuing, typed>>

Next ==
    \/ ParseGlobalFlags \/ GlobalFlagsParsed
    \/ Dispatch
    \/ BuildRunArgv \/ RunClaudeWrapped \/ ClaudeMissing \/ ClaudeStartsServer
    \/ DeclaredName \/ FindAgentFile
    \/ \E cwd \in Dirs, home \in Homes, files \in Trees :
          NoDeclaredName(cwd, home, files)
    \/ \E t \in Times : CliIssueToken(t)
    \/ ParseIssueTokenArgs \/ IssueToken

Spec == Init /\ [][Next]_vars
-----------------------------------------------------------------------------
(* Reference definitions, by position instead of by scanning *)

\* Position i of line s holds the value of an option o given as two words: the
\* run of o's just before i has odd length, for an o after an o is its value.
IsValue(s, i, o) ==
    \E j \in 1 .. i - 1 :
        /\ (i - j) % 2 = 1
        /\ \A k \in j .. i - 1 : s[k] = Flag(o)
        /\ j = 1 \/ s[j - 1] # Flag(o)

\* The last word is an option o that lacks its value.
Dangling(s, o) == s # <<>> /\ Last(s) = Flag(o) /\ ~IsValue(s, Len(s), o)

\* The positions of s with a value for o, in the form of two words or in the
\* form e of one, and the value there.
Values(s, o, e) == {i \in DOMAIN s : IsValue(s, i, o) \/ s[i].opt = e}
ValueAt(s, i, o) == IF IsValue(s, i, o) THEN s[i] ELSE W(s[i].val)
IsLast(i, S) == i \in S /\ \A j \in S : j <= i

\* The positions of s without --as and its values.
NotAs(s) == {i \in DOMAIN s \ Values(s, "--as", "--as=") : s[i] # Flag("--as")}

\* q is what stands at the positions S of s, in order.
Lists(q, s, S) ==
    \E f \in [DOMAIN q -> S] :
        /\ \A k \in DOMAIN q : q[k] = s[f[k]]
        /\ \A k, l \in DOMAIN q : k < l => f[k] < f[l]
        /\ \A i \in S : \E k \in DOMAIN q : f[k] = i

-----------------------------------------------------------------------------
(* Properties *)

\* claude is started with what the user typed after `run`, in order and without
\* --as, and with the channel flag in front unless the user prints or has one.
ClaudeGetsTheRest ==
    LET owned == \E i \in NotAs(typed) : typed[i].opt \in ChannelForms \cup PrintForms
        front == IF owned THEN <<>> ELSE InjectedChannel
        rest == SubSeq(claude, Len(front) + 1, Len(claude))
    IN  pc = "claude" => /\ claude = front \o rest
                         /\ Lists(<<W("run")>> \o rest, typed, NotAs(typed))

\* The name of a session without a declared one comes from the nearest file with
\* a name in it, from the working directory up to $HOME and never above it, and
\* outside $HOME from the working directory alone. (What is in a directory right
\* under $HOME whose name begins with ".." counts as outside.)
NearestFileNames ==
    LET home == place.home
        ups == {d \in Dirs : IsPrefix(d, place.cwd)}
        hidden == place.cwd # home /\ place.cwd[Len(home) + 1] \in Dotted
        within == IF home \in ups /\ ~hidden THEN {d \in ups : Len(home) <= Len(d)}
                  ELSE {place.cwd}
        named == {d \in within : HasName(d)}
    IN  pc = "named" /\ place # Nowhere =>
            \/ named = {} /\ name = W("")
            \/ \E d \in named : (\A e \in named : Len(e) <= Len(d)) /\ name = NameIn(d)

\* A token lives as long as the last --ttl says, or else the configured default,
\* or else a day; it is refused exactly when some --ttl is malformed or out of
\* bounds. This is so for lifetimes without a fraction of a day and with a number
\* of days whose hours fit an int.
IssuedAsAsked ==
    LET given == Values(args, "--ttl", "--ttl=")
        text(i) == Spells(ValueAt(args, i, "--ttl"), time)
        bad == Dangling(args, "--ttl") \/ \E i \in given : Expected(text(i)) = Refused
        default == IF Expected(time) = Refused THEN FallbackTTL ELSE Expected(time)
    IN  /\ ttl # 0 /\ pc # "ttl"
        /\ \A i \in given : Plain(text(i))
        /\ given = {} => Plain(time)
        => \/ bad /\ ttl = Refused
           \/ ~bad /\ given = {} /\ ttl = default
           \/ ~bad /\ \E i \in given : IsLast(i, given) /\ ttl = Expected(text(i))

\* main.go, usage of `run`: "Strips --as into CLAUDE_PEERS_AGENT for the child".
\* The session started by `run --as x` is named x.
RunNamesTheSession ==
    \A i \in DOMAIN typed :
        LET as == TrimSpace(ValueAt(typed, i, "--as"))
        IN  /\ pc = "named" /\ claude # <<>>
            /\ IsLast(i, Values(typed, "--as", "--as=")) /\ as # W("")
            => name = as
=============================================================================
