----------------------------- MODULE MCAgentCli -----------------------------
(* Argument vectors and paths for model checking AgentCli.                 *)
EXTENDS AgentCli

\* A path of accepted characters that exists, a longer one that does not,
\* and paths with a character the path regex rejects.
PathOk      == << "c" >>
PathMissing == << "c", "c" >>
PathCut     == << "c", "x" >>
PathBad     == << "x" >>

MCExistingPaths == {PathOk}

\* One token of every class parse_args tells apart that the processes here
\* can meet.
MCTokens ==
  { Tok(""), Tok("start"), Tok("daemon"), Tok("run-exthandlers"),
    Tok("collect-logs"), Tok("full"), Tok("version"), Tok("deprovision"),
    Tok("bogus"), FirewallTok(<< "ip" >>), FirewallTok(<< "short" >>),
    ConfTok(PathOk), ConfTok(PathMissing), ConfTok(PathCut), ConfTok(PathBad) }

\* Every argv of at most two tokens.
MCArgvs == BoundedSeq(MCTokens, 2)

\* The argv of one collect-logs run.
MCCollectArgvs == { << Tok("collect-logs") >> }

\* Argvs with one configuration path each.
MCConfArgvs == { << ConfTok(p), Tok("start") >> : p \in {PathOk, PathCut, PathBad} }
=============================================================================
