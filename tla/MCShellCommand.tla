----------------------------- MODULE MCShellCommand -----------------------------
EXTENDS ShellCommand

Plain == [reads |-> FALSE, ends |-> TRUE, ignores |-> FALSE, quiet |-> FALSE, job |-> "none"]

\* cat; a loop that traps SIGTERM and leaves a job; a program with a job that
\* ignores SIGTERM, and one that ignores it as well; a server that closes its
\* outputs; a tool with a job.
Cat      == [Plain EXCEPT !.reads = TRUE]
Stubborn == [Plain EXCEPT !.ends = FALSE, !.ignores = TRUE, !.job = "ignores"]
Survivor == [Plain EXCEPT !.job = "ignores"]
Deaf     == [Survivor EXCEPT !.ignores = TRUE]
Server   == [Plain EXCEPT !.ends = FALSE, !.quiet = TRUE]
Builder  == [Plain EXCEPT !.job = "obeys"]

MCScripts == {Cat, Stubborn, Survivor, Deaf, Server, Builder}
MCReaders == {Cat}
=============================================================================
