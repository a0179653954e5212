------------------------------ MODULE MCShell ------------------------------
\* The instance of Shell for TLC.
EXTENDS Shell
Exec(prog) == [type |-> "EXEC", prog |-> prog]
Redir(fd, cmd) == [type |-> "REDIR", fd |-> fd, cmd |-> cmd]
Two(type, left, right) == [type |-> type, left |-> left, right |-> right]
Back(cmd) == [type |-> "BACK", cmd |-> cmd]
\* gen | cat | cat > f        (gen | cat) < f ;        gen > f &
MCCmds == { Two("PIPE", Exec("gen"), Two("PIPE", Exec("cat"), Redir(1, Exec("cat")))),
            Two("LIST", Redir(0, Two("PIPE", Exec("gen"), Exec("cat"))), Exec("")),
            Back(Redir(1, Exec("gen"))) }
=============================================================================
