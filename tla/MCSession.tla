------------------------------ MODULE MCSession ------------------------------
(* Small instances of Session for TLC. *)
EXTENDS Session, TLC

(* A terminal without credentials, a terminal whose email is configured, a  *)
(* cron job with credentials, a cron job whose client secret is missing.    *)
Terminal == [creds |-> "none", tty |-> TRUE, email |-> FALSE, password |-> FALSE]
Configured == [Terminal EXCEPT !.email = TRUE]
Cron     == [creds |-> "both", tty |-> FALSE, email |-> FALSE, password |-> TRUE]
HalfCron == [creds |-> "half", tty |-> FALSE, email |-> TRUE, password |-> TRUE]

EnvTwo == {Terminal, Cron}
EnvAll == {Configured, Cron, HalfCron}

Symmetry == Permutations(Proc)
==============================================================================
