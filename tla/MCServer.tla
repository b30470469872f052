-------------------------------- MODULE MCServer --------------------------------
(* An instance of Server for TLC: two kinds of job, one of them with two        *)
(* candidates, one of which is a file that is also uploaded through the relay.  *)
EXTENDS Server

CONSTANTS c1, c2, t1, t2

TwoFiles   == {c1, c2}
TwoUploads == {t1, t2}
Uploads    == {[file |-> c, size |-> 3] : c \in TwoFiles} \cup {[file |-> Nothing, size |-> 5]}
TwoJobs    == <<"observe", "purge">>
Observed   == [c \in TwoFiles |-> "observe"]
===============================================================================
