----------------------------- MODULE MCNodeLife -----------------------------
(* NodeLife on a few manifests.  Each world opens what one part of the          *)
(* supervisor is for; the others are closed in it.                              *)
EXTENDS NodeLife

Quiet ==
    [policy |-> "never", max_restarts |-> 0, queue |-> 20, evicts |-> TRUE,
     depth |-> 30, reads |-> FALSE, pulls |-> FALSE,
     sends |-> 1, closes |-> FALSE, ends |-> {"ok", "fail"}, early |-> FALSE,
     spoilt |-> {}, runs_out |-> {}, stops |-> {}, stoppable |-> {}]

(* A node that crashes, closes or finishes, and is restarted.                   *)
Crashing == [Quiet EXCEPT !.policy = "on_failure", !.max_restarts = 2, !.closes = TRUE]

(* One that is restarted although it finished, and whose second respawn fails.  *)
Spoilt == [Quiet EXCEPT !.policy = "always", !.max_restarts = 2, !.spoilt = {2}]

(* One that may crash before the daemon has read its registration, or be too    *)
(* slow to register.                                                            *)
Early ==
    [Quiet EXCEPT !.policy = "on_failure", !.max_restarts = 1, !.early = TRUE,
                  !.runs_out = {"spawn"}]

(* One that lingers after it announced its end, or whose session does.          *)
Lingering ==
    [Quiet EXCEPT !.policy = "on_failure", !.max_restarts = 1, !.ends = {"fail"},
                  !.runs_out = {"drain", "closure"}]

(* One that is told to stop.                                                    *)
Stopped ==
    [Quiet EXCEPT !.policy = "always", !.max_restarts = 1, !.runs_out = {"term", "kill"},
                  !.stops = {"stop", "shutdown"}, !.stoppable = {"spawning", "running"}]

Waiting == [Stopped EXCEPT !.stoppable = {"restarting"}]

(* One that misses its deadlines.                                               *)
Missing ==
    [Quiet EXCEPT !.policy = "on_failure", !.max_restarts = 1,
                  !.runs_out = {"health", "drain"}, !.ends = {"fail"}]

(* A consumer that falls behind, with either queue policy, pushed to or pulling.*)
Behind == {[Quiet EXCEPT !.queue = 2, !.evicts = e, !.depth = 2, !.reads = TRUE, !.pulls = p,
                         !.sends = 4, !.closes = TRUE] :
             e \in BOOLEAN, p \in BOOLEAN}

MCWorlds == {Crashing, Spoilt, Early, Lingering, Stopped, Waiting, Missing} \cup Behind
=============================================================================
