---------------------------- MODULE JobLifecycle ----------------------------
(***************************************************************************)
(* What src/lsh promises of its jobs to whoever types: no lists, no        *)
(* handles, no signals, and of a pipeline only its first program.  A job   *)
(* is started, is waited for or goes to the list of jobs, may be taken     *)
(* back from there, and is announced once when it is done.                 *)
(***************************************************************************)

CONSTANT Jobs

VARIABLES shell,     \* "prompt": it reads a line
          phase,     \* where every job is
          program    \* how far the first program of every job is

lifecycleVars == <<shell, phase, program>>

-----------------------------------------------------------------------------
InHand == {"starting", "taken", "waited"}

LifecycleTypeOK ==
    /\ shell \in {"busy", "prompt", "leaving", "over"}
    /\ phase \in [Jobs -> InHand \union {"new", "listed", "done", "gone"}]
    /\ program \in [Jobs -> {"none", "starting", "running", "ended"}]

LifecycleInit ==
    /\ shell = "busy"
    /\ phase = [j \in Jobs |-> "new"]
    /\ program = [j \in Jobs |-> "none"]

(* The shell does not have any job in hand.                                *)
FreeHand == \A j \in Jobs : phase[j] \notin InHand

Moves(j, from, to) ==
    /\ phase[j] \in from
    /\ phase' = [phase EXCEPT ![j] = to]

(* No prompt before every job that is done was announced.                  *)
Prompt ==
    /\ shell = "busy"
    /\ FreeHand
    /\ \A j \in Jobs : phase[j] # "done"
    /\ shell' = "prompt"
    /\ UNCHANGED <<phase, program>>

Line ==
    /\ shell = "prompt"
    /\ shell' = "busy"
    /\ UNCHANGED <<phase, program>>

Start(j) ==
    /\ shell = "prompt"
    /\ Moves(j, {"new"}, "starting")
    /\ shell' = "busy"
    /\ UNCHANGED program

Forked(j) ==
    /\ phase[j] = "starting"
    /\ program[j] = "none"
    /\ program' = [program EXCEPT ![j] = "starting"]
    /\ UNCHANGED <<shell, phase>>

(* A program begins to run only while its pipeline is being started.       *)
Runs(j) ==
    /\ phase[j] = "starting"
    /\ program[j] = "starting"
    /\ program' = [program EXCEPT ![j] = "running"]
    /\ UNCHANGED <<shell, phase>>

Ends(j) ==
    /\ shell # "over"
    /\ program[j] \in {"starting", "running"}
    /\ program' = [program EXCEPT ![j] = "ended"]
    /\ UNCHANGED <<shell, phase>>

Started(j) ==
    /\ program[j] \in {"running", "ended"}
    /\ Moves(j, {"starting"}, "taken")
    /\ UNCHANGED <<shell, program>>

(* A pipeline that cannot be started goes without its first program having *)
(* run.                                                                    *)
Abandoned(j) ==
    /\ program[j] # "running"
    /\ Moves(j, {"starting"}, "gone")
    /\ program' = [program EXCEPT ![j] = IF @ = "none" THEN "none" ELSE "ended"]
    /\ UNCHANGED shell

Waits(j) ==
    /\ Moves(j, {"taken"}, "waited")
    /\ UNCHANGED <<shell, program>>

(* A foreground job that ended is not announced.                           *)
Forgets(j) ==
    /\ program[j] = "ended"
    /\ Moves(j, {"waited"}, "gone")
    /\ UNCHANGED <<shell, program>>

Lists(j) ==
    /\ Moves(j, {"taken", "waited"}, "listed")
    /\ UNCHANGED <<shell, program>>

Takes(j) ==
    /\ shell = "busy"
    /\ FreeHand
    /\ Moves(j, {"listed"}, "taken")
    /\ UNCHANGED <<shell, program>>

(* A job is done at any time, but while the shell waits for another: what  *)
(* is listed then is left as it is.                                        *)
Done(j) ==
    /\ shell \in {"busy", "prompt"}
    /\ \A i \in Jobs : phase[i] # "waited"
    /\ program[j] = "ended"
    /\ Moves(j, {"listed"}, "done")
    /\ UNCHANGED <<shell, program>>

Announces(j) ==
    /\ shell \in {"busy", "leaving"}
    /\ FreeHand
    /\ Moves(j, {"done"}, "gone")
    /\ UNCHANGED <<shell, program>>

Leaves ==
    /\ shell \in {"busy", "prompt"}
    /\ FreeHand
    /\ shell' = "leaving"
    /\ UNCHANGED <<phase, program>>

HangsUp(j) ==
    /\ shell = "leaving"
    /\ Moves(j, {"listed"}, "gone")
    /\ UNCHANGED <<shell, program>>

(* The shell leaves nothing behind that it still would have to announce.   *)
Exits ==
    /\ shell = "leaving"
    /\ \A j \in Jobs : phase[j] \in {"new", "gone"}
    /\ shell' = "over"
    /\ UNCHANGED <<phase, program>>

(* A segmentation fault; the job in hand is lost.                          *)
Crashes ==
    /\ shell \in {"busy", "prompt"}
    /\ \A j \in Jobs : phase[j] # "waited"
    /\ shell' = "over"
    /\ phase' = [j \in Jobs |-> IF phase[j] \in InHand THEN "gone" ELSE phase[j]]
    /\ UNCHANGED program

LifecycleActions ==
    \/ Prompt \/ Line \/ Leaves \/ Exits \/ Crashes
    \/ \E j \in Jobs : \/ Start(j) \/ Forked(j) \/ Runs(j) \/ Ends(j)
                       \/ Started(j) \/ Abandoned(j) \/ Waits(j) \/ Forgets(j)
                       \/ Lists(j) \/ Takes(j)
                       \/ Done(j) \/ Announces(j) \/ HangsUp(j)

(* Every step shows.                                                       *)
LifecycleNext == lifecycleVars' # lifecycleVars /\ LifecycleActions

LifecycleSpec == LifecycleInit /\ [][LifecycleNext]_lifecycleVars

-----------------------------------------------------------------------------
(* The shell has one job in hand at most, none at the prompt or on its way *)
(* out; and only what has ended is announced as done.                      *)
OneInHand ==
    /\ \A i, j \in Jobs : {phase[i], phase[j]} \subseteq InHand => i = j
    /\ shell # "busy" => FreeHand
    /\ \A j \in Jobs : phase[j] = "done" => program[j] = "ended"
=============================================================================
