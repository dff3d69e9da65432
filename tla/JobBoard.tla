----------------------------- MODULE JobBoard -----------------------------
(***************************************************************************)
(* What the transcription queue promises, whatever its threads, its lock,   *)
(* its file and its crashes look like: one board of jobs that outlives the  *)
(* program.  A job the user hands in waits, runs alone, and ends done or    *)
(* failed; it runs again only if the user asks; it leaves the board only if *)
(* the user drops it; and a job that is done has been delivered.            *)
(***************************************************************************)
CONSTANT Jobs

VARIABLES
    state,      \* where each job stands
    delivered   \* jobs whose transcript was written

boardVars == <<state, delivered>>

JobStates == {"unknown", "waiting", "running", "done", "failed", "dropped"}

BoardTypeOK ==
    /\ state \in [Jobs -> JobStates]
    /\ delivered \subseteq Jobs

BoardInit ==
    /\ state = [j \in Jobs |-> "unknown"]
    /\ delivered = {}

Move(j, from, to) ==
    /\ state[j] = from
    /\ state' = [state EXCEPT ![j] = to]

HandIn(j) == Move(j, "unknown", "waiting") /\ UNCHANGED delivered

Start(j) ==
    /\ \A k \in Jobs : state[k] # "running"
    /\ Move(j, "waiting", "running")
    /\ UNCHANGED delivered

Deliver(j) ==
    /\ state[j] = "running"
    /\ delivered' = delivered \cup {j}
    /\ UNCHANGED state

Complete(j) ==
    /\ j \in delivered
    /\ Move(j, "running", "done")
    /\ UNCHANGED delivered

GiveUp(j) == Move(j, "running", "failed") /\ UNCHANGED delivered

AskAgain(j) == Move(j, "failed", "waiting") /\ UNCHANGED delivered

Drop(j) ==
    /\ Move(j, "failed", "dropped") \/ Move(j, "done", "dropped")
    /\ UNCHANGED delivered

BoardNext ==
    \E j \in Jobs :
        \/ HandIn(j) \/ Start(j) \/ Deliver(j) \/ Complete(j)
        \/ GiveUp(j) \/ AskAgain(j) \/ Drop(j)

BoardSpec == BoardInit /\ [][BoardNext]_boardVars
=============================================================================
