---------------------------- MODULE AtLeastOnce ----------------------------
(***************************************************************************)
(* What a queue backend promises an uploader, with nothing of messages,    *)
(* actors, processes or rows:                                              *)
(*   - an accepted job is somebody's until it has a verdict: put down      *)
(*     without one, it would be lost;                                      *)
(*   - a verdict is reached while somebody has the job, unless the job is  *)
(*     turned away at the door or removed from outside;                    *)
(*   - verdicts are not taken back, but a job may get more than one: at    *)
(*     least once is not exactly once;                                     *)
(*   - a job that was put down is never picked up again: what is delivered *)
(*     again is what somebody still had.                                   *)
(* DramatiqPipeline is shown to implement this specification.              *)
(***************************************************************************)
CONSTANT Jobs

VARIABLES
  accepted,  \* the jobs whose request was answered
  held,      \* the jobs a message, an actor or a process is about
  verdicts   \* what became of each job

avars == <<accepted, held, verdicts>>

AInit ==
  /\ accepted = {}
  /\ held = {}
  /\ verdicts = [j \in Jobs |-> {}]

Told(j, verdict) == verdicts' = [verdicts EXCEPT ![j] = @ \union {verdict}]

Accept(j) ==
  /\ j \notin accepted
  /\ accepted' = accepted \union {j}
  /\ held' = held \union {j}
  /\ UNCHANGED verdicts

TurnAway(j) ==
  /\ j \notin accepted
  /\ accepted' = accepted \union {j}
  /\ Told(j, "unpublished")
  /\ UNCHANGED held

Decide(j, verdict) ==
  /\ j \in held
  /\ Told(j, verdict)
  /\ UNCHANGED <<accepted, held>>

PutDown(j) ==
  /\ verdicts[j] # {}
  /\ held' = held \ {j}
  /\ UNCHANGED <<accepted, verdicts>>

Remove(j) ==
  /\ Told(j, "removed")
  /\ held' \in {held, held \ {j}}
  /\ UNCHANGED accepted

ANext ==
  \E j \in Jobs :
    \/ Accept(j) \/ TurnAway(j) \/ PutDown(j) \/ Remove(j)
    \/ \E verdict \in {"delivered", "failed", "unpublished"} : Decide(j, verdict)

ASpec == AInit /\ [][ANext]_avars
=============================================================================
