---------------------------- MODULE TimerService ----------------------------
(***************************************************************************)
(* What a timer scheduler promises about the timers it is given, whatever  *)
(* heap, threads and executor it is made of. A timer fires at most once    *)
(* per arming and never in two threads at the same time; one that is       *)
(* cancelled while armed never fires again, one that is cancelled while it *)
(* fires is not armed again; once the service is closed nothing is armed.  *)
(***************************************************************************)
CONSTANT Timer

VARIABLES life,     \* unborn, armed, firing, lastFiring or dead
          phase     \* new, open or closed

timerVars == <<life, phase>>

TimerInit == /\ life = [i \in Timer |-> "unborn"]
             /\ phase = "new"

Becomes(i, from, to) == /\ life[i] = from
                        /\ life' = [life EXCEPT ![i] = to]
                        /\ UNCHANGED phase

Open == phase = "new" /\ phase' = "open" /\ UNCHANGED life

Arm(i)    == phase = "open" /\ Becomes(i, "unborn", "armed")
Fire(i)   == Becomes(i, "armed", "firing")
Rearm(i)  == phase = "open" /\ Becomes(i, "firing", "armed")
Finish(i) == Becomes(i, "firing", "dead") \/ Becomes(i, "lastFiring", "dead")
Cancel(i) == Becomes(i, "armed", "dead") \/ Becomes(i, "firing", "lastFiring")

\* An executor that refuses a shot kills its timer.
Lose(i) == Becomes(i, "armed", "dead")

\* Closing takes armed timers with it, at once or bit by bit.
Shut == /\ phase' = "closed"
        /\ \E D \in SUBSET {i \in Timer : life[i] = "armed"} :
              life' = [i \in Timer |-> IF i \in D THEN "dead" ELSE life[i]]

TimerNext == \/ Open \/ Shut
             \/ \E i \in Timer : \/ Arm(i) \/ Fire(i) \/ Rearm(i) \/ Finish(i)
                                 \/ Cancel(i) \/ Lose(i)

TimerSpec == TimerInit /\ [][TimerNext]_timerVars
=============================================================================
