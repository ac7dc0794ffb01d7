--------------------------- MODULE SubmittedTurn ---------------------------
(***************************************************************************)
(* What the daemon promises of a submitted turn, without saying how: its    *)
(* record only goes forward, its prompt reaches the agent at most once and   *)
(* only while the record says running, a turn is completed only if the       *)
(* agent had its prompt, and a verdict stays.  A turn that a close takes     *)
(* away is promised nothing more.                                            *)
(***************************************************************************)
CONSTANT Turn

VARIABLE life   \* [Turn -> where its life is]

Open    == {"unknown", "accepted", "running", "handed"}
Verdict == {"completed", "failed", "interrupted"}

Init == life = [s \in Turn |-> "unknown"]

Step(s, from, to) == life[s] \in from /\ life' = [life EXCEPT ![s] = to]

Accept(s)   == Step(s, {"unknown"}, "accepted")
Start(s)    == Step(s, {"accepted"}, "running")
HandOver(s) == Step(s, {"running"}, "handed")
Complete(s) == Step(s, {"handed"}, "completed")

(* Also before it is accepted: the rejected admission writes only "failed". *)
GiveUp(s)   == \E verdict \in Verdict \ {"completed"} : Step(s, Open, verdict)
Take(s)     == Step(s, Open, "taken")

Next == \E s \in Turn :
  Accept(s) \/ Start(s) \/ HandOver(s) \/ Complete(s) \/ GiveUp(s) \/ Take(s)

Spec == Init /\ [][Next]_life
=============================================================================
