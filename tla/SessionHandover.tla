-------------------------- MODULE SessionHandover --------------------------
(***************************************************************************)
(* The mapping under which SessionManager implements SubmittedTurn.         *)
(***************************************************************************)
EXTENDS SessionManager

(* The record on disk, refined by whether the agent has had the prompt. *)
Life(s) ==
  CASE TakenByClose(s)                                  -> "taken"
    [] ~TakenByClose(s) /\ diskRecord[s] \in Terminal   -> diskRecord[s]
    [] ~TakenByClose(s) /\ diskRecord[s] \notin Terminal ->
         IF s \in handed THEN "handed"
         ELSE IF diskRecord[s] = None THEN "unknown" ELSE diskRecord[s]

Promise == INSTANCE SubmittedTurn WITH life <- [s \in Turn |-> Life(s)]

(* The submission records on disk and the prompts typed into the panes keep    *)
(* SubmittedTurn's promise, whatever crashes, write faults, restarts, releases *)
(* and closes come between the awaits of submit and executeSubmission          *)
(* (session-manager.js:539-1030).                                              *)
ImplementsSubmittedTurn == Promise!Spec
=============================================================================
