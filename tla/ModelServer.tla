---- MODULE ModelServer ----
(* What the lock of the inference facade promises: whatever the number of  *)
(* processes and of their tasks, the model server works on one request at  *)
(* a time.                                                                 *)
CONSTANTS
    Callers,
    Nobody

VARIABLE serving    \* the task whose request the server works on

Init == serving = Nobody

Begin == serving = Nobody /\ serving' \in Callers

End == serving # Nobody /\ serving' = Nobody

Next == Begin \/ End

Spec == Init /\ [][Next]_serving
====
