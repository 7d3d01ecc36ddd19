------------------------------- MODULE Reaper -------------------------------
(***************************************************************************)
(* The reaper task: every interval it lists the expired namespaces,        *)
(* deletes them one by one, then marks the row of each one it deleted.     *)
(* The list is a snapshot; requests run between any two calls.             *)
(***************************************************************************)
EXTENDS Kube

VARIABLE reaper     \* what is left of the pass: to delete, then to mark

ReaperTypeOK ==
    reaper \in [pc: {"sleep", "reap", "mark"},
                due: SUBSET ShortId, reaped: SUBSET ShortId]

Asleep == [pc |-> "sleep", due |-> {}, reaped |-> {}]

ReaperInit == reaper = Asleep

\* A pass that finds nothing goes back to sleep at once.
ListExpired ==
    /\ reaper.pc = "sleep" /\ ExpiredNamespaces # {}
    /\ reaper' = [pc |-> "reap", due |-> ExpiredNamespaces, reaped |-> {}]
    /\ UNCHANGED <<storeVars, kubeVars, faults>>

\* A mutant: a failed delete ends the task.
ReapOneFatal ==
    /\ reaper.pc = "reap"
    /\ \E s \in reaper.due :
          \/ /\ DeleteNamespace(s) /\ NoFault
             /\ reaper' = [reaper EXCEPT !.due = @ \ {s}, !.reaped = @ \cup {s}]
          \/ /\ Fault /\ UNCHANGED kubeVars
             /\ reaper' = [reaper EXCEPT !.pc = "ended"]
    /\ UNCHANGED storeVars

\* One failed delete does not abort the pass.
ReapOne ==
    /\ reaper.pc = "reap"
    /\ \E s \in reaper.due :
          \/ /\ DeleteNamespace(s) /\ NoFault
             /\ reaper' = [reaper EXCEPT !.due = @ \ {s}, !.reaped = @ \cup {s}]
          \/ /\ Fault /\ UNCHANGED kubeVars
             /\ reaper' = [reaper EXCEPT !.due = @ \ {s}]
    /\ UNCHANGED storeVars

StartMarking ==
    /\ reaper.pc = "reap" /\ reaper.due = {}
    /\ reaper' = IF reaper.reaped = {} THEN Asleep ELSE [reaper EXCEPT !.pc = "mark"]
    /\ UNCHANGED <<storeVars, kubeVars, faults>>

\* A failed update is logged and not retried: a later pass finds no
\* namespace to report.
MarkOne ==
    /\ reaper.pc = "mark"
    /\ \E s \in reaper.reaped :
          /\ \/ MarkExpired(s) /\ NoFault
             \/ Fault /\ UNCHANGED storeVars
          /\ reaper' = IF reaper.reaped = {s} THEN Asleep
                       ELSE [reaper EXCEPT !.reaped = @ \ {s}]
    /\ UNCHANGED kubeVars

ReaperStep == ListExpired \/ ReapOne \/ StartMarking \/ MarkOne
=============================================================================
