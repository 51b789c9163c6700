------------------------------- MODULE AuditLog -------------------------------
(***************************************************************************)
(* What the audit log promises: rows are only added, each after all the    *)
(* rows there are, and each names the row before it.                       *)
(***************************************************************************)
EXTENDS Naturals

CONSTANT Row  \* records with the fields id and prev, which is 0 if none is before

VARIABLE log

\* e names the row before it in L.
Linked(L, e) ==
    /\ e.prev < e.id
    /\ e.prev = 0 \/ \E f \in L : f.id = e.prev
    /\ \A f \in L : f.id < e.id => f.id <= e.prev

Intact(L) == \A e \in L : Linked(L, e)

LogInit == log \in SUBSET Row /\ Intact(log)

\* e is the one new row, and the last.
Append(e) ==
    /\ e \in Row
    /\ \A f \in log : f.id < e.id
    /\ log' = log \cup {e}
    /\ Linked(log', e)

LogNext == \E e \in log' : Append(e)

LogSpec == LogInit /\ [][LogNext]_log
=============================================================================
