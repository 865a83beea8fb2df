------------------------------ MODULE MCOutbox ------------------------------
(* Small instances of Outbox for TLC.                                       *)
EXTENDS Outbox

\* Every batch may take every row (the worker CLI, the admin endpoint).
AllRows == [w \in Workers |-> Events]
=============================================================================
