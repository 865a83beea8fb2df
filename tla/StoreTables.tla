---------------------------- MODULE StoreTables ----------------------------
(***************************************************************************)
(* The rows of the store by table: a row is the pair of its table and its  *)
(* identifier.  What the sections of the commands have in common: find,    *)
(* patchAppRows, appendAppRows, withId.                                    *)
(***************************************************************************)
EXTENDS AppStore

VARIABLE call       \* [Calls -> what a client asks for: its operation and its inputs]

RowsOf(t) == {r \in Rows : r[1] = t}

\* The rows of a table that a store holds.
In(s, t) == {r \in RowsOf(t) : s[r] # Absent}

\* rows.find(...): a table has an order, hence one row that is found first.
Find(s, t) == CHOOSE r \in In(s, t) : TRUE

\* The row a command appends: withId gives it an identifier of its own.
New(t, c) == <<t, c>>

\* The store with the rows of f patched or appended, and without the rows of gone.
Put(s, f) == [r \in Rows |-> IF r \in DOMAIN f THEN f[r] ELSE s[r]]
Remove(s, gone) == [r \in Rows |-> IF r \in gone THEN Absent ELSE s[r]]
=============================================================================
