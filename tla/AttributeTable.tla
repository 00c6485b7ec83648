---------------------------- MODULE AttributeTable ----------------------------
(***************************************************************************)
(* What an AttributeManager is to those who use it: a table with a row per *)
(* element and a column per attribute.  Elements are created, deleted and  *)
(* permuted as whole rows; a column is added with the default everywhere;  *)
(* a value changes only in the cells that a call names.                    *)
(***************************************************************************)
EXTENDS Renumbering

CONSTANTS Managers, Columns, Values, Default, NoValue

VARIABLES
    columns,  \* per manager, the columns of its table
    rows,     \* per manager, a vector of rows, functions from its columns
    uniform   \* per manager, values that are the same for all elements

vars == <<columns, rows, uniform>>

PermutationsOf(S) ==
    {f \in [S -> S] : \A i, j \in S : f[i] = f[j] => i = j}

\* Nothing of another manager changes.  The uniform values of m belong to no
\* element and are let free here.
OnlyOf(m) ==
    /\ uniform' \in [Managers -> [Columns -> Values \cup {NoValue}]]
    /\ \A other \in Managers \ {m} :
          /\ uniform'[other] = uniform[other]
          /\ columns'[other] = columns[other]
          /\ rows'[other] = rows[other]

\* The table of m becomes the rows r with the columns c.
Replace(m, c, r) ==
    /\ columns' = [columns EXCEPT ![m] = c]
    /\ rows' = [rows EXCEPT ![m] = r]

Init ==
    /\ columns = [m \in Managers |-> {}]
    /\ rows = [m \in Managers |-> [i \in {} |-> {}]]
    /\ uniform = [m \in Managers |-> [c \in Columns |-> NoValue]]

\* A column that did not exist is the default in every row.
AddColumn(m, a) ==
    /\ a \notin columns[m]
    /\ Replace(m, columns[m] \cup {a},
               [i \in DOMAIN rows[m] |->
                   [c \in columns[m] \cup {a} |->
                       IF c = a THEN Default ELSE rows[m][i][c]]])

KeepColumns(m, kept) ==
    /\ kept \subseteq columns[m]
    /\ Replace(m, kept,
               [i \in DOMAIN rows[m] |-> [c \in kept |-> rows[m][i][c]]])

\* All rows and all columns go.
Clear(m) == Replace(m, {}, [i \in {} |-> {}])

\* The last rows go, or rows of defaults come.
Resize(m, size) ==
    Replace(m, columns[m],
            [i \in IndexRange(size) |->
                IF i \in DOMAIN rows[m] THEN rows[m][i]
                ELSE [c \in columns[m] |-> Default]])

DeleteRows(m, deleted) ==
    Replace(m, columns[m], DeleteElements(rows[m], deleted))

PermuteRows(m) ==
    \E permutation \in PermutationsOf(DOMAIN rows[m]) :
        Replace(m, columns[m], PermuteElements(rows[m], permutation))

\* Some cells of one row change.
ChangeRow(m, i) ==
    \E row \in [columns[m] -> Values] :
        Replace(m, columns[m], [rows[m] EXCEPT ![i] = row])

\* Some cells of row i become those of row j.
CopyRow(m, i, j) ==
    \E copied \in SUBSET columns[m] :
        Replace(m, columns[m],
                [rows[m] EXCEPT ![i] =
                    [c \in columns[m] |->
                        IF c \in copied THEN rows[m][j][c] ELSE @[c]]])

\* The table of m becomes some columns of the table of n.
Copy(m, n) ==
    \E copied \in SUBSET columns[n] :
        Replace(m, copied,
                [i \in DOMAIN rows[n] |-> [c \in copied |-> rows[n][i][c]]])

\* Columns of n are imported into m: the cells of row i become those of the
\* row origin[i] of n.  A default may be left out, and a column that m did not
\* have is the default elsewhere.
Import(m, n, origin) ==
    \E imported \in SUBSET Columns, added \in SUBSET columns[n] :
        LET before(i, c) ==
                IF c \in columns[m] THEN rows[m][i][c] ELSE Default
            source(i, c) ==
                IF c \in columns[n] THEN rows[n][origin[i]][c]
                ELSE uniform[n][c]
        IN  /\ columns' = [columns EXCEPT ![m] = @ \cup added]
            /\ DOMAIN rows'[m] = DOMAIN rows[m]
            /\ \A i \in DOMAIN rows[m], c \in columns'[m] :
                IF c \in imported /\ i \in DOMAIN origin
                THEN \/ rows'[m][i][c] = source(i, c)
                     \/ /\ source(i, c) = Default
                        /\ rows'[m][i][c] = before(i, c)
                ELSE rows'[m][i][c] = before(i, c)

ChangeTable(m) ==
    \/ \E a \in Columns : AddColumn(m, a)
    \/ \E kept \in SUBSET columns[m] : KeepColumns(m, kept)
    \/ Clear(m)
    \/ Resize(m, Size(rows'[m]))
    \/ \E deleted \in SUBSET DOMAIN rows[m] : DeleteRows(m, deleted)
    \/ PermuteRows(m)
    \/ \E i \in DOMAIN rows[m] :
        ChangeRow(m, i) \/ \E j \in DOMAIN rows[m] : CopyRow(m, i, j)
    \/ \E n \in Managers :
        \/ Copy(m, n)
        \/ \E imported \in SUBSET DOMAIN rows[m] :
            \E origin \in [imported -> DOMAIN rows[n]] :
                Import(m, n, origin)

Next == \E m \in Managers : OnlyOf(m) /\ ChangeTable(m)

Spec == Init /\ [][Next]_vars
===============================================================================
