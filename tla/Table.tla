-------------------------------- MODULE Table --------------------------------
(***************************************************************************)
(* The tables of the pages: a page of the filtered rows, and the Pager     *)
(* under it (frontend/src/components/ui.tsx).  Rows are numbers, in the    *)
(* order of the answer.                                                    *)
(***************************************************************************)
EXTENDS Naturals, FiniteSets

Rank(rows, i) == Cardinality({j \in rows : j < i})

\* filtered.slice(start, start + pageSize)
Shown(rows, at, size) == {i \in rows : Rank(rows, i) \in (at * size) .. (at * size + size - 1)}

PageCount(rows, size) ==
    IF rows = {} THEN 1 ELSE (Cardinality(rows) + size - 1) \div size

\* The pages the Pager leads to: previous, next, and the first five.
PagerTo(rows, at, size) ==
    {p \in {at - 1} : at > 0}
      \union {p \in {at + 1} : at < PageCount(rows, size) - 1}
      \union {p \in 0 .. 4 : p < PageCount(rows, size)}
=============================================================================
