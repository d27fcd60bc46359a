----------------------------- MODULE NumberBook -----------------------------
(***************************************************************************)
(* What the numbering of journals promises to a bookkeeper: each company   *)
(* keeps a book of journals.  A transaction adds its journals at the end   *)
(* of the book, all of them or none.  A journal's number is its position,  *)
(* so numbers are never reused, never changed and never skipped.           *)
(***************************************************************************)
EXTENDS Sequences, Functions

CONSTANTS Journals, Companies

VARIABLE book       \* book[c][n] is the journal number n of company c

Entered(c) == Range(book[c])

BookInit == book = [c \in Companies |-> << >>]

Enter(c, batch) ==
    /\ batch # << >>
    /\ IsInjective(batch)
    /\ \A d \in Companies : Range(batch) \cap Entered(d) = {}
    /\ book' = [book EXCEPT ![c] = @ \o batch]

\* The batch is read off the new book: whatever follows the old one.
Added(c) == SubSeq(book'[c], Len(book[c]) + 1, Len(book'[c]))

BookNext == \E c \in Companies : Enter(c, Added(c))

BookSpec == BookInit /\ [][BookNext]_book
=============================================================================
