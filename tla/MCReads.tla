------------------------------ MODULE MCReads ------------------------------
(***************************************************************************)
(* Three cells with transactions, of different TPV at first, and a catalog *)
(* with one that has none, and one that has old ones, of equal market      *)
(* shares; a post brings a tie, or a cell not seen before.                 *)
(* ints go up to 7, pages have at most 3 rows and 2 by default.            *)
(***************************************************************************)
EXTENDS Reads

PixBR == <<"pix", "BR">>
CardBR == <<"card", "BR">>
CardCO == <<"card", "CO">>
PseCO == <<"pse", "CO">>

MCCells == {PixBR, CardBR, CardCO, PseCO}
MCCatalog == [c \in {PixBR, PseCO, CardCO} |-> IF c = PixBR THEN 1 ELSE 2]
MCEssential == {PseCO}

T(c, n, ok) == [cell |-> c, usd |-> n, approved |-> ok, recent |-> TRUE]

Old(t) == [t EXCEPT !.recent = FALSE]

MCInitial == <<T(PixBR, 3, TRUE), T(CardBR, 2, TRUE), Old(T(CardCO, 1, TRUE)), Old(T(CardCO, 9, FALSE))>>
MCPosts == {<<T(CardCO, 2, TRUE), T(PixBR, 1, FALSE)>>, <<T(PseCO, 5, TRUE)>>}

Plain == [kind |-> "metrics", select |-> MCCells, essential |-> FALSE,
          sort |-> "tpv_usd", order |-> "desc", page |-> 1, size |-> 0]
InCO(r) == [r EXCEPT !.select = {CardCO, PseCO}]
Page(r, p, s) == [r EXCEPT !.page = p, !.size = s]
List == [Plain EXCEPT !.kind = "list"]

(* Walks with the default, the smallest and a too large page_size; pages   *)
(* past the end; and page numbers whose offset, or end, overflows.         *)
MCRequests ==
    {Plain, Page(Plain, 1, 1), Page(Plain, 7, 7), Page(Plain, 4, 5),
     [Plain EXCEPT !.sort = "transaction_count", !.order = "asc"],
     List, Page(List, -2, 7), Page(List, 3, 3), Page(List, 2, 5), Page(List, 7, 3), Page(List, 4, 2),
     [Plain EXCEPT !.kind = "report"]}
    \cup {[r EXCEPT !.essential = e] :
             r \in {[Plain EXCEPT !.kind = "gaps", !.size = 3], InCO([Plain EXCEPT !.kind = "gaps"])},
             e \in BOOLEAN}
=============================================================================
