--------------------------- MODULE MCPriceSignal ---------------------------
(* PriceSignal on a small instance.                                         *)
EXTENDS PriceSignal

Book(bids, asks) == [bids |-> bids, asks |-> asks]

\* Rises and falls by 297 basis points from the calm book; the third level of
\* asks of the rising book would tip its imbalance.  The last book has no bids.
FourBooks ==
    {Book(<<<<100, 5>>>>, <<<<102, 5>>>>),
     Book(<<<<103, 6>>>>, <<<<105, 1>>, <<106, 1>>, <<107, 9>>>>),
     Book(<<<<97, 1>>>>, <<<<99, 6>>>>),
     Book(<<>>, <<<<99, 4>>>>)}

OneReport == {240}
=============================================================================
