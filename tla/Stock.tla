---------------------------------- MODULE Stock --------------------------------
(***************************************************************************)
(* The stock as all the services change it at once.                        *)
(***************************************************************************)
EXTENDS Inventory, StockTake, Production

Init == TablesInit

Next ==
  \/ InventoryNext
  \/ StockTakeNext
  \/ ProductionNext
  \/ \E w \in Workers : \/ \E d \in Documents : \/ Cancel(w, d)
                                               \/ \E to \in ByHand : SetStatus(w, d, to)
                        \/ \E p \in Products : Read(w, p)
                        \/ CommitStatus(w)
                        \/ Abandon(w)
  \/ \E p \in Products : Shrink(p)

Spec == Init /\ [][Next]_vars

Rows == Seq([system : Int, variance : Int])

\* Types of the tables, the requests under way and the history.
TypeOK ==
  /\ onHand \in Quantities
  /\ status \in [Documents -> Status]
  /\ counts \in [Takes -> [Products -> Rows]]
  /\ snapshot = [b \in Bulks |-> snapshot[b]]
  /\ \A b \in Bulks : /\ DOMAIN snapshot[b] \subseteq Products
                      /\ snapshot[b] \in [DOMAIN snapshot[b] -> Int]
  /\ txn \in [Workers -> Txn]
  /\ requests \in Nat
  /\ logged \in Quantities
  /\ shelf \in Quantities
  /\ receipts \in [Purchases -> [Products -> Nat]]
  /\ applied \in [Takes -> Nat]
  /\ raced \subseteq Products /\ unlogged \subseteq Products /\ signed \subseteq Products
  /\ contended \subseteq Documents /\ overridden \subseteq Documents
  /\ skipped \in [Purchases -> SUBSET Products]
  /\ repeated \in [Purchases -> SUBSET Products]
  /\ broken \subseteq Purchases
  /\ basis \in [Takes -> Quantities]
  /\ exact \in [Takes -> SUBSET Products]

-----------------------------------------------------------------------------
\* The log explains the stock: unless two requests held a quantity of the
\* product at once, or one changed it that does not log what it did, the
\* quantity is the opening quantity and all that the log adds to it.
LogExplainsStock ==
  \A p \in Products \ (raced \cup unlogged) : onHand[p] = logged[p]

\* However sales and adjustments interleave, none of them drives a quantity below
\* zero: each writes a value that it has checked.  A product that a request without
\* that check has changed (a bulk change, an edit, a receipt, a stock take) is not
\* spoken of.
NotBelowZero == \A p \in Products \ signed : onHand[p] >= 0

\* Each line of a purchase order comes into stock at most once, unless one
\* request named it again, two requests worked on the order at once, a receipt
\* of it died on its way, or someone set its status by hand.
ReceivedOnce ==
  \A o \in Purchases \ (contended \cup broken \cup overridden) :
    \A p \in Products \ repeated[o] : receipts[o][p] <= 1

\* An order that its receipt has marked as received has all its lines in stock
\* that were not passed over, whatever raced or died.
ReceivedIsInStock ==
  \A o \in Purchases \ overridden : status[o] = "received" =>
    \A p \in Ordered(o) \ skipped[o] : receipts[o][p] >= 1

\* A stock take has changed the stock once when it is completed and not at all
\* otherwise, unless two requests worked on it at once.
CompletedMeansApplied ==
  \A s \in Takes \ contended : applied[s] = IF status[s] = "completed" THEN 1 ELSE 0

\* A stock take repairs the record: if nothing had moved between its start and
\* the count of a product, its completion leaves the quantity that is really
\* there, although sales and receipts went on after the count.
CountCorrects ==
  [][\A w \in Workers :
       CommitSession(w) /\ txn[w].of \notin contended' =>
         \A p \in exact[txn[w].of] \ (raced' \cup unlogged') : onHand'[p] = shelf'[p]]_vars
=============================================================================
