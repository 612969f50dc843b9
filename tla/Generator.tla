----------------------------- MODULE Generator -----------------------------
(***************************************************************************)
(* Which fragment of the sample database the generator puts a record into  *)
(* (src/rdbms/create_files.c).  Customers are numbered through, so many to *)
(* a fragment; a purchase and its review go where their customer is.       *)
(*                                                                         *)
(* A query is run by every peer on the fragments it holds and the results  *)
(* are put one after the other: a join is answered rightly only if every   *)
(* pair of records it is about is at one peer.                             *)
(*                                                                         *)
(* A record is modelled by its id and the id of its customer.  The id of   *)
(* the customer is random.                                                 *)
(***************************************************************************)
EXTENDS Fragments

CONSTANT CustomerCount \* CUSTOMER_COUNT; FRAGMENTS is FragmentCount

\* What CUSTOMER_COUNT and FRAGMENTS satisfy, 30000 and 4.
EvenlySplit ==
  /\ CustomerCount \in Nat /\ FragmentCount \in Nat \ {0}
  /\ \E size \in Nat \ {0} : CustomerCount = FragmentCount * size

Customers == 0..(CustomerCount - 1)

\* CUSTOMER_COUNT / FRAGMENTS
PerFragment == CustomerCount \div FragmentCount

\* create_customer: i + j * (CUSTOMER_COUNT / FRAGMENTS)
CustomersIn(j) == {i + j * PerFragment : i \in 0..(PerFragment - 1)}

\* destination_fragment
Destination(customer) == customer \div PerFragment

\* Purchases, or reviews, as they are drawn: each of some customer.
Drawn(records) == \A r \in records : r.customer \in Customers

\* create_purchase_and_review: those that are inserted into fragment j.
PlacedIn(records, j) == {r \in records : Destination(r.customer) = j}

\* customer.id = purchase.customer_id and purchase.customer_id =
\* review.customer_id, over whatever fragments there are.
OfCustomer(customers, records) ==
  {pair \in customers \X records : pair[1] = pair[2].customer}
OfOneCustomer(purchases, reviews) ==
  {pair \in purchases \X reviews : pair[1].customer = pair[2].customer}

\* What a peer with the fragments S holds.
CustomersAt(S) == UNION {CustomersIn(j) : j \in S}
PlacedAt(records, S) == UNION {PlacedIn(records, j) : j \in S}
=============================================================================
