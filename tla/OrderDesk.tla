----------------------------- MODULE OrderDesk ------------------------------
(***************************************************************************)
(* What hl_place_order promises, whatever threads, timeouts and lost or    *)
(* late messages do underneath: a request makes at most one order, and the *)
(* order id a caller is told is the id of the order made of its request,   *)
(* told once and only after the order exists. An id from IntLimit on may   *)
(* reach the caller as another number.                                     *)
(***************************************************************************)
EXTENDS Integers, Sequences

CONSTANT IntLimit   \* ids below it are told as they are

VARIABLES
  sent,   \* requests that have left the client, numbered from 1
  book,   \* order id -> the request the order was made of
  told    \* pairs <<request, order id>> that callers have been given

deskVars == <<sent, book, told>>

DeskTypeOK ==
  /\ sent \in Nat
  /\ book \in Seq(1..sent)
  /\ told \subseteq Nat \X Int

Init ==
  /\ sent = 0
  /\ book = <<>>
  /\ told = {}

Send ==
  /\ sent' = sent + 1
  /\ UNCHANGED <<book, told>>

\* The exchange makes an order of a request that has none yet.
Place(n) ==
  /\ \A o \in DOMAIN book : book[o] # n
  /\ book' = Append(book, n)
  /\ UNCHANGED <<sent, told>>

\* The caller of the request of order o learns its id as n.
Tell(o, n) ==
  /\ \A p \in told : p[1] # book[o]
  /\ o < IntLimit => n = o
  /\ told' = told \cup {<<book[o], n>>}
  /\ UNCHANGED <<sent, book>>

Next ==
  \/ Send
  \/ \E n \in 1..sent : Place(n)
  \/ \E o \in DOMAIN book : \E n \in {p[2] : p \in told'} : Tell(o, n)

Spec == Init /\ [][Next]_deskVars
=============================================================================
