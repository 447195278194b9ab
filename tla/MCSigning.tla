----------------------------- MODULE MCSigning -----------------------------
(* Two orders that swap price and size, two cancels, addresses of one byte. *)
EXTENDS Signing
MCBitSizes == {4, 6}
MCCharacters == {Digits[d] : d \in 1 .. 16} \cup {Capitals[d] : d \in 1 .. 16} \cup {"x", "X", "g"}
MCCurve == {<<0, 250>>}
One == [a |-> 0, b |-> TRUE, p |-> "1", s |-> "2", r |-> FALSE, tif |-> "Gtc"]
Two == [a |-> 0, b |-> TRUE, p |-> "2", s |-> "1", r |-> TRUE, tif |-> "Gtc"]
Order(orders) == [type |-> "order", orders |-> orders, grouping |-> "na"]
Cancel(cancels) == [type |-> "cancel", cancels |-> cancels]
MCActions == {Order(<<One>>), Order(<<Two>>), Order(<<One, Two>>), Cancel(<<[a |-> 0, o |-> 1]>>),
              Cancel(<<[a |-> 0, o |-> 1], [a |-> 1, o |-> 0]>>)}
GoodKey == <<"0", "0", "a", "1">>
Request(action, nonce, vault, source, key) ==
  [action |-> action, nonce |-> nonce, vault |-> vault, source |-> source, key |-> key]
MCVaults == {NoText, <<>>, <<"0", "1">>, <<"0", "x", "0", "1">>, <<"1", "0">>}
MCBadVaults == {<<"1">>, <<"g", "1">>, <<"0", "1", "0", "1">>}
MCKeys == {GoodKey, <<"0", "x">> \o GoodKey, <<"0", "x", "0", "0", "A", "1">>, <<"0", "X">> \o GoodKey,
           GoodKey \o <<"f", "f">>, <<"0", "x", "a", "1">>, <<"0", "0">>, <<"0", "0", "0", "0">>}
\* Cancels are short: nonces and vaults vary with them.
MCRequests ==
  {Request(a, 1, NoText, "a", GoodKey) : a \in MCActions}
    \cup {Request(Cancel(<<[a |-> 0, o |-> 1]>>), n, v, "a", GoodKey) : n \in {1, 256}, v \in MCVaults}
    \cup {Request(Order(<<One>>), 256, <<"1", "0">>, "a", GoodKey)}
    \cup {Request(Cancel(<<[a |-> 0, o |-> 1]>>), 1, v, "a", GoodKey) : v \in MCBadVaults}
    \cup {Request(Cancel(<<[a |-> 0, o |-> 1]>>), 1, NoText, s, k) : s \in {"a", "b"}, k \in MCKeys}
=============================================================================
