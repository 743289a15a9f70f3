------------------------------ MODULE MCIngest ------------------------------
(* The instance of Intake for TLC. *)
EXTENDS Intake, TLC

CONSTANTS e1, e2, w1, w2

TwoSockets == (e1 :> w1) @@ (e2 :> w2)

Of(kind, layout) == [kind |-> kind, tid |-> 256, layout |-> layout]
Template(layout) == Of("template", layout)
Data == Of("data", "plain")
Gram(src, sets) == [src |-> src, ok |-> TRUE, sets |-> sets]

\* e1 redefines and withdraws a template under two source ids and exceeds the
\* record cap; e2 sends options, flows without template, a truncated set and a bad
\* header.
Grams ==
  (e1 :> {Gram(src, sets) : src \in Sources,
            sets \in {<<Template("nat")>>, <<Template("plain"), Data>>, <<Data, Data>>}}
         \cup {Gram(0, <<Of("withdraw", "plain")>>)})
  @@ (e2 :> {Gram(0, <<Template("options"), Data>>),
             Gram(0, <<Data, Of("truncated", "plain"), Data>>),
             Gram(0, <<Of("fixed", "plain")>>),
             [src |-> 0, ok |-> FALSE, sets |-> <<Data>>]})

Flow(s, d, ns, nd, b) ==
  [src |-> s[1], sport |-> s[2], dst |-> d[1], dport |-> d[2], natSrc |-> ns[1],
   natSport |-> ns[2], natDst |-> nd[1], natDport |-> nd[2], bytes |-> b]

\* Source and destination translation of address or port, NAT events without bytes,
\* DNS, private peers; the last three carry unchanged post-NAT addresses.
AllFlows == <<
  Flow(<<1, 10>>, <<2, 53>>, <<3, 10>>, <<2, 53>>, 0),
  Flow(<<1, 10>>, <<1, 20>>, <<1, 30>>, <<0, 0>>, 0),
  Flow(<<2, 10>>, <<3, 20>>, <<2, 0>>, <<1, 20>>, 0),
  Flow(<<1, 10>>, <<1, 53>>, <<1, 0>>, <<1, 20>>, 0),
  Flow(<<2, 10>>, <<3, 20>>, <<2, 0>>, <<3, 20>>, 0),
  Flow(<<2, 10>>, <<3, 53>>, <<2, 0>>, <<3, 0>>, 1),
  Flow(<<1, 10>>, <<1, 20>>, <<1, 0>>, <<1, 0>>, 1) >>

Strict == [dns |-> TRUE, priv |-> TRUE, zero |-> TRUE]
Device(n, on) == [id |-> n, enabled |-> on, rules |-> Strict]
RegistrySet == {(e1 :> Device(1, TRUE)) @@ (e2 :> NoDevice),
                (e1 :> Device(1, FALSE)) @@ (e2 :> Device(2, TRUE))}
LiveSet == {[mode |-> m, rules |-> Strict] : m \in {"allow", "reject"}}
============================================================================
