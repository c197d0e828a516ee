--------------------------- MODULE MCMemoryStore ----------------------------
(* MemoryStore.tla for TLC: one trace id more than the store has room for, *)
(* traces that differ in every indexed field, one of them imported with a  *)
(* list of services that is not that of its spans and one of a service     *)
(* with a colon in its name, and three instants, so that ReceivedAt ties   *)
(* and out-of-order arrivals both happen.                                  *)
EXTENDS MemoryStore

a == <<"a">>
b == <<"b">>
ab == <<"a", ":", "b">>
x == <<"x">>
y == <<"y">>

MCServices   == {a, b, ab}
MCOperations == {x, y}
MCTimes      == 1..3

Trace(spans, services, err, tenant, at) ==
    [spans |-> spans, services |-> services, err |-> err, tenant |-> tenant, at |-> at]

Assembled(spans, err, tenant, at) == Trace(spans, ServicesOf(spans), err, tenant, at)

MCTraceValues ==
    {Assembled({<<a, x>>}, FALSE, "red", 1),
     Assembled({<<ab, x>>}, FALSE, "red", 2),
     Trace({<<b, y>>}, {a}, TRUE, "red", 2)}
        \cup {Assembled({<<a, y>>, <<b, x>>}, TRUE, "blue", at) : at \in MCTimes}

Q(service, operation, err, tenant, from, to) ==
    [id |-> None, service |-> service, operation |-> operation, err |-> err,
     tenant |-> tenant, from |-> from, to |-> to]

MCQueries ==
    {Q(None, None, None, None, None, None),
     Q(a, None, FALSE, None, None, None),
     Q(b, None, None, None, 2, None),
     Q(a, x, None, None, None, None),
     Q(b, y, None, None, None, None),
     Q(None, x, None, "red", None, 2),
     Q(None, y, TRUE, None, None, None),
     Q(None, None, TRUE, "blue", 2, 2)}

=============================================================================
