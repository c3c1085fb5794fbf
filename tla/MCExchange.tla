--------------------------- MODULE MCExchange ---------------------------
(* A small exchange: two buyers and two sellers whose costs make them prefer different partners at      *)
(* different amounts, and a mining trade that shares a foreign address with one of the sellers.         *)
EXTENDS Exchange

Req(kind, max, min, rate, cost, expire, addr) ==
    [kind |-> kind, simple |-> TRUE, max |-> max, min |-> min, rate |-> rate, cost |-> cost, pledge |-> 50,
     pay |-> 3, expire |-> expire, addr |-> addr]

MCOrder == [b1 |-> Req("buy", 4, 1, 16, 4, 12, 0),
            b2 |-> Req("buy", 2, 1, 12, 0, 16, 0),
            s1 |-> Req("sell", 2, 1, 4, 4, 11, 1),
            s2 |-> Req("sell", 4, 2, 8, 0, 16, 2),
            t1 |-> Req("trade", 2, 2, 8, 0, 16, 1)]

Chain(ids, dts) == [i \in DOMAIN ids |-> [tx |-> IF ids[i] = "none" THEN NoTx ELSE [kind |-> "xreq", id |-> ids[i]], dt |-> dts[i]]]
MCChains == {Chain(<<"b1", "b2", "s1", "s2">>, <<1, 1, 1, 1>>),
             Chain(<<"t1", "b1", "s2">>, <<1, 1, 1>>)}
MCGaps == {1, 2}
==========================================================================
