-------------------------- MODULE MCQueryPipeline --------------------------
(* An instance of QueryPipeline for TLC: one retrieved table, one table whose *)
(* widening brings a connector, that connector, a table that needs none (so   *)
(* that two widenings differ), and one foreign table.                        *)
EXTENDS QueryPipeline, TLC

Schema == {"orders", "products", "order_items", "customers"}
LinkedTables ==
    [t \in Schema |-> IF t = "products" THEN {"products", "order_items"} ELSE {t}]
=============================================================================
