---------------------------- MODULE MCKafkaCache ----------------------------
(* Instances of KafkaCache for TLC. *)
EXTENDS KafkaCache

(* A topic whose channel holds one document, one whose channel holds two. *)
MCLimit == [t \in Topics |-> IF t = "1m" THEN 1 ELSE 2]

(* One document is in a topic before the consumer subscribes. *)
OneWaits == [t \in Topics |-> IF t = "1m" THEN 1 ELSE 0]

Nothing == [t \in Topics |-> 0]
=============================================================================
