----------------------------- MODULE InputQueue -----------------------------
(***************************************************************************)
(* What standard input promises its readers: bytes come out in the order   *)
(* they went in, each once, and of more than Capacity the latest are kept. *)
(***************************************************************************)
EXTENDS Naturals, Sequences

CONSTANTS Capacity, Bytes, MaxChunk

VARIABLE queue

Latest(s) == SubSeq(s, IF Len(s) > Capacity THEN Len(s) - Capacity + 1 ELSE 1, Len(s))

Init == queue = << >>

Put == \E n \in 1 .. MaxChunk : \E data \in [1 .. n -> Bytes] : queue' = Latest(queue \o data)

Get == queue # << >> /\ queue' = Tail(queue)

Drop == queue' = << >>

Next == Put \/ Get \/ Drop

Spec == Init /\ [][Next]_queue
=============================================================================
