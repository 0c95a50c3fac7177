--------------------------- MODULE MCBoundedShim ----------------------------
(* BoundedShim with two threads a side and executions that meet: a full and *)
(* an empty queue, sleepers on both sides, batches with nothing to move,    *)
(* overruns, a limit, both ways of closing, and a destroy at once.          *)
EXTENDS BoundedShim

MCThreads == {"p1", "p2", "c1", "c2"}

Do(op) == [op |-> op, e |-> 0, limit |-> 0]
Put(op, e) == [op |-> op, e |-> e, limit |-> 0]
Batch(op, n) == [op |-> op, e |-> 0, limit |-> n]
Nothing == [data |-> [i \in 0..1 |-> 0], in |-> 0, out |-> 0]

Execution(shim, cap, overrun, producers, ends, p1, p2, c1, c2, ring, es) ==
  [shim |-> shim, cap |-> cap, overrun |-> overrun, producers |-> producers, ends |-> ends,
   calls |-> [t \in MCThreads |-> CASE t = "p1" -> p1 [] t = "p2" -> p2
                                    [] t = "c1" -> c1 [] OTHER -> c2],
   own |-> [t \in MCThreads |-> IF t = "p2" THEN ring ELSE Nothing],
   elements |-> es]

\* A producer's ring of three slots whose elements lie across its end.
Full == [data |-> [i \in 0..2 |-> IF i = 2 THEN 3 ELSE IF i = 0 THEN 4 ELSE 0],
         in |-> 1, out |-> 2]

MCPrograms == {
  \* Two producers, one in batches; the consumer drains and destroys at once.
  Execution("c", 1, FALSE, 2, "exactly",
    <<Put("push_wait", 1), Do("terminate")>>, <<Batch("flush", 2), Do("terminate")>>,
    <<Batch("drain_batch", 1), Do("destroy")>>, <<>>, Full, {1, 3, 4}),
  \* Two that drain, woken by one push and by the termination.
  Execution("c", 2, FALSE, 1, "exactly",
    <<Put("push_wait", 1), Put("push_wait", 2), Do("terminate")>>, <<>>,
    <<Do("drain"), Do("destroy")>>, <<Batch("drain_batch", 1)>>, Nothing, {1, 2}),
  \* Pushes that sleep beside a batch with nothing to move, and pops likewise.
  Execution("c", 1, FALSE, 1, "at_least",
    <<Put("push_wait", 1), Put("push_wait", 2), Do("terminate"), Do("terminate")>>,
    <<Batch("push_batch", 2)>>,
    <<Do("pop_wait"), Do("pop_wait"), Do("destroy")>>, <<>>, Nothing, {1, 2}),
  Execution("c", 2, FALSE, 1, "exactly",
    <<Put("push_wait", 1), Do("terminate")>>, <<>>,
    <<Do("pop_wait")>>, <<Batch("pop_batch", 0)>>, Nothing, {}),
  \* Terminated once too often; a queue of no room that is finished at once.
  Execution("c", 0, FALSE, 1, "exactly",
    <<Do("terminate")>>, <<Do("terminate")>>, <<Do("drain")>>, <<Do("drain")>>, Nothing, {}),
  Execution("c", 0, FALSE, 0, "at_least",
    <<>>, <<>>, <<Do("pop_wait")>>, <<Batch("pop_batch", 1)>>, Nothing, {}),
  \* wtc::bounded: overruns beside pops that wait a while and do not.
  Execution("cpp", 1, TRUE, 0, "never",
    <<Put("push_overrun", 1), Put("push_overrun", 2), Do("close")>>, <<Put("try_push", 3)>>,
    <<Do("pop_wait_for"), Do("try_pop")>>, <<>>, Nothing, {}),
  \* A close that finds pushes asleep.
  Execution("cpp", 1, FALSE, 0, "never",
    <<Put("push_wait", 1), Put("push_wait", 2)>>, <<Put("push_wait", 3)>>,
    <<Do("pop_wait"), Do("close")>>, <<>>, Nothing, {})}
=============================================================================
