----------------------------- MODULE MCBatching -----------------------------
(***************************************************************************)
(* Translation units for Batching: a loop that pushes, or that takes a     *)
(* mutex, with one other statement before, inside or after it, and what    *)
(* that statement waits for.                                               *)
(***************************************************************************)
EXTENDS Naturals, Sequences, SequencesExt, TLC

St(op) == [op |-> op, to |-> "", arg |-> "", fn |-> "", how |-> {}, impl |-> "generic", nothrow |-> TRUE, n |-> 0, est |-> 0,
           arms |-> <<>>]
Calls(f) == [St("call") EXCEPT !.to = f]
Hands(f, g) == [Calls(f) EXCEPT !.arg = g]
MayThrow(f) == [Calls(f) EXCEPT !.nothrow = FALSE]
Through(fn, to, really) == [St("icall") EXCEPT !.fn = fn, !.to = to, !.arg = really]
Spins(what) == [St("atomic") EXCEPT !.arg = what]
Asm(text, what) == [St("asm") EXCEPT !.how = text, !.arg = what]
In(op, arms) == [St(op) EXCEPT !.arms = arms]
Maybe(op) == In("if", <<<<St(op)>>, <<>>>>)
Repeat(id, n, est, body) == [In("loop", <<body>>) EXCEPT !.to = id, !.n = n, !.est = est]
Queue(op, impl, how) == [St(op) EXCEPT !.impl = impl, !.how = how]
Mutex(op) == [St(op) EXCEPT !.to = "m"]

\* Functions: here, not here, or here for another unit to replace.
Here(body) == [body |-> body, seen |-> "here", internal |-> TRUE, does |-> "none", throws |-> FALSE]
Away(does) == [Here(<<>>) EXCEPT !.seen = "none", !.does = does]
Library(w) ==
  [memcpy |-> Away("none"), malloc |-> Away("allocates"), usleep |-> Away("none"),
   pthread_cond_wait |-> Away(w), poll |-> Away(w), write |-> Away(w), rte_ring_create |-> Away(w), pthread_self |-> Away("none"),
   lib |-> Away(w), risky |-> [Away("none") EXCEPT !.throws = TRUE], strlen |-> [Away(w) EXCEPT !.seen = "weak"],
   clears |-> Here(<<Calls("memcpy")>>),
   waits |-> Here(<<Calls("memcpy"), Calls("poll")>>),
   even |-> Here(<<Maybe("scope"), In("if", <<<<Calls("odd")>>, <<>>>>), Calls("pthread_cond_wait")>>),
   odd |-> Here(<<In("if", <<<<Calls("even")>>, <<>>>>)>>),
   apply |-> Here(<<Through("apply", "param", "")>>),
   other |-> Here(<<Hands("apply", "memcpy")>>),
   shown |-> Here(<<Through("shown", "param", "")>>),
   shows |-> Here(<<Hands("shown", "memcpy")>>),
   open |-> [Here(<<Through("open", "param", "")>>) EXCEPT !.internal = FALSE],
   pushes |-> Here(<<Queue("push", "mpsc", {})>>),
   frees |-> Here(<<Calls("malloc")>>)]

\* A statement of the loop besides the one push or the one section; w is what a wait is for.
Others(w) ==
  <<St("scope"), Calls("memcpy"), Calls("malloc"), Calls("usleep"), Calls("pthread_cond_wait"), Calls("poll"), Calls("write"),
    Calls("rte_ring_create"), Calls("pthread_self"), Calls("lib"), Calls("strlen"), Calls("clears"), Calls("waits"),
    Hands("apply", "memcpy"), Hands("apply", "waits"), Through("work", "clears", ""), Through("work", "unknown", "waits"),
    Spins(w), Asm({"prefetch"}, "none"), Asm({"pause"}, w), Asm({}, w), Asm({"nop", "memory"}, w), Asm({"other"}, w),
    Asm({"locked add to the stack"}, "none"), Maybe("break"),
    In("if", <<<<Calls("odd")>>, <<>>>>)>>
Outs == <<MayThrow("risky"), Maybe("throw"), Maybe("continue"), Maybe("return"), Maybe("goto"), St("label")>>
PushesToo == <<Calls("pushes"), In("if", <<<<Queue("push", "spsc", {})>>, <<>>>>)>>

Host == [cost |-> "estimate", given |-> 0, threads |-> 2, two |-> 2, fourToEight |-> 3]
Whole(body, more, w, lockfree, host, shim) ==
  [fns |-> [work |-> Here(body)] @@ more @@ Library(w), batch |-> "work", main |-> <<Calls("work")>>, lockfree |-> lockfree,
   callback |-> w, host |-> host, shim |-> shim]
Plainly(body, w) == Whole(body, [x \in {} |-> <<>>], w, <<>>, Host, TRUE)

\* Pushes: the statement before or after the push, three iterations of batches of two.
Pushed == Queue("push", "spsc", {})
PushLoop(body) == <<Repeat("L", 3, 1, body)>>
PushUnits == FlattenSeq([i \in DOMAIN (Others("queue") \o Outs \o PushesToo) |->
  LET x == (Others("queue") \o Outs \o PushesToo)[i]
  IN  <<Plainly(PushLoop(<<Pushed, x>>), "queue"), Plainly(PushLoop(<<In("scope", <<<<x, Pushed>>>>)>>), "queue")>>])
PushShapes == <<
  Plainly(<<Repeat("L", 1, 1, <<Calls("odd")>>), Repeat("M", 2, 1, <<Pushed, Calls("even")>>)>>, "queue"),
  Plainly(<<Repeat("L", 3, 1, <<Calls("even"), Pushed>>), Repeat("M", 3, 1, <<Calls("odd"), Pushed>>)>>, "queue"),
  Plainly(<<Repeat("M", 2, 1, <<Pushed, Calls("odd")>>)>>, "queue"),
  Plainly(<<Repeat("L", 2, 1, <<Calls("poll"), Repeat("M", 3, 1, <<Pushed>>)>>)>>, "queue"),
  Plainly(PushLoop(<<In("if", <<<<Pushed>>, <<>>>>)>>), "queue"),
  Plainly(PushLoop(<<[Pushed EXCEPT !.how = {"bounded"}]>>), "queue"),
  Plainly(PushLoop(<<[Pushed EXCEPT !.how = {"changes"}]>>), "queue"),
  Plainly(PushLoop(<<Queue("pop", "spsc", {}), Pushed>>), "queue"),
  Whole(PushLoop(<<Pushed>>), [setup |-> Here(<<Calls("rte_mem_event_callback_register")>>)], "queue", <<>>, Host, TRUE),
  Whole(PushLoop(<<Pushed>>), [x \in {} |-> <<>>], "queue", <<>>, Host, FALSE)>>

\* Sections: the statement between two of them, where it may wait for the other thread, or in one.
Locked(body) == <<Mutex("lock")>> \o body \o <<Mutex("unlock")>>
LockLoop(est, body) == <<Repeat("L", 3, est, body)>>
LockUnits == FlattenSeq([i \in DOMAIN (Others("mutex") \o Outs) |->
  LET x == (Others("mutex") \o Outs)[i]
      y == Others("queue")[i]
  IN  <<Plainly(LockLoop(1, Locked(<<>>) \o <<x>>), "mutex")>>
      \o (IF i > Len(Others("queue")) \/ y = Maybe("break") THEN <<>> ELSE <<Plainly(LockLoop(1, Locked(<<y>>)), "queue")>>)])
Hosts == <<[Host EXCEPT !.cost = "off"], [Host EXCEPT !.given = 3], [Host EXCEPT !.threads = 0], [Host EXCEPT !.threads = 1],
           [Host EXCEPT !.threads = 4], [Host EXCEPT !.given = 1]>>
LockShapes ==
  <<Plainly(LockLoop(1, <<Mutex("lock"), In("if", <<<<Mutex("unlock"), St("break")>>, <<Mutex("unlock")>>>>)>>), "mutex"),
    Plainly(LockLoop(1, <<Mutex("lock"), In("if", <<<<St("break")>>>>), Mutex("unlock")>>) \o <<Mutex("unlock")>>, "none"),
    Plainly(Locked(LockLoop(1, <<Mutex("unlock"), Mutex("lock")>>)), "none"),
    Plainly(LockLoop(0, Locked(<<>>)), "mutex"),
    Whole(LockLoop(1, Locked(<<>>) \o <<Calls("malloc")>>), [setup |-> Here(<<[St("take") EXCEPT !.to = "__malloc_hook"]>>)],
          "mutex", <<>>, Host, TRUE),
    Plainly(LockLoop(1, Locked(<<Pushed>>)), "mutex"),
    Plainly(LockLoop(1, Locked(<<Repeat("M", 3, 1, <<Pushed>>)>>)), "mutex")>>
  \o [i \in DOMAIN Hosts |-> Whole(LockLoop(3, Locked(<<>>)), [x \in {} |-> <<>>], "mutex", <<>>, Hosts[i], TRUE)]

\* Functions declared lock-free.
Declared(body, w) == Whole(<<Calls("quick")>>, [quick |-> Here(<<Repeat("Q", 1, 1, body)>>)], w, <<"quick">>, Host, TRUE)
Impls == <<"generic", "spsc", "spsc_inline", "mpsc", "spmc">>
Ways == <<{}, {"transfer"}, {"wait"}, {"bounded", "transfer"}>>
Pops == FlattenSeq([i \in DOMAIN Impls |-> [j \in DOMAIN Ways |-> Queue("pop", Impls[i], Ways[j])]])
QuickUnits == [i \in DOMAIN Others("none") |-> Declared(<<Others("none")[i]>>, "queue")]
              \o [i \in DOMAIN Pops |-> Declared(<<Pops[i]>>, "queue")]
              \o <<Declared(<<Through("quick", "shown", "waits")>>, "queue"), Declared(<<Hands("open", "memcpy")>>, "queue"),
                   Declared(<<[Calls("frees") EXCEPT !.how = {"ownerless"}]>>, "queue"),
                   Declared(<<In("if", <<<<Calls("quick")>>, <<>>>>), Calls("odd")>>, "queue")>>

MCBatchUnits == PushUnits \o PushShapes \o LockUnits \o LockShapes \o QuickUnits
=============================================================================
