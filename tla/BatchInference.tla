------------------------------- MODULE BatchInference -------------------------------
(***************************************************************************)
(* src/ai_engine/python/perception/inference/batch_inference.py:            *)
(* BatchInferenceEngine with its DynamicBatcher and the two batch sizers.   *)
(* Clients add requests to one pending list; worker threads flush it in     *)
(* batches, group a batch by model, run the model and store the results.    *)
(* A batch that runs out of memory is halved and tried again.  Images,      *)
(* latencies and throughput are left out: a request may be late and a       *)
(* batcher may find it time to flush at any moment, and a sizer may answer  *)
(* any size its clamps allow.  One model is registered; a request in        *)
(* Unknown names another one.                                               *)
(***************************************************************************)
EXTENDS Integers, FiniteSets, Sequences, SequencesExt

CONSTANTS Requests,         (* the requests that clients submit              *)
          Urgent, Unknown,  (* those of the higher of two priorities; those for no model *)
          Threads,          (* bound: worker threads alive at a time         *)
          NumWorkers, Strategies, MinBatch, MaxBatch, MaxQueue,
          KeptResults,      (* results kept before old ones are deleted (500) *)
          MaxOom,           (* bound: out of memory events not yet worked off *)
          MaxStarts         (* bound: calls of start() that start workers    *)

ASSUME BatchAssumption ==
    /\ Urgent \subseteq Requests /\ Unknown \subseteq Requests
    /\ IsFiniteSet(Threads) /\ "nobody" \notin Requests
    /\ Strategies \subseteq {"fixed_size", "timeout", "adaptive", "memory_aware"}
    /\ MinBatch \in 1 .. MaxBatch /\ NumWorkers \in Nat \ {0}
    /\ {MaxBatch, MaxQueue, KeptResults, MaxOom, MaxStarts} \subseteq Nat

VARIABLES
    strategy,   (* config.strategy                                          *)
    running,    (* _running                                                 *)
    workers,    (* _workers: the threads that stop() joins                  *)
    stopping,   (* stop() is joining them                                   *)
    thread,     (* where each worker is, and the lists of requests it has yet to run *)
    pending,    (* the batcher's _pending                                   *)
    asked,      (* requests that submit() accepted                          *)
    late,       (* requests past their deadline                             *)
    id, lastId, (* request_id of the accepted requests, numbered; the last one *)
    sameId,     (* _total_processed is what it was at the last submission   *)
    oom,        (* the memory sizer's _oom_count                            *)
    results,    (* _results: the request stored under each id               *)
    called,     (* history: calls of each request's callback                *)
    got,        (* history: the request whose result a client took          *)
    starts

engineVars == <<running, workers, stopping, starts>>
clientVars == <<asked, id, lastId, got>>
sizerVars == <<sameId, oom>>
vars == <<strategy, engineVars, thread, pending, clientVars, late, sizerVars, results, called>>

Nobody == "nobody"
Dead == [pc |-> "none", jobs |-> <<>>]
PCs == {"none", "poll", "take", "infer", "store"}

(* The requests in a list of batches; no request is in two places of it.    *)
RequestsOf(jobs) == UNION {ToSet(jobs[i]) : i \in DOMAIN jobs}
Distinct(jobs) ==
    \A i, k \in DOMAIN jobs : \A j \in DOMAIN jobs[i], l \in DOMAIN jobs[k] :
        jobs[i][j] = jobs[k][l] => i = k /\ j = l

InHands(t) == RequestsOf(thread[t].jobs)
Count(s, r) == Cardinality({i \in DOMAIN s : s[i] = r})

BatchTypeOK ==
    /\ strategy \in Strategies /\ running \in BOOLEAN /\ stopping \in BOOLEAN
    /\ workers \subseteq Threads /\ starts \in 0 .. MaxStarts
    /\ thread \in [Threads -> [pc : PCs, jobs : Seq(Seq(Requests))]]
    /\ \A t \in Threads : /\ thread[t].pc \in {"infer", "store"} <=> thread[t].jobs # <<>>
                          /\ \A i \in DOMAIN thread[t].jobs : Len(thread[t].jobs[i]) \in 1 .. MaxBatch
                          /\ InHands(t) \subseteq asked
    /\ pending \in Seq(Requests) /\ Len(pending) <= MaxQueue /\ ToSet(pending) \subseteq asked
    /\ asked \subseteq Requests /\ late \subseteq asked
    /\ id \in [Requests -> Nat] /\ lastId \in Nat
    /\ sameId \in BOOLEAN /\ oom \in 0 .. MaxOom
    /\ DOMAIN results \subseteq {id[r] : r \in asked}
    /\ called \in [Requests -> Nat] /\ got \in [Requests -> Requests \cup {Nobody}]

Init ==
    /\ strategy \in Strategies /\ running = FALSE /\ workers = {} /\ stopping = FALSE
    /\ thread = [t \in Threads |-> Dead] /\ pending = <<>> /\ asked = {} /\ late = {}
    /\ id = [r \in Requests |-> 0] /\ lastId = 0 /\ sameId = FALSE /\ oom = 0
    /\ results = [i \in {} |-> Nobody] /\ called = [r \in Requests |-> 0]
    /\ got = [r \in Requests |-> Nobody] /\ starts = 0
--------------------------------------------------------------------------------
(* The control thread: the new threads are some that are not alive, which   *)
(* ones does not matter.                                                    *)
Start ==
    /\ ~stopping /\ ~running /\ starts < MaxStarts
    /\ LET free == {t \in Threads : thread[t].pc = "none"}
           new == CHOOSE w \in SUBSET free : Cardinality(w) = NumWorkers
       IN  /\ Cardinality(free) >= NumWorkers /\ workers' = new
           /\ thread' = [t \in Threads |-> IF t \in new THEN [Dead EXCEPT !.pc = "poll"] ELSE thread[t]]
    /\ running' = TRUE /\ starts' = starts + 1
    /\ UNCHANGED <<strategy, stopping, pending, clientVars, late, sizerVars, results, called>>

(* A second stop() has nothing to do. *)
Stop ==
    /\ ~stopping /\ running
    /\ running' = FALSE /\ stopping' = TRUE
    /\ UNCHANGED <<strategy, workers, starts, thread, pending, clientVars, late, sizerVars, results, called>>

(* Each join waits 2 s: only a model or a callback takes a worker longer.   *)
StopReturns ==
    /\ stopping /\ \A t \in workers : thread[t].pc \in {"none", "infer", "store"}
    /\ stopping' = FALSE /\ workers' = {}
    /\ UNCHANGED <<strategy, running, starts, thread, pending, clientVars, late, sizerVars, results, called>>

(* submit() names the request after the number of processed requests and    *)
(* the millisecond: its id is that of the last one if both are the same.    *)
(* It is added unless the list is full; a refused one leaves nothing behind. *)
Submit(r) ==
    /\ r \notin asked /\ Len(pending) < MaxQueue
    /\ lastId' = lastId + 1 \/ (sameId /\ lastId' = lastId)
    /\ id' = [id EXCEPT ![r] = lastId']
    /\ sameId' = TRUE
    /\ pending' = Append(pending, r) /\ asked' = asked \cup {r}
    /\ UNCHANGED <<strategy, engineVars, thread, late, got, oom, results, called>>

(* It matters while the request waits. *)
Expire(r) ==
    /\ r \in ToSet(pending) /\ late' = late \cup {r}
    /\ UNCHANGED <<strategy, engineVars, thread, pending, clientVars, sizerVars, results, called>>

(* get_result() of a client that finds one. *)
GetResult(r) ==
    /\ r \in asked /\ got[r] = Nobody /\ id[r] \in DOMAIN results
    /\ got' = [got EXCEPT ![r] = results[id[r]]]
    /\ results' = [i \in DOMAIN results \ {id[r]} |-> results[i]]
    /\ UNCHANGED <<strategy, engineVars, thread, pending, asked, id, lastId, late, sizerVars, called>>
--------------------------------------------------------------------------------
(* A worker's loop. *)
Goes(t, pc) == thread' = [thread EXCEPT ![t] = [pc |-> pc, jobs |-> <<>>]]

(* Mutant of Flush: only a full batch is flushed. *)
FlushFull(t) ==
    /\ thread[t].pc = "poll" /\ running /\ Len(pending) >= MaxBatch /\ Goes(t, "take")
    /\ UNCHANGED <<strategy, engineVars, pending, clientVars, late, sizerVars, results, called>>

(* while self._running: should_flush() says yes, at the latest when the      *)
(* batch timeout has passed, or the worker sleeps.  It does not look at the *)
(* strategy.                                                                *)
Flush(t) ==
    /\ thread[t].pc = "poll" /\ running /\ pending # <<>> /\ Goes(t, "take")
    /\ UNCHANGED <<strategy, engineVars, pending, clientVars, late, sizerVars, results, called>>

WorkerEnds(t) ==
    /\ thread[t].pc = "poll" /\ ~running /\ Goes(t, "none")
    /\ UNCHANGED <<strategy, engineVars, pending, clientVars, late, sizerVars, results, called>>

(* A loop over a list that appends what is in a set to a new one.  (TLAPS   *)
(* does not unfold SelectSeq.)                                              *)
Filter(list, S) ==
    LET upTo[n \in 0 .. Len(list)] ==
            IF n = 0 THEN <<>>
            ELSE IF list[n] \in S THEN Append(upTo[n - 1], list[n]) ELSE upTo[n - 1]
    IN  upTo[Len(list)]

InTime == Requests \ late
(* The stable sort by priority. *)
ByPriority(list) == Filter(list, Urgent) \o Filter(list, Requests \ Urgent)

(* list[:size], and what max_batch_size leaves of a list.                   *)
CutTo(size, list) == SubSeq(list, 1, IF Len(list) < size THEN Len(list) ELSE size)
Remaining(list) == SubSeq(list, MaxBatch + 1, Len(list))

(* The groups of a batch by model, in the order of the first request of each. *)
ModelGroups(batch) ==
    LET known == Filter(batch, Requests \ Unknown)
        unknown == Filter(batch, Unknown)
    IN  IF known = <<>> \/ unknown = <<>> THEN <<batch>>
        ELSE IF batch[1] \in Unknown THEN <<unknown, known>> ELSE <<known, unknown>>

(* get_batch(): expired requests are dropped, another worker may have taken *)
(* all; the rest is sorted and cut.                                         *)
Take(t) ==
    /\ thread[t].pc = "take"
    /\ \E inTime \in {Filter(pending, InTime)} : \E valid \in {ByPriority(inTime)} :
       \E batch \in {CutTo(MaxBatch, valid)} :
          /\ pending' = Remaining(valid)
          /\ IF batch = <<>> THEN Goes(t, "poll")
             ELSE thread' = [thread EXCEPT ![t] = [pc |-> "infer", jobs |-> ModelGroups(batch)]]
    /\ UNCHANGED <<strategy, engineVars, clientVars, late, sizerVars, results, called>>

JobDone(t) == IF Len(thread[t].jobs) = 1 THEN Goes(t, "poll")
              ELSE thread' = [thread EXCEPT ![t] = [pc |-> "infer", jobs |-> Tail(thread[t].jobs)]]

(* A group whose model is not registered is completed and not stored. *)
Discard(t) ==
    /\ thread[t].pc = "infer" /\ Head(Head(thread[t].jobs)) \in Unknown
    /\ JobDone(t)
    /\ UNCHANGED <<strategy, engineVars, pending, clientVars, late, sizerVars, results, called>>

Larger(a, b) == IF a > b THEN a ELSE b

(* The sizes compute_batch_size() and get_optimal_batch_size() may answer.  *)
Sizes ==
    CASE strategy = "memory_aware" ->
           {IF oom > 0 THEN Larger(MinBatch, n \div 2) ELSE n : n \in MinBatch .. MaxBatch}
      [] strategy = "adaptive" -> MinBatch .. MaxBatch
      [] OTHER -> {MaxBatch}

(* The group is cut, the rest of it is dropped.  The model returns           *)
(* (report_success), or fails otherwise than for memory: the results are    *)
(* there to store, empty after a failure.                                   *)
Infer(t) ==
    /\ thread[t].pc = "infer" /\ Head(Head(thread[t].jobs)) \notin Unknown
    /\ \E size \in Sizes :
        LET list == CutTo(size, Head(thread[t].jobs))
        IN  /\ thread' = [thread EXCEPT ![t] = [pc |-> "store", jobs |-> <<list>> \o Tail(thread[t].jobs)]]
            /\ \/ sameId' = FALSE /\ oom' = Larger(0, oom - 1)
               \/ UNCHANGED sizerVars
    /\ UNCHANGED <<strategy, engineVars, pending, clientVars, late, results, called>>

(* Mutant of Retry: only the first half is tried again. *)
RetryFirstHalf(list, rest) ==
    IF Len(list) = 1 THEN [pc |-> "store", jobs |-> <<list>> \o rest]
    ELSE [pc |-> "infer", jobs |-> <<SubSeq(list, 1, Len(list) \div 2)>> \o rest]

(* The two halves of a list, each on its own; a single request has failed.  *)
Retry(list, rest) ==
    LET half == Len(list) \div 2
    IN  IF half = 0 THEN [pc |-> "store", jobs |-> <<list>> \o rest]
        ELSE [pc |-> "infer",
              jobs |-> <<SubSeq(list, 1, half)>> \o (<<SubSeq(list, half + 1, Len(list))>> \o rest)]

OutOfMemory(t) ==
    /\ thread[t].pc = "infer" /\ Head(Head(thread[t].jobs)) \notin Unknown /\ oom < MaxOom
    /\ \E size \in Sizes :
        thread' = [thread EXCEPT ![t] = Retry(CutTo(size, Head(thread[t].jobs)), Tail(thread[t].jobs))]
    /\ oom' = oom + 1
    /\ UNCHANGED <<strategy, engineVars, pending, clientVars, late, sameId, results, called>>

(* The results go into the table under their ids, later ones over earlier   *)
(* ones, and the callbacks run; a table that is too large loses results of  *)
(* old requests.  That clean-up has the lock to itself: what clients take   *)
(* and workers add before it, they can as well after it, for any of the     *)
(* results may be among the old ones.                                       *)
Store(t) ==
    LET list == Head(thread[t].jobs)
        table == [i \in DOMAIN results \cup {id[r] : r \in ToSet(list)} |->
                    IF \E n \in DOMAIN list : id[list[n]] = i
                    THEN list[Max({n \in DOMAIN list : id[list[n]] = i})] ELSE results[i]]
    IN  /\ thread[t].pc = "store"
        /\ called' = [r \in Requests |-> called[r] + Count(list, r)]
        /\ \E old \in SUBSET DOMAIN table :
            /\ Cardinality(DOMAIN table) <= KeptResults => old = {}
            /\ results' = [i \in DOMAIN table \ old |-> table[i]]
        /\ JobDone(t)
        /\ UNCHANGED <<strategy, engineVars, pending, clientVars, late, sizerVars>>
--------------------------------------------------------------------------------
Work(t) == Flush(t) \/ WorkerEnds(t) \/ Take(t) \/ Discard(t) \/ Infer(t) \/ OutOfMemory(t) \/ Store(t)

Next ==
    \/ Start \/ Stop \/ StopReturns
    \/ \E r \in Requests : Submit(r) \/ Expire(r) \/ GetResult(r)
    \/ \E t \in Threads : Work(t)

(* Threads are scheduled, models return, and should_flush() does not say no *)
(* for ever while requests wait: the time since the last flush grows.       *)
Fairness == \A t \in Threads : WF_vars(Work(t))

Spec == Init /\ [][Next]_vars /\ Fairness
--------------------------------------------------------------------------------
(* Two workers flush one list, batches are cut, halved and grouped: a       *)
(* request waits, or is in one worker's hands, or had its callback, and     *)
(* never two of these: no camera image is inferred or answered twice.       *)
OnePlace ==
    /\ IsInjective(pending) /\ \A r \in ToSet(pending) : called[r] = 0
    /\ \A r \in Requests : called[r] <= 1
    /\ \A t \in Threads :
        /\ Distinct(thread[t].jobs)
        /\ \A r \in InHands(t) :
            /\ called[r] = 0 /\ r \notin ToSet(pending)
            /\ \A u \in Threads \ {t} : r \notin InHands(u)

(* The strategies that do not cut a batch lose no request that is in time   *)
(* and names a model, through out-of-memory halving and restarts with old   *)
(* workers still at work.                                                   *)
UncutLosesNothing ==
    strategy \in {"fixed_size", "timeout"} =>
        \A r \in asked \ (late \cup Unknown) :
            r \in ToSet(pending) \/ called[r] > 0 \/ \E t \in Threads : r \in InHands(t)

(* The strategy that sends a batch on timeout regardless of its size        *)
(* answers a request that is in time, however few there are, unless the     *)
(* engine is stopped.                                                       *)
RequestsAreAnswered ==
    \A r \in Requests :
        (r \in asked \ Unknown /\ strategy = "timeout")
            ~> (called[r] > 0 \/ r \in late \/ ~running)

(* A result leaves the table with the client that takes it: no two clients  *)
(* get the result of one request, whatever ids collide.                     *)
TakenOnce == \A r, s \in Requests : got[r] # Nobody /\ got[r] = got[s] => r = s

(* The types, and what becomes of a request on its way through pending     *)
(* list, batch and result: it is in one place, kept and handed out once.    *)
BatchInv == BatchTypeOK /\ OnePlace /\ UncutLosesNothing /\ TakenOnce
================================================================================
