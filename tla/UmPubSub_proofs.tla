--------------------------- MODULE UmPubSub_proofs ---------------------------
(***************************************************************************)
(* Proofs about umpub and umsub, for every number of threads, contexts,    *)
(* sources and messages, and whatever UM and the network do.               *)
(***************************************************************************)
EXTENDS UmPubSub, FiniteSetTheorems, TLAPS

Sending == {t \in Threads : thr_pc[t] = "send"}

ThreadSteps == {"none", "while", "prepare", "send", "read", "write", "advance", "done"}

(* Nothing is allocated before the threads run.  After that UM or a thread *)
(* about to send holds every block; some of them are free already if a     *)
(* message can be reported stable more than once.                          *)
HeapInv ==
  /\ num_thrds \in Nat \ {0}
  /\ thr_pc \in [Threads -> ThreadSteps]
  /\ heap \in Int /\ unstable \in Int
  /\ pub_pc \in {"create", "spawn"} =>
       heap = 0 /\ unstable = 0 /\ \A t \in Threads : thr_pc[t] = "none"
  /\ "stability" \in opts =>
       /\ heap <= unstable + Cardinality(Sending)
       /\ "stores" \notin opts => heap = unstable + Cardinality(Sending)

LEMMA SendingFinite ==
  ASSUME num_thrds \in Nat
  PROVE  IsFiniteSet(Sending) /\ Cardinality(Sending) \in Nat
<1>1. IsFiniteSet(Threads)
  BY FS_Interval DEF Threads
<1> QED
  BY <1>1, FS_Subset, FS_CardinalityType DEF Sending

(* A step of a thread that comes to its send, leaves it, or does neither.  *)
LEMMA Comes ==
  ASSUME HeapInv, num_thrds' = num_thrds, NEW t \in Threads, thr_pc[t] # "send",
         thr_pc' = [thr_pc EXCEPT ![t] = "send"]
  PROVE  Cardinality(Sending)' = Cardinality(Sending) + 1
<1>1. Sending' = Sending \cup {t} /\ t \notin Sending
  BY DEF Sending, Threads, HeapInv
<1> QED
  BY <1>1, SendingFinite, FS_AddElement DEF HeapInv

LEMMA Leaves ==
  ASSUME HeapInv, num_thrds' = num_thrds, NEW t \in Threads, thr_pc[t] = "send",
         NEW there \in ThreadSteps \ {"send"}, thr_pc' = [thr_pc EXCEPT ![t] = there]
  PROVE  Cardinality(Sending)' = Cardinality(Sending) - 1
<1>1. Sending' = Sending \ {t} /\ t \in Sending
  BY DEF Sending, Threads, HeapInv
<1> QED
  BY <1>1, SendingFinite, FS_RemoveElement DEF HeapInv

LEMMA Stays ==
  ASSUME HeapInv, num_thrds' = num_thrds, NEW t \in Threads, thr_pc[t] # "send",
         NEW there \in ThreadSteps \ {"send"}, thr_pc' = [thr_pc EXCEPT ![t] = there]
  PROVE  Cardinality(Sending)' = Cardinality(Sending)
<1>1. Sending' = Sending
  BY DEF Sending, Threads, HeapInv
<1> QED
  BY <1>1

LEMMA HeapThread ==
  ASSUME HeapInv, NEW t \in Threads, sending_thread_main(t)
  PROVE  HeapInv'
<1> USE DEF setupVars, thrVars, eventVars, mainVars, wireVars, AtThread, Go
<1>0. Cardinality(Sending) \in Nat
  BY SendingFinite DEF HeapInv
<1>1. CASE more_left(t)
  <2>1. /\ UNCHANGED <<num_thrds, opts, pub_pc, heap, unstable>> /\ thr_pc[t] = "while"
        /\ \E there \in {"prepare", "done"} : thr_pc' = [thr_pc EXCEPT ![t] = there]
    BY <1>1 DEF more_left
  <2>2. Cardinality(Sending)' = Cardinality(Sending)
    BY <2>1, Stays DEF ThreadSteps
  <2> QED
    BY <2>1, <2>2 DEF HeapInv, ThreadSteps, Threads
<1>2. CASE prepare(t)
  <2>1. /\ UNCHANGED <<num_thrds, opts, pub_pc, unstable>> /\ thr_pc[t] = "prepare"
        /\ thr_pc' = [thr_pc EXCEPT ![t] = "send"]
        /\ heap' = IF "stability" \in opts THEN heap + 1 ELSE heap
    BY <1>2 DEF prepare
  <2>2. Cardinality(Sending)' = Cardinality(Sending) + 1
    BY <2>1, Comes
  <2> QED
    BY <2>1, <2>2, <1>0 DEF HeapInv, ThreadSteps, Threads
<1>3. CASE send_accepted(t)
  <2>1. /\ UNCHANGED <<num_thrds, opts, pub_pc, heap>> /\ thr_pc[t] = "send"
        /\ thr_pc' = [thr_pc EXCEPT ![t] = "read"]
        /\ unstable' = IF "stability" \in opts THEN unstable + 1 ELSE unstable
    BY <1>3 DEF send_accepted
  <2>2. Cardinality(Sending)' = Cardinality(Sending) - 1
    BY <2>1, Leaves DEF ThreadSteps
  <2> QED
    BY <2>1, <2>2, <1>0 DEF HeapInv, ThreadSteps, Threads
<1>4. CASE send_fails(t)
  <2>1. /\ UNCHANGED <<num_thrds, opts, pub_pc, unstable>> /\ thr_pc[t] = "send"
        /\ thr_pc' = [thr_pc EXCEPT ![t] = "advance"]
        /\ heap' = IF "stability" \in opts THEN heap - 1 ELSE heap
    BY <1>4 DEF send_fails
  <2>2. Cardinality(Sending)' = Cardinality(Sending) - 1
    BY <2>1, Leaves DEF ThreadSteps
  <2> QED
    BY <2>1, <2>2, <1>0 DEF HeapInv, ThreadSteps, Threads
<1>5. CASE send_crashes(t)
  <2>1. UNCHANGED <<num_thrds, opts, thr_pc, heap, unstable>> /\ pub_pc' = "crash"
    BY <1>5 DEF send_crashes
  <2> QED
    BY <2>1 DEF HeapInv, Threads, Sending
<1>6. CASE read_count(t)
  <2>1. /\ UNCHANGED <<num_thrds, opts, pub_pc, heap, unstable>> /\ thr_pc[t] = "read"
        /\ thr_pc' = [thr_pc EXCEPT ![t] = "write"]
    BY <1>6 DEF read_count
  <2>2. Cardinality(Sending)' = Cardinality(Sending)
    BY <2>1, Stays DEF ThreadSteps
  <2> QED
    BY <2>1, <2>2 DEF HeapInv, ThreadSteps, Threads
<1>7. CASE write_count(t)
  <2>1. /\ UNCHANGED <<num_thrds, opts, pub_pc, heap, unstable>> /\ thr_pc[t] = "write"
        /\ thr_pc' = [thr_pc EXCEPT ![t] = "advance"]
    BY <1>7 DEF write_count
  <2>2. Cardinality(Sending)' = Cardinality(Sending)
    BY <2>1, Stays DEF ThreadSteps
  <2> QED
    BY <2>1, <2>2 DEF HeapInv, ThreadSteps, Threads
<1>8. CASE advance(t)
  <2>1. /\ UNCHANGED <<num_thrds, opts, pub_pc, heap, unstable>> /\ thr_pc[t] = "advance"
        /\ \E there \in {"done", "prepare", "while"} : thr_pc' = [thr_pc EXCEPT ![t] = there]
    BY <1>8 DEF advance
  <2>2. Cardinality(Sending)' = Cardinality(Sending)
    BY <2>1, Stays DEF ThreadSteps
  <2> QED
    BY <2>1, <2>2 DEF HeapInv, ThreadSteps, Threads
<1> QED
  BY <1>1, <1>2, <1>3, <1>4, <1>5, <1>6, <1>7, <1>8 DEF sending_thread_main

LEMMA HeapStep == HeapInv /\ [Next]_vars => HeapInv'
<1> SUFFICES ASSUME HeapInv, [Next]_vars PROVE HeapInv'
  OBVIOUS
<1> USE DEF setupVars, thrVars, eventVars, mainVars, wireVars, Go
<1>0. UNCHANGED <<num_thrds, opts, thr_pc, heap, unstable>> /\ pub_pc' \notin {"create", "spawn"}
        => HeapInv'
  BY DEF HeapInv, Threads, Sending
<1>1. CASE \E t \in Threads : sending_thread_main(t)
  BY <1>1, HeapThread
<1>2. CASE create_sources
  BY <1>2 DEF create_sources, HeapInv, Threads, Sending
<1>3. CASE start_threads
  <2>1. /\ UNCHANGED <<num_thrds, opts, heap, unstable>> /\ pub_pc = "spawn"
        /\ pub_pc' = "sending" /\ thr_pc' = [t \in Threads |-> "while"]
    BY <1>3 DEF start_threads
  <2>2. Sending' = {}
    BY <2>1 DEF Sending, Threads
  <2>3. Cardinality(Sending)' = 0
    BY <2>2, FS_EmptySet
  <2> QED
    BY <2>1, <2>3 DEF HeapInv, Threads, ThreadSteps
<1>4. CASE next_context
  <2>1. /\ UNCHANGED <<num_thrds, opts, heap, unstable>> /\ thr_pc[0] = "done"
        /\ pub_pc' \in {"sending", "linger"}
        /\ thr_pc' = thr_pc \/ thr_pc' = [thr_pc EXCEPT ![0] = "while"]
    BY <1>4 DEF next_context
  <2>2. CASE thr_pc' = thr_pc
    BY <2>1, <2>2 DEF HeapInv, Threads, Sending
  <2>3. CASE thr_pc' = [thr_pc EXCEPT ![0] = "while"]
    <3>1. 0 \in Threads
      BY DEF HeapInv, Threads
    <3>2. Cardinality(Sending)' = Cardinality(Sending)
      BY <2>1, <2>3, <3>1, Stays DEF ThreadSteps
    <3> QED
      BY <2>1, <2>3, <3>1, <3>2 DEF HeapInv, ThreadSteps, Threads
  <2> QED
    BY <2>1, <2>2, <2>3
<1>5. CASE deregister_fails \/ linger \/ print_final_test_results \/ delete_source
            \/ delete_contexts
  BY <1>0, <1>5 DEF deregister_fails, linger, print_final_test_results, delete_source,
                    delete_contexts
<1>6. CASE handle_src_event
  <2>1. UNCHANGED <<num_thrds, opts, thr_pc, pub_pc>> /\ unstable > 0
        /\ unstable' = unstable - 1 /\ heap' = heap - 1
    BY <1>6 DEF handle_src_event
  <2>2. Cardinality(Sending)' = Cardinality(Sending) /\ Cardinality(Sending) \in Nat
    BY <2>1, SendingFinite DEF HeapInv, Sending, Threads
  <2> QED
    BY <2>1, <2>2 DEF HeapInv, Threads
<1>7. CASE increment_insecs \/ print_perf_stats
  BY <1>7 DEF increment_insecs, print_perf_stats, HeapInv, Threads, Sending
<1>8. CASE pub_rcv_handle_msg \/ reply_lost
  BY <1>8 DEF pub_rcv_handle_msg, reply_lost, HeapInv, Threads, Sending
<1>9. CASE UNCHANGED pubVars
  BY <1>9 DEF pubVars, HeapInv, Threads, Sending
<1>10. CASE stable_again
  <2>1. UNCHANGED <<num_thrds, opts, thr_pc, unstable>> /\ "stores" \in opts
    BY <1>10 DEF stable_again
  <2>2. (heap' = heap /\ pub_pc' = "crash") \/ (heap' = heap - 1 /\ pub_pc' = pub_pc /\ heap > 0)
    BY <1>10 DEF stable_again
  <2>3. Cardinality(Sending)' = Cardinality(Sending) /\ Cardinality(Sending) \in Nat
    BY <2>1, SendingFinite DEF HeapInv, Sending, Threads
  <2>4. heap' = heap \/ pub_pc \notin {"create", "spawn"}
    BY <2>2 DEF HeapInv
  <2> QED
    BY <2>1, <2>2, <2>3, <2>4 DEF HeapInv, Threads
<1> QED
  BY <1>1, <1>2, <1>3, <1>4, <1>5, <1>6, <1>7, <1>8, <1>9, <1>10
     DEF Next, PubNext, pub_main, pub_callbacks, vars

(* However the sends of any number of threads end, none keeps a block it   *)
(* should free nor frees one it should not.  With one report for each      *)
(* message at most, what is allocated is what UM holds for messages not    *)
(* reported stable and the threads for those they are about to send.       *)
(* Several stores report a message several times, and less is allocated.   *)
THEOREM TimesOwned == Spec => []ClientdOwned
<1>1. Init => HeapInv
  <2> SUFFICES ASSUME NEW setup \in Setups, PubInit(setup.pub) PROVE HeapInv
    BY DEF Init
  <2>1. num_thrds \in Nat \ {0} /\ thr_pc = [t \in Threads |-> "none"]
    BY SetupsAssumption DEF PubInit, PubCommands
  <2>2. Sending = {}
    BY <2>1 DEF Sending
  <2> QED
    BY <2>1, <2>2, FS_EmptySet DEF HeapInv, PubInit, ThreadSteps
<1>2. HeapInv /\ [Next]_vars => HeapInv'
  BY HeapStep
<1>3. HeapInv => ClientdOwned
  BY DEF HeapInv, ClientdOwned, Sending
<1> QED
  BY <1>1, <1>2, <1>3, PTL DEF Spec

-----------------------------------------------------------------------------
(* With one thread the counter a thread has read is still the counter when *)
(* it is written, and what was shown is not more than what the timer       *)
(* remembers.                                                              *)
ShownInv ==
  num_thrds = 1 =>
    /\ thr_pc \in [{0} -> ThreadSteps] /\ got \in [{0} -> Int]
    /\ perf_msgs_sent_out \in Int /\ last_perf_msgs_sent_out \in Int /\ shown \in Int
    /\ thr_pc[0] = "write" => got[0] = perf_msgs_sent_out
    /\ last_perf_msgs_sent_out <= perf_msgs_sent_out /\ shown <= perf_msgs_sent_out
    /\ timer # "shown" => shown <= last_perf_msgs_sent_out
    /\ pub_pc \in {"create", "spawn"} => timer = "off"

LEMMA OneThread == num_thrds = 1 => Threads = {0}
  BY DEF Threads

LEMMA ShownStep == ShownInv /\ [Next]_vars => ShownInv'
<1> SUFFICES ASSUME ShownInv, [Next]_vars, num_thrds' = 1 PROVE ShownInv'
  BY DEF ShownInv
<1> USE DEF setupVars, thrVars, eventVars, mainVars, wireVars, AtThread, Go
<1>0. num_thrds = 1 /\ num_thrds' = num_thrds
  <2>1. CASE PubNext
    BY <2>1 DEF PubNext, pub_main, pub_callbacks, sending_thread_main, more_left, prepare,
                send_accepted, send_fails, send_crashes, read_count, write_count, advance,
                create_sources, start_threads, next_context, deregister_fails, linger,
                print_final_test_results, delete_source, delete_contexts, handle_src_event,
                stable_again, increment_insecs, print_perf_stats, pub_rcv_handle_msg, reply_lost
  <2>2. CASE UNCHANGED pubVars
    BY <2>2 DEF pubVars
  <2> QED
    BY <2>1, <2>2 DEF Next, vars
<1>1. CASE \E t \in Threads : sending_thread_main(t)
  <2>1. sending_thread_main(0)
    BY <1>0, <1>1, OneThread
  <2>2. CASE more_left(0) \/ prepare(0) \/ send_accepted(0) \/ send_fails(0) \/ send_crashes(0)
    BY <1>0, <2>2 DEF more_left, prepare, send_accepted, send_fails, send_crashes, ShownInv,
                      ThreadSteps
  <2>3. CASE read_count(0)
    BY <1>0, <2>3 DEF read_count, ShownInv, ThreadSteps
  <2>4. CASE write_count(0)
    BY <1>0, <2>4 DEF write_count, ShownInv, ThreadSteps
  <2>5. CASE advance(0)
    BY <1>0, <2>5 DEF advance, ShownInv, ThreadSteps
  <2> QED
    BY <2>1, <2>2, <2>3, <2>4, <2>5 DEF sending_thread_main
<1>2. CASE create_sources \/ deregister_fails \/ linger \/ print_final_test_results
           \/ delete_source \/ delete_contexts
  BY <1>0, <1>2 DEF create_sources, deregister_fails, linger, print_final_test_results,
                    delete_source, delete_contexts, ShownInv
<1>3. CASE start_threads
  BY <1>0, <1>3, OneThread DEF start_threads, ShownInv, ThreadSteps
<1>4. CASE next_context
  BY <1>0, <1>4 DEF next_context, ShownInv, ThreadSteps
<1>5. CASE handle_src_event \/ stable_again \/ pub_rcv_handle_msg \/ reply_lost
  BY <1>0, <1>5 DEF handle_src_event, stable_again, pub_rcv_handle_msg, reply_lost, ShownInv
<1>6. CASE increment_insecs
  BY <1>0, <1>6 DEF increment_insecs, ShownInv
<1>7. CASE print_perf_stats
  BY <1>0, <1>7 DEF print_perf_stats, ShownInv
<1>8. CASE UNCHANGED pubVars
  BY <1>0, <1>8 DEF pubVars, ShownInv
<1> QED
  BY <1>1, <1>2, <1>3, <1>4, <1>5, <1>6, <1>7, <1>8
     DEF Next, PubNext, pub_main, pub_callbacks, vars

(* print_perf_stats: with one thread, who takes an early report for all    *)
(* that was sent and adds what the later ones say was sent since, never    *)
(* arrives at more than was sent, wherever the timer comes between two     *)
(* steps of the thread.                                                    *)
THEOREM IntervalsAddUp == Spec => []ShownNeverOver
<1>1. Init => ShownInv
  <2> SUFFICES ASSUME NEW setup \in Setups, PubInit(setup.pub) PROVE ShownInv
    BY DEF Init
  <2> QED
    BY OneThread DEF PubInit, ShownInv, ThreadSteps
<1>2. ShownInv /\ [Next]_vars => ShownInv'
  BY ShownStep
<1>3. ShownInv => ShownNeverOver
  BY DEF ShownInv, ShownNeverOver
<1> QED
  BY <1>1, <1>2, <1>3, PTL DEF Spec
-----------------------------------------------------------------------------
(* Sums over a finite set, as the number of things that are counted: the    *)
(* sum over two disjoint sets, and what the change of one entry does to it. *)
LEMMA Column ==
  ASSUME NEW s, NEW n \in Nat
  PROVE  IsFiniteSet({s} \X (1 .. n)) /\ Cardinality({s} \X (1 .. n)) = n
<1>1. IsFiniteSet({s}) /\ Cardinality({s}) = 1
  BY FS_Singleton
<1>2. IsFiniteSet(1 .. n) /\ Cardinality(1 .. n) = n
  BY FS_Interval
<1>3. Cardinality({s} \X (1 .. n)) = Cardinality({s}) * Cardinality(1 .. n)
  BY <1>1, <1>2, FS_Product
<1>4. IsFiniteSet({s} \X (1 .. n))
  BY <1>1, <1>2, FS_Product
<1>5. 1 * n = n
  OBVIOUS
<1> QED
  BY <1>1, <1>2, <1>3, <1>4, <1>5

LEMMA ThingsFinite ==
  ASSUME NEW S, IsFiniteSet(S), NEW f, \A s \in S : f[s] \in Nat
  PROVE  IsFiniteSet(Things(f, S)) /\ SumOver(f, S) \in Nat
<1> DEFINE ofSource == [s \in S |-> {s} \X (1 .. f[s])]
           sets == {{s} \X (1 .. f[s]) : s \in S}
<1>1. ofSource \in Surjection(S, sets)
  BY DEF Surjection
<1>2. IsFiniteSet(sets)
  BY <1>1, FS_Surjection
<1>3. ASSUME NEW s \in S PROVE IsFiniteSet({s} \X (1 .. f[s]))
  BY Column
<1>4. IsFiniteSet(UNION sets)
  BY <1>2, <1>3, FS_UNION
<1> QED
  BY <1>4, FS_CardinalityType DEF Things, SumOver

LEMMA SumOfOne ==
  ASSUME NEW s, NEW f, f[s] \in Nat
  PROVE  SumOver(f, {s}) = f[s]
<1>1. Things(f, {s}) = {s} \X (1 .. f[s])
  BY DEF Things
<1> QED
  BY <1>1, Column DEF SumOver

LEMMA SumOfNone == \A f : SumOver(f, {}) = 0
<1>1. \A f : Things(f, {}) = {}
  BY DEF Things
<1> QED
  BY <1>1, FS_EmptySet DEF SumOver

LEMMA SumOfParts ==
  ASSUME NEW S, IsFiniteSet(S), NEW T, IsFiniteSet(T), S \cap T = {},
         NEW f, \A s \in S \cup T : f[s] \in Nat
  PROVE  SumOver(f, S \cup T) = SumOver(f, S) + SumOver(f, T)
<1>1. Things(f, S \cup T) = Things(f, S) \cup Things(f, T)
  BY DEF Things
<1>2. Things(f, S) \cap Things(f, T) = {}
  <2>1. \A p : p \in Things(f, S) => p[1] \in S
    BY DEF Things
  <2>2. \A p : p \in Things(f, T) => p[1] \in T
    BY DEF Things
  <2> QED
    BY <2>1, <2>2
<1>3. IsFiniteSet(Things(f, S)) /\ IsFiniteSet(Things(f, T))
  BY ThingsFinite
<1>4. Cardinality(Things(f, S)) \in Nat /\ Cardinality(Things(f, T)) \in Nat
  BY <1>3, FS_CardinalityType
<1>5. Cardinality(Things(f, S) \cap Things(f, T)) = 0
  BY <1>2, FS_EmptySet
<1>6. Cardinality(Things(f, S) \cup Things(f, T))
        = Cardinality(Things(f, S)) + Cardinality(Things(f, T))
          - Cardinality(Things(f, S) \cap Things(f, T))
  BY <1>3, FS_Union
<1>7. Cardinality(Things(f, S \cup T)) = Cardinality(Things(f, S)) + Cardinality(Things(f, T))
  <2>1. ASSUME NEW a \in Nat, NEW b \in Nat, NEW c, c = 0 PROVE a + b - c = a + b
    BY <2>1
  <2>2. Cardinality(Things(f, S)) + Cardinality(Things(f, T))
          - Cardinality(Things(f, S) \cap Things(f, T))
        = Cardinality(Things(f, S)) + Cardinality(Things(f, T))
    BY <2>1, <1>4, <1>5
  <2> QED
    BY <1>1, <1>6, <2>2
<1> QED
  BY <1>7 DEF SumOver

LEMMA SumIsPointwise ==
  ASSUME NEW S, NEW f, NEW g, \A s \in S : f[s] = g[s]
  PROVE  SumOver(f, S) = SumOver(g, S)
<1>1. Things(f, S) = Things(g, S)
  BY DEF Things
<1> QED
  BY <1>1 DEF SumOver

LEMMA SumIsMonotone ==
  ASSUME NEW S, IsFiniteSet(S), NEW f, NEW g,
         \A s \in S : f[s] \in Nat /\ g[s] \in Nat /\ f[s] <= g[s]
  PROVE  SumOver(f, S) <= SumOver(g, S)
<1>1. \A s \in S : {s} \X (1 .. f[s]) \subseteq {s} \X (1 .. g[s])
  OBVIOUS
<1>2. Things(f, S) \subseteq Things(g, S)
  BY <1>1 DEF Things
<1>3. IsFiniteSet(Things(g, S))
  BY ThingsFinite
<1> QED
  BY <1>2, <1>3, FS_Subset DEF SumOver

LEMMA SumOfProduct ==
  ASSUME NEW S, IsFiniteSet(S), NEW n \in Nat
  PROVE  SumOver([s \in S |-> n], S) = Cardinality(S) * n
<1>1. Things([s \in S |-> n], S) = S \X (1 .. n)
  BY DEF Things
<1>2. Cardinality(1 .. n) = n /\ IsFiniteSet(1 .. n)
  BY FS_Interval
<1> QED
  BY <1>1, <1>2, FS_Product DEF SumOver

(* One entry of the function changes. *)
LEMMA SumChanges ==
  ASSUME NEW S, IsFiniteSet(S), NEW f, NEW g,
         \A u \in S : f[u] \in Nat /\ g[u] \in Nat,
         NEW s \in S, \A u \in S \ {s} : g[u] = f[u]
  PROVE  /\ SumOver(g, S) \in Nat /\ SumOver(f, S) \in Nat
         /\ SumOver(g, S) + f[s] = SumOver(f, S) + g[s]
<1> DEFINE others == S \ {s}
<1>1. S = others \cup {s} /\ others \cap {s} = {}
  OBVIOUS
<1>2. IsFiniteSet(others) /\ IsFiniteSet({s})
  BY FS_RemoveElement, FS_Singleton
<1>3. SumOver(f, S) = SumOver(f, others) + SumOver(f, {s})
  BY <1>1, <1>2, SumOfParts
<1>4. SumOver(g, S) = SumOver(g, others) + SumOver(g, {s})
  <2> QED
    BY <1>1, <1>2, SumOfParts
<1>5. SumOver(f, others) = SumOver(g, others)
  BY SumIsPointwise
<1>6. SumOver(f, {s}) = f[s] /\ SumOver(g, {s}) = g[s]
  BY SumOfOne
<1>7. SumOver(f, others) \in Nat
  BY <1>2, ThingsFinite
<1> HIDE DEF others
<1> QED
  BY <1>3, <1>4, <1>5, <1>6, <1>7

-----------------------------------------------------------------------------
(* How many processes are at some of their steps. *)
At(pc, steps) == {p \in DOMAIN pc : pc[p] \in steps}

LEMMA AtChanges ==
  ASSUME NEW pc, IsFiniteSet(DOMAIN pc), NEW p \in DOMAIN pc, NEW steps,
         NEW pcN, DOMAIN pcN = DOMAIN pc, \A q \in DOMAIN pc \ {p} : pcN[q] = pc[q]
  PROVE  /\ Cardinality(At(pc, steps)) \in Nat
         /\ Cardinality(At(pcN, steps)) \in Nat
         /\ (pc[p] \in steps <=> pcN[p] \in steps) =>
              Cardinality(At(pcN, steps)) = Cardinality(At(pc, steps))
         /\ pc[p] \notin steps /\ pcN[p] \in steps =>
              Cardinality(At(pcN, steps)) = Cardinality(At(pc, steps)) + 1
         /\ pc[p] \in steps /\ pcN[p] \notin steps =>
              Cardinality(At(pcN, steps)) = Cardinality(At(pc, steps)) - 1
<1>1. IsFiniteSet(At(pc, steps)) /\ Cardinality(At(pc, steps)) \in Nat
  BY FS_Subset, FS_CardinalityType DEF At
<1>2. IsFiniteSet(At(pcN, steps)) /\ Cardinality(At(pcN, steps)) \in Nat
  <2>1. At(pcN, steps) \subseteq DOMAIN pc
    BY DEF At
  <2> QED
    BY <2>1, FS_Subset, FS_CardinalityType
<1>3. (pc[p] \in steps <=> pcN[p] \in steps) => At(pcN, steps) = At(pc, steps)
  BY DEF At
<1>4. pc[p] \notin steps /\ pcN[p] \in steps =>
        p \notin At(pc, steps) /\ At(pcN, steps) = At(pc, steps) \cup {p}
  BY DEF At
<1>5. pc[p] \in steps /\ pcN[p] \notin steps =>
        p \in At(pc, steps) /\ At(pcN, steps) = At(pc, steps) \ {p}
  BY DEF At
<1>6. pc[p] \notin steps /\ pcN[p] \in steps =>
        Cardinality(At(pcN, steps)) = Cardinality(At(pc, steps)) + 1
  <2> SUFFICES ASSUME pc[p] \notin steps, pcN[p] \in steps
               PROVE  Cardinality(At(pcN, steps)) = Cardinality(At(pc, steps)) + 1
    OBVIOUS
  <2>1. Cardinality(At(pc, steps) \cup {p}) = Cardinality(At(pc, steps)) + 1
    BY <1>1, <1>4, FS_AddElement
  <2> QED
    BY <1>4, <2>1
<1>7. pc[p] \in steps /\ pcN[p] \notin steps =>
        Cardinality(At(pcN, steps)) = Cardinality(At(pc, steps)) - 1
  BY <1>1, <1>5, FS_RemoveElement
<1> QED
  BY <1>1, <1>2, <1>3, <1>6, <1>7

LEMMA AtNone ==
  ASSUME NEW pc, NEW steps, \A p \in DOMAIN pc : pc[p] \notin steps
  PROVE  Cardinality(At(pc, steps)) = 0
<1>1. At(pc, steps) = {}
  BY DEF At
<1> QED
  BY <1>1, FS_EmptySet

-----------------------------------------------------------------------------
(* umpub's count of what it sent.                                           *)

Uncounted == {"read", "write"}

(* A thread is in the loop only while it has messages left, and the topic   *)
(* it is about to send on exists.                                           *)
PubTypes ==
  /\ totalmsgsleft \in Nat /\ perf_msgs_sent_out \in Nat
  /\ accepted \in [Srcs -> Nat]
  /\ got \in [Threads -> Nat] /\ msgsleft \in [Threads -> Nat] /\ idx \in [Threads -> Nat]
  /\ \A t \in Threads :
       /\ thr_pc[t] \in {"prepare", "send"} => idx[t] < NumSrcs
       /\ thr_pc[t] \in {"prepare", "send", "read", "write", "advance"} => msgsleft[t] > 0

LEMMA PubTypesThread ==
  ASSUME HeapInv, PubTypes, NEW t \in Threads, sending_thread_main(t)
  PROVE  PubTypes'
<1> USE DEF setupVars, thrVars, eventVars, mainVars, wireVars, AtThread, Go, ThreadSteps
<1>0. /\ thr_pc \in [Threads -> ThreadSteps] /\ num_thrds \in Nat /\ NumSrcs \in Nat \ {0}
      /\ Threads \subseteq Nat
  BY TransportAssumption DEF HeapInv, Threads
<1>1. CASE more_left(t)
  <2>1. /\ UNCHANGED <<num_thrds, totalmsgsleft, perf_msgs_sent_out, got, msgsleft, accepted>>
        /\ idx' = [idx EXCEPT ![t] = 0] /\ thr_pc'[t] \in {"prepare", "done"}
        /\ thr_pc'[t] = "prepare" => msgsleft[t] > 0
        /\ \A u \in Threads \ {t} : thr_pc'[u] = thr_pc[u]
    BY <1>0, <1>1 DEF more_left
  <2>2. idx' \in [Threads -> Nat] /\ idx'[t] = 0 /\ \A u \in Threads \ {t} : idx'[u] = idx[u]
    BY <2>1 DEF PubTypes
  <2>3. \A u \in Threads :
          /\ thr_pc'[u] \in {"prepare", "send"} => idx'[u] < NumSrcs
          /\ thr_pc'[u] \in {"prepare", "send", "read", "write", "advance"} => msgsleft[u] > 0
    <3>1. ASSUME NEW u \in Threads \ {t}
          PROVE  thr_pc'[u] = thr_pc[u] /\ idx'[u] = idx[u]
      BY <2>1, <2>2
    <3> QED
      BY <1>0, <2>1, <2>2, <3>1 DEF PubTypes
  <2>4. Threads' = Threads
    BY <2>1 DEF Threads
  <2> QED
    BY <2>1, <2>2, <2>3, <2>4 DEF PubTypes
<1>2. CASE prepare(t)
  BY <1>0, <1>2 DEF prepare, PubTypes, Threads
<1>3. CASE send_accepted(t)
  <2>1. UNCHANGED <<num_thrds, totalmsgsleft, perf_msgs_sent_out, got, msgsleft, idx>>
    BY <1>3 DEF send_accepted
  <2>2. accepted' \in [Srcs -> Nat]
    <3>1. accepted \in [Srcs -> Nat] /\ idx[t] \in Srcs
      BY <1>0, <1>3 DEF send_accepted, PubTypes, Srcs
    <3>2. accepted' = [accepted EXCEPT ![idx[t]] = accepted[idx[t]] + 1]
      BY <1>3 DEF send_accepted, Accept
    <3>3. accepted[idx[t]] + 1 \in Nat
      BY <3>1
    <3> QED
      BY <3>1, <3>2, <3>3
  <2> QED
    BY <1>0, <1>3, <2>1, <2>2 DEF send_accepted, PubTypes, Threads
<1>4. CASE send_fails(t)
  BY <1>0, <1>4 DEF send_fails, PubTypes, Threads
<1>5. CASE send_crashes(t)
  BY <1>0, <1>5 DEF send_crashes, PubTypes, Threads
<1>6. CASE read_count(t)
  BY <1>0, <1>6 DEF read_count, PubTypes, Threads
<1>7. CASE write_count(t)
  BY <1>0, <1>7 DEF write_count, PubTypes, Threads
<1>8. CASE advance(t)
  <2>1. \A i \in Nat : AfterBody(t, i) \in Nat
    BY <1>0 DEF AfterBody
  <2>2. msgsleft[t] \in Nat /\ msgsleft[t] > 0 /\ idx[t] \in Nat
    BY <1>8 DEF advance, PubTypes
  <2>3. msgsleft' \in [Threads -> Nat] /\ idx' \in [Threads -> Nat]
    BY <1>8, <2>1, <2>2 DEF advance, PubTypes
  <2>4. thr_pc'[t] = "prepare" => idx'[t] < NumSrcs /\ msgsleft'[t] > 0
    BY <1>0, <1>8, <2>1, <2>2 DEF advance, PubTypes
  <2>5. thr_pc'[t] \in {"prepare", "while", "done"}
    BY <1>0, <1>8 DEF advance
  <2>6. \A u \in Threads \ {t} :
          thr_pc'[u] = thr_pc[u] /\ idx'[u] = idx[u] /\ msgsleft'[u] = msgsleft[u]
    BY <1>0, <1>8 DEF advance, PubTypes
  <2>7. UNCHANGED <<num_thrds, totalmsgsleft, perf_msgs_sent_out, got, accepted>>
    BY <1>8 DEF advance
  <2> QED
    BY <1>0, <2>3, <2>4, <2>5, <2>6, <2>7 DEF PubTypes, Threads
<1> QED
  BY <1>1, <1>2, <1>3, <1>4, <1>5, <1>6, <1>7, <1>8 DEF sending_thread_main

(* What main() and the callbacks do to the threads. *)
LEMMA Spawned ==
  ASSUME HeapInv, start_threads
  PROVE  /\ UNCHANGED <<num_thrds, totalmsgsleft, perf_msgs_sent_out, got, msgsleft, idx, accepted>>
         /\ pub_pc' = "sending"
         /\ thr_pc = [t \in Threads |-> "none"] /\ thr_pc' = [t \in Threads |-> "while"]
BY DEF start_threads, HeapInv, setupVars, wireVars

LEMMA OtherSteps ==
  ASSUME pub_main \/ pub_callbacks, ~start_threads
  PROVE  /\ UNCHANGED <<num_thrds, totalmsgsleft, perf_msgs_sent_out, got, msgsleft, idx, accepted>>
         /\ \/ thr_pc' = thr_pc
            \/ thr_pc[0] = "done" /\ thr_pc' = [thr_pc EXCEPT ![0] = "while"]
<1> USE DEF setupVars, thrVars, eventVars, mainVars, wireVars, Go
<1>1. CASE create_sources \/ deregister_fails \/ linger \/ print_final_test_results
           \/ delete_source \/ delete_contexts
  BY <1>1 DEF create_sources, deregister_fails, linger, print_final_test_results, delete_source,
              delete_contexts
<1>2. CASE next_context
  BY <1>2 DEF next_context
<1>3. CASE pub_callbacks
  BY <1>3 DEF pub_callbacks, handle_src_event, stable_again, increment_insecs, print_perf_stats,
              pub_rcv_handle_msg, reply_lost
<1> QED
  BY <1>1, <1>2, <1>3 DEF pub_main

(* umsub and the network accept nothing for umpub. *)
LEMMA AcceptedKept ==
  ASSUME SubNext \/ \E s \in Srcs : miss(s)
  PROVE  UNCHANGED accepted
BY DEF SubNext, rcv_handle_msg, sub_begins, BeginSession, message, burst, Consume,
       count_data, count_loss, count_burst, reply, end_of_session, EndSession, event_queue_proccess, sub_main,
       create_receivers, wake_up, get_loss_or_print_stats, print_bw, test_end, sub_linger,
       delete_receiver, unblock_threads, pthread_join, touch_flag, INThandler, handler_exits,
       miss, wireVars

LEMMA PubTypesStep == HeapInv /\ PubTypes /\ [Next]_vars => PubTypes'
<1> SUFFICES ASSUME HeapInv, PubTypes, [Next]_vars PROVE PubTypes'
  OBVIOUS
<1>0. /\ thr_pc \in [Threads -> ThreadSteps] /\ num_thrds \in Nat \ {0} /\ 0 \in Threads
  BY DEF HeapInv, Threads
<1>1. CASE \E t \in Threads : sending_thread_main(t)
  BY <1>1, PubTypesThread
<1>2. CASE start_threads
  BY <1>2, Spawned DEF PubTypes, Threads
<1>3. CASE (pub_main \/ pub_callbacks) /\ ~start_threads
  <2>1. CASE UNCHANGED thr_pc
    BY <1>3, <2>1, OtherSteps DEF PubTypes, Threads
  <2>2. CASE thr_pc[0] = "done" /\ thr_pc' = [thr_pc EXCEPT ![0] = "while"]
    BY <1>0, <1>3, <2>2, OtherSteps DEF PubTypes, Threads
  <2> QED
    BY <1>3, <2>1, <2>2, OtherSteps
<1>4. CASE UNCHANGED pubVars /\ UNCHANGED accepted
  BY <1>4 DEF PubTypes, Threads, pubVars, setupVars, thrVars
<1>5. CASE UNCHANGED vars
  BY <1>4, <1>5 DEF vars, wireVars
<1> QED
  BY <1>1, <1>2, <1>3, <1>4, <1>5, AcceptedKept DEF Next, PubNext

(* The messages a thread may still have accepted. *)
StillDue ==
  [t \in Threads |->
     msgsleft[t] - (IF thr_pc[t] \in {"read", "write", "advance"} THEN 1 ELSE 0)]

(* What was accepted and is not counted yet is one message of each thread   *)
(* between its send and its increment: neither the counter nor the value a  *)
(* thread has read is more than the others leave.  What was accepted and    *)
(* what is still due is never more than -M allows.                          *)
CountInv ==
  /\ perf_msgs_sent_out + Cardinality(At(thr_pc, Uncounted)) <= Total(accepted)
  /\ \A t \in Threads :
       thr_pc[t] = "write" => got[t] + Cardinality(At(thr_pc, Uncounted)) <= Total(accepted)
  /\ Total(accepted) + SumOver(StillDue, Threads) <= totalmsgsleft

LEMMA CountTypes ==
  ASSUME HeapInv, PubTypes
  PROVE  /\ IsFiniteSet(Threads) /\ IsFiniteSet(Srcs) /\ DOMAIN thr_pc = Threads
         /\ Total(accepted) = SumOver(accepted, Srcs) /\ Total(accepted) \in Nat
         /\ StillDue \in [Threads -> Nat] /\ SumOver(StillDue, Threads) \in Nat
         /\ Cardinality(At(thr_pc, Uncounted)) \in Nat
<1>1. IsFiniteSet(Threads)
  BY FS_Interval DEF Threads, HeapInv
<1>2. IsFiniteSet(Srcs)
  BY FS_Interval, TransportAssumption DEF Srcs
<1>3. DOMAIN thr_pc = Threads /\ DOMAIN accepted = Srcs
  BY DEF HeapInv, PubTypes
<1>4. SumOver(accepted, Srcs) \in Nat
  BY <1>2, ThingsFinite DEF PubTypes
<1>5. \A t \in Threads : StillDue[t] \in Nat
  BY DEF StillDue, PubTypes
<1>6. StillDue \in [Threads -> Nat]
  BY <1>5 DEF StillDue
<1>7. SumOver(StillDue, Threads) \in Nat
  BY <1>1, <1>6, ThingsFinite
<1>8. IsFiniteSet(At(thr_pc, Uncounted))
  BY <1>1, <1>3, FS_Subset DEF At
<1> QED
  BY <1>1, <1>2, <1>3, <1>4, <1>6, <1>7, <1>8, FS_CardinalityType DEF Total

(* A step of one thread, and what it adds to each of the three numbers. *)
LEMMA ThreadMoves ==
  ASSUME HeapInv, PubTypes, HeapInv', PubTypes', num_thrds' = num_thrds, NEW t \in Threads,
         \A u \in Threads \ {t} : thr_pc'[u] = thr_pc[u] /\ msgsleft'[u] = msgsleft[u]
  PROVE  LET n == Cardinality(At(thr_pc, Uncounted))
             m == Cardinality(At(thr_pc', Uncounted))
         IN  /\ SumOver(StillDue', Threads') \in Nat
             /\ SumOver(StillDue', Threads') + StillDue[t] = SumOver(StillDue, Threads) + StillDue'[t]
             /\ StillDue[t] \in Nat /\ StillDue'[t] \in Nat
             /\ m \in Nat
             /\ (thr_pc[t] \in Uncounted <=> thr_pc'[t] \in Uncounted) => m = n
             /\ thr_pc[t] \notin Uncounted /\ thr_pc'[t] \in Uncounted => m = n + 1
             /\ thr_pc[t] \in Uncounted /\ thr_pc'[t] \notin Uncounted => m = n - 1
<1>1. Threads' = Threads
  BY DEF Threads
<1>2. /\ IsFiniteSet(Threads) /\ DOMAIN thr_pc = Threads /\ DOMAIN thr_pc' = Threads
      /\ StillDue \in [Threads -> Nat]
  BY <1>1, CountTypes DEF HeapInv
<1>3. StillDue' \in [Threads -> Nat]
  <2>1. \A u \in Threads : StillDue'[u] \in Nat
    BY <1>1 DEF StillDue, PubTypes
  <2> QED
    BY <1>1, <2>1 DEF StillDue
<1>4. \A u \in Threads \ {t} : StillDue'[u] = StillDue[u]
  BY <1>1 DEF StillDue
<1>5. StillDue[t] \in Nat /\ StillDue'[t] \in Nat
  BY <1>2, <1>3
<1>6. /\ SumOver(StillDue', Threads) \in Nat
      /\ SumOver(StillDue', Threads) + StillDue[t] = SumOver(StillDue, Threads) + StillDue'[t]
  BY <1>2, <1>3, <1>4, SumChanges
<1> QED
  BY <1>1, <1>2, <1>5, <1>6, AtChanges

LEMMA AcceptsOne ==
  ASSUME HeapInv, PubTypes, PubTypes', NEW t \in Threads, send_accepted(t)
  PROVE  Total(accepted)' = Total(accepted) + 1
<1> USE DEF AtThread
<1>1. /\ idx[t] \in Srcs /\ accepted'[idx[t]] = accepted[idx[t]] + 1
      /\ \A u \in Srcs \ {idx[t]} : accepted'[u] = accepted[u]
  BY TransportAssumption DEF send_accepted, Accept, PubTypes, Srcs
<1>2. accepted[idx[t]] \in Nat
  BY <1>1 DEF PubTypes
<1>3. IsFiniteSet(Srcs) /\ accepted' \in [Srcs -> Nat] /\ accepted \in [Srcs -> Nat]
  BY CountTypes DEF PubTypes
<1>4. /\ SumOver(accepted', Srcs) \in Nat /\ SumOver(accepted, Srcs) \in Nat
      /\ SumOver(accepted', Srcs) + accepted[idx[t]] = SumOver(accepted, Srcs) + accepted'[idx[t]]
  BY <1>1, <1>3, SumChanges
<1>5. SumOver(accepted', Srcs) = SumOver(accepted, Srcs) + 1
  BY <1>1, <1>2, <1>4
<1> QED
  BY <1>3, <1>5 DEF Total

LEMMA CountThread ==
  ASSUME HeapInv, PubTypes, CountInv, HeapInv', PubTypes', NEW t \in Threads, sending_thread_main(t)
  PROVE  CountInv'
<1> USE DEF setupVars, thrVars, eventVars, mainVars, wireVars, AtThread, Go, ThreadSteps, Uncounted
<1> DEFINE n == Cardinality(At(thr_pc, Uncounted))
           nN == Cardinality(At(thr_pc', Uncounted))
           due == SumOver(StillDue, Threads)
           dueN == SumOver(StillDue', Threads')
<1>0. /\ thr_pc \in [Threads -> ThreadSteps] /\ got \in [Threads -> Nat]
      /\ msgsleft \in [Threads -> Nat] /\ perf_msgs_sent_out \in Nat
      /\ totalmsgsleft \in Nat /\ Total(accepted) \in Nat /\ n \in Nat /\ due \in Nat
  BY CountTypes DEF HeapInv, PubTypes
<1>1. CASE more_left(t) \/ prepare(t) \/ send_fails(t)
  <2>1. /\ UNCHANGED <<num_thrds, totalmsgsleft, perf_msgs_sent_out, got, accepted, msgsleft>>
        /\ thr_pc[t] \in {"while", "prepare", "send"} /\ thr_pc'[t] \in {"prepare", "send", "advance", "done"}
        /\ \A u \in Threads \ {t} :
             thr_pc'[u] = thr_pc[u] /\ msgsleft'[u] = msgsleft[u] /\ got'[u] = got[u]
    BY <1>0, <1>1 DEF more_left, prepare, send_fails
  <2>2. Threads' = Threads
    BY <2>1 DEF Threads
  <2>3. /\ dueN \in Nat /\ dueN + StillDue[t] = due + StillDue'[t]
        /\ StillDue[t] \in Nat /\ StillDue'[t] \in Nat /\ nN = n
    BY <2>1, ThreadMoves
  <2>4. StillDue'[t] <= StillDue[t]
    BY <1>0, <2>1, <2>2, <2>3 DEF StillDue
  <2>5. dueN <= due
    BY <1>0, <2>3, <2>4
  <2> HIDE DEF n, nN, due, dueN
  <2>6. Total(accepted)' = Total(accepted)
    BY <2>1
  <2>7. \A u \in Threads : thr_pc'[u] = "write" => thr_pc[u] = "write" /\ got'[u] = got[u]
    BY <2>1
  <2>8. Total(accepted)' + dueN <= totalmsgsleft'
    BY <1>0, <2>1, <2>3, <2>5, <2>6 DEF CountInv, due
  <2> QED
    BY <2>1, <2>2, <2>3, <2>6, <2>7, <2>8 DEF CountInv, n, nN, dueN
<1>2. CASE send_accepted(t)
  <2>1. /\ UNCHANGED <<num_thrds, totalmsgsleft, perf_msgs_sent_out>>
        /\ thr_pc[t] = "send" /\ thr_pc'[t] = "read" /\ msgsleft'[t] = msgsleft[t]
        /\ \A u \in Threads \ {t} :
             thr_pc'[u] = thr_pc[u] /\ msgsleft'[u] = msgsleft[u] /\ got'[u] = got[u]
    BY <1>0, <1>2 DEF send_accepted
  <2>2. Threads' = Threads
    BY <2>1 DEF Threads
  <2>3. /\ dueN \in Nat /\ dueN + StillDue[t] = due + StillDue'[t]
        /\ StillDue[t] \in Nat /\ StillDue'[t] \in Nat /\ nN = n + 1
    BY <2>1, ThreadMoves
  <2>4. StillDue'[t] = StillDue[t] - 1
    BY <1>0, <2>1, <2>2, <2>3 DEF StillDue
  <2>5. dueN + 1 = due
    BY <1>0, <2>3, <2>4
  <2>6. Total(accepted)' = Total(accepted) + 1
    BY <1>2, AcceptsOne
  <2> HIDE DEF n, nN, due, dueN
  <2>7. Total(accepted)' + dueN <= totalmsgsleft'
    BY <1>0, <2>1, <2>3, <2>5, <2>6 DEF CountInv, due
  <2>8. perf_msgs_sent_out' + nN <= Total(accepted)'
    BY <1>0, <2>1, <2>3, <2>6 DEF CountInv, n
  <2>9. ASSUME NEW u \in Threads, thr_pc'[u] = "write" PROVE got'[u] + nN <= Total(accepted)'
    <3>1. u # t /\ thr_pc[u] = "write" /\ got'[u] = got[u] /\ got[u] \in Nat
      BY <1>0, <2>1, <2>9
    <3>2. got[u] + n <= Total(accepted)
      BY <3>1 DEF CountInv, n
    <3> QED
      BY <1>0, <2>3, <2>6, <3>1, <3>2
  <2> QED
    BY <2>2, <2>7, <2>8, <2>9 DEF CountInv, nN, dueN
<1>3. CASE send_crashes(t)
  BY <1>3 DEF send_crashes, CountInv, StillDue, Threads
<1>4. CASE read_count(t)
  <2>1. /\ UNCHANGED <<num_thrds, totalmsgsleft, perf_msgs_sent_out, accepted>>
        /\ thr_pc[t] = "read" /\ thr_pc'[t] = "write" /\ msgsleft'[t] = msgsleft[t]
        /\ \A u \in Threads \ {t} :
             thr_pc'[u] = thr_pc[u] /\ msgsleft'[u] = msgsleft[u] /\ got'[u] = got[u]
        /\ got'[t] = perf_msgs_sent_out
    BY <1>0, <1>4 DEF read_count
  <2>2. Threads' = Threads
    BY <2>1 DEF Threads
  <2>3. /\ dueN \in Nat /\ dueN + StillDue[t] = due + StillDue'[t]
        /\ StillDue[t] \in Nat /\ StillDue'[t] \in Nat /\ nN = n
    BY <2>1, ThreadMoves
  <2>4. StillDue'[t] = StillDue[t]
    BY <1>0, <2>1, <2>2, <2>3 DEF StillDue
  <2>5. dueN = due
    BY <1>0, <2>3, <2>4
  <2> HIDE DEF n, nN, due, dueN
  <2>6. Total(accepted)' = Total(accepted)
    BY <2>1
  <2>7. Total(accepted)' + dueN <= totalmsgsleft'
    BY <2>1, <2>5, <2>6 DEF CountInv, due
  <2>8. perf_msgs_sent_out' + nN <= Total(accepted)'
    BY <2>1, <2>3, <2>6 DEF CountInv, n
  <2>9. ASSUME NEW u \in Threads, thr_pc'[u] = "write" PROVE got'[u] + nN <= Total(accepted)'
    BY <2>1, <2>3, <2>6, <2>8, <2>9 DEF CountInv, n
  <2> QED
    BY <2>2, <2>7, <2>8, <2>9 DEF CountInv, nN, dueN
<1>5. CASE write_count(t)
  <2>1. /\ UNCHANGED <<num_thrds, totalmsgsleft, accepted>>
        /\ thr_pc[t] = "write" /\ thr_pc'[t] = "advance" /\ msgsleft'[t] = msgsleft[t]
        /\ \A u \in Threads \ {t} :
             thr_pc'[u] = thr_pc[u] /\ msgsleft'[u] = msgsleft[u] /\ got'[u] = got[u]
        /\ perf_msgs_sent_out' = got[t] + 1
    BY <1>0, <1>5 DEF write_count
  <2>2. Threads' = Threads
    BY <2>1 DEF Threads
  <2>3. /\ dueN \in Nat /\ dueN + StillDue[t] = due + StillDue'[t]
        /\ StillDue[t] \in Nat /\ StillDue'[t] \in Nat /\ nN = n - 1
    BY <2>1, ThreadMoves
  <2>4. StillDue'[t] = StillDue[t]
    BY <1>0, <2>1, <2>2, <2>3 DEF StillDue
  <2>5. dueN = due
    BY <1>0, <2>3, <2>4
  <2>6. Total(accepted)' = Total(accepted)
    BY <2>1
  <2> HIDE DEF n, nN, due, dueN
  <2>7. Total(accepted)' + dueN <= totalmsgsleft'
    BY <1>0, <2>1, <2>3, <2>5, <2>6 DEF CountInv, due
  <2>a. got[t] + n <= Total(accepted) /\ got[t] \in Nat
    BY <1>0, <2>1 DEF CountInv, n
  <2>8. perf_msgs_sent_out' + nN <= Total(accepted)'
    BY <1>0, <2>1, <2>3, <2>6, <2>a
  <2>9. ASSUME NEW u \in Threads, thr_pc'[u] = "write" PROVE got'[u] + nN <= Total(accepted)'
    <3>1. u # t /\ thr_pc[u] = "write" /\ got'[u] = got[u] /\ got[u] \in Nat
      BY <1>0, <2>1, <2>9
    <3>2. got[u] + n <= Total(accepted)
      BY <3>1 DEF CountInv, n
    <3> QED
      BY <1>0, <2>3, <2>6, <3>1, <3>2
  <2> QED
    BY <2>2, <2>7, <2>8, <2>9 DEF CountInv, nN, dueN
<1>6. CASE advance(t)
  <2>1. /\ UNCHANGED <<num_thrds, totalmsgsleft, perf_msgs_sent_out, got, accepted>>
        /\ thr_pc[t] = "advance" /\ msgsleft'[t] = msgsleft[t] - 1 /\ thr_pc'[t] \in {"prepare", "while", "done"}
        /\ \A u \in Threads \ {t} :
             thr_pc'[u] = thr_pc[u] /\ msgsleft'[u] = msgsleft[u] /\ got'[u] = got[u]
    BY <1>0, <1>6 DEF advance
  <2>2. Threads' = Threads
    BY <2>1 DEF Threads
  <2>3. /\ dueN \in Nat /\ dueN + StillDue[t] = due + StillDue'[t]
        /\ StillDue[t] \in Nat /\ StillDue'[t] \in Nat /\ nN = n
    BY <2>1, ThreadMoves
  <2>4. StillDue'[t] = StillDue[t]
    BY <1>0, <2>1, <2>2, <2>3 DEF StillDue
  <2>5. dueN = due
    BY <1>0, <2>3, <2>4
  <2> HIDE DEF n, nN, due, dueN
  <2>6. Total(accepted)' = Total(accepted)
    BY <2>1
  <2>7. \A u \in Threads : thr_pc'[u] = "write" => thr_pc[u] = "write" /\ got'[u] = got[u]
    BY <2>1
  <2>8. Total(accepted)' + dueN <= totalmsgsleft'
    BY <1>0, <2>1, <2>3, <2>5, <2>6 DEF CountInv, due
  <2> QED
    BY <2>1, <2>2, <2>3, <2>6, <2>7, <2>8 DEF CountInv, n, nN, dueN
<1> QED
  BY <1>1, <1>2, <1>3, <1>4, <1>5, <1>6 DEF sending_thread_main

LEMMA CountStep == HeapInv /\ PubTypes /\ CountInv /\ [Next]_vars => CountInv'
<1> SUFFICES ASSUME HeapInv, PubTypes, CountInv, [Next]_vars PROVE CountInv'
  OBVIOUS
<1>0. /\ thr_pc \in [Threads -> ThreadSteps] /\ num_thrds \in Nat \ {0} /\ 0 \in Threads
      /\ DOMAIN thr_pc = Threads /\ HeapInv' /\ PubTypes'
  BY HeapStep, PubTypesStep DEF HeapInv, Threads
<1>1. CASE \E t \in Threads : sending_thread_main(t)
  BY <1>0, <1>1, CountThread
<1>2. CASE start_threads
  <2>1. Threads' = Threads /\ UNCHANGED <<totalmsgsleft, perf_msgs_sent_out, accepted, msgsleft>>
    BY <1>2, Spawned DEF Threads
  <2>2. StillDue' = StillDue
    BY <1>2, <2>1, Spawned DEF StillDue
  <2>3. At(thr_pc, Uncounted) = {} /\ At(thr_pc', Uncounted) = {}
    BY <1>2, <2>1, Spawned DEF At, Uncounted
  <2>4. \A t \in Threads : thr_pc'[t] # "write"
    BY <1>2, Spawned
  <2> QED
    BY <2>1, <2>2, <2>3, <2>4 DEF CountInv
<1>3. CASE (pub_main \/ pub_callbacks) /\ ~start_threads
  <2>1. CASE UNCHANGED thr_pc
    BY <1>3, <2>1, OtherSteps DEF CountInv, StillDue, Threads
  <2>2. CASE thr_pc[0] = "done" /\ thr_pc' = [thr_pc EXCEPT ![0] = "while"]
    <3>1. UNCHANGED <<num_thrds, totalmsgsleft, perf_msgs_sent_out, got, accepted, msgsleft>>
      BY <1>3, OtherSteps
    <3>2. At(thr_pc', Uncounted) = At(thr_pc, Uncounted)
      BY <1>0, <2>2 DEF At, Uncounted
    <3>3. Threads' = Threads /\ StillDue' = StillDue
      BY <1>0, <2>2, <3>1 DEF StillDue, Threads
    <3>4. \A t \in Threads : thr_pc'[t] = "write" => thr_pc[t] = "write"
      BY <1>0, <2>2
    <3> QED
      BY <3>1, <3>2, <3>3, <3>4 DEF CountInv
  <2> QED
    BY <1>3, <2>1, <2>2, OtherSteps
<1>4. CASE UNCHANGED pubVars /\ UNCHANGED accepted
  BY <1>4 DEF CountInv, StillDue, Threads, pubVars, setupVars, thrVars
<1>5. CASE UNCHANGED vars
  BY <1>4, <1>5 DEF vars, wireVars
<1> QED
  BY <1>1, <1>2, <1>3, <1>4, <1>5, AcceptedKept DEF Next, PubNext

(* One thread loses no increment, and nothing is sent after the results. *)
ExactInv ==
  num_thrds = 1 =>
    /\ perf_msgs_sent_out + Cardinality(At(thr_pc, Uncounted)) = Total(accepted)
    /\ thr_pc[0] = "write" => got[0] = perf_msgs_sent_out
    /\ pub_pc \in {"linger", "results", "delete", "contexts", "quit", "sigfpe"} =>
         thr_pc[0] = "done"
    /\ pub_pc = "sigfpe" => perf_msgs_sent_out = 0

LEMMA ExactThread ==
  ASSUME HeapInv, PubTypes, ExactInv, HeapInv', PubTypes', num_thrds = 1,
         sending_thread_main(0)
  PROVE  ExactInv'
<1> USE DEF setupVars, thrVars, eventVars, mainVars, wireVars, AtThread, Go, ThreadSteps, Uncounted
<1> DEFINE n == Cardinality(At(thr_pc, Uncounted))
           m == Cardinality(At(thr_pc', Uncounted))
<1>0. /\ 0 \in Threads /\ Threads \ {0} = {} /\ thr_pc \in [Threads -> ThreadSteps]
      /\ got \in [Threads -> Nat] /\ perf_msgs_sent_out \in Nat
      /\ Total(accepted) \in Nat /\ n \in Nat
  BY OneThread, CountTypes DEF HeapInv, PubTypes
<1>1. num_thrds' = num_thrds
  BY DEF sending_thread_main, more_left, prepare, send_accepted, send_fails, send_crashes,
         read_count, write_count, advance
<1>2. /\ m \in Nat
      /\ (thr_pc[0] \in Uncounted <=> thr_pc'[0] \in Uncounted) => m = n
      /\ thr_pc[0] \notin Uncounted /\ thr_pc'[0] \in Uncounted => m = n + 1
      /\ thr_pc[0] \in Uncounted /\ thr_pc'[0] \notin Uncounted => m = n - 1
  BY <1>0, <1>1, ThreadMoves
<1> HIDE DEF n, m
<1>3. CASE more_left(0) \/ prepare(0) \/ send_fails(0) \/ advance(0)
  <2>1. /\ UNCHANGED <<perf_msgs_sent_out, got, accepted, pub_pc>>
        /\ thr_pc[0] \notin {"read", "write", "done"} /\ thr_pc'[0] \notin {"read", "write"}
    BY <1>0, <1>3 DEF more_left, prepare, send_fails, advance
  <2> QED
    BY <1>1, <1>2, <2>1 DEF ExactInv, n, m, Total
<1>4. CASE send_accepted(0)
  <2>1. /\ UNCHANGED <<perf_msgs_sent_out, got, pub_pc>> /\ thr_pc[0] = "send" /\ thr_pc'[0] = "read"
    BY <1>0, <1>4 DEF send_accepted
  <2>2. Total(accepted)' = Total(accepted) + 1
    BY <1>0, <1>4, AcceptsOne
  <2> QED
    BY <1>0, <1>1, <1>2, <2>1, <2>2 DEF ExactInv, n, m
<1>5. CASE send_crashes(0)
  BY <1>5 DEF send_crashes, ExactInv
<1>6. CASE read_count(0)
  <2>1. /\ UNCHANGED <<perf_msgs_sent_out, accepted, pub_pc>> /\ thr_pc[0] = "read" /\ thr_pc'[0] = "write"
        /\ got'[0] = perf_msgs_sent_out
    BY <1>0, <1>6 DEF read_count
  <2> QED
    BY <1>1, <1>2, <2>1 DEF ExactInv, n, m, Total
<1>7. CASE write_count(0)
  <2>1. /\ UNCHANGED <<accepted, pub_pc>> /\ thr_pc[0] = "write" /\ thr_pc'[0] = "advance"
        /\ perf_msgs_sent_out' = got[0] + 1
    BY <1>0, <1>7 DEF write_count
  <2>2. perf_msgs_sent_out + n = Total(accepted) /\ got[0] = perf_msgs_sent_out
        /\ pub_pc \notin {"linger", "results", "delete", "contexts", "quit", "sigfpe"}
    BY <2>1 DEF ExactInv, n
  <2>3. perf_msgs_sent_out' + m = Total(accepted)
    BY <1>0, <1>2, <2>1, <2>2
  <2> QED
    BY <1>1, <2>1, <2>2, <2>3 DEF ExactInv, m, Total
<1> QED
  BY <1>3, <1>4, <1>5, <1>6, <1>7 DEF sending_thread_main

LEMMA ExactStep == HeapInv /\ PubTypes /\ ExactInv /\ [Next]_vars => ExactInv'
<1> SUFFICES ASSUME HeapInv, PubTypes, ExactInv, [Next]_vars PROVE ExactInv'
  OBVIOUS
<1>0. /\ thr_pc \in [Threads -> ThreadSteps] /\ num_thrds \in Nat \ {0} /\ 0 \in Threads
      /\ DOMAIN thr_pc = Threads /\ HeapInv' /\ PubTypes'
  BY HeapStep, PubTypesStep DEF HeapInv, Threads
<1>1. CASE \E t \in Threads : sending_thread_main(t)
  <2>1. CASE num_thrds = 1
    BY <1>0, <1>1, <2>1, ExactThread, OneThread
  <2>2. num_thrds' = num_thrds
    BY <1>1 DEF sending_thread_main, more_left, prepare, send_accepted, send_fails, send_crashes,
                read_count, write_count, advance, setupVars
  <2> QED
    BY <2>1, <2>2 DEF ExactInv
<1>2. CASE start_threads
  <2>1. At(thr_pc, Uncounted) = {} /\ At(thr_pc', Uncounted) = {}
    BY <1>2, Spawned DEF At, Uncounted
  <2>2. num_thrds' = num_thrds /\ UNCHANGED <<perf_msgs_sent_out, accepted>> /\ pub_pc' = "sending"
        /\ thr_pc'[0] = "while"
    BY <1>0, <1>2, Spawned
  <2> QED
    BY <2>1, <2>2 DEF ExactInv
<1>3. CASE next_context
  <2>1. /\ UNCHANGED <<num_thrds, perf_msgs_sent_out, got, accepted>> /\ thr_pc[0] = "done"
        /\ \/ pub_pc' = "sending" /\ thr_pc' = [thr_pc EXCEPT ![0] = "while"]
           \/ pub_pc' = "linger" /\ thr_pc' = thr_pc
    BY <1>3 DEF next_context, setupVars, thrVars, wireVars, Go
  <2>2. At(thr_pc', Uncounted) = At(thr_pc, Uncounted)
    BY <1>0, <2>1 DEF At, Uncounted
  <2>3. thr_pc'[0] \in {"while", "done"} /\ (pub_pc' = "linger" => thr_pc'[0] = "done")
        /\ pub_pc' \in {"sending", "linger"}
    BY <1>0, <2>1
  <2> QED
    BY <2>1, <2>2, <2>3 DEF ExactInv
<1>4. CASE create_sources \/ deregister_fails \/ linger \/ print_final_test_results
           \/ delete_source \/ delete_contexts
  <2>1. UNCHANGED <<num_thrds, perf_msgs_sent_out, got, accepted, thr_pc>>
    BY <1>4 DEF create_sources, deregister_fails, linger, print_final_test_results,
                delete_source, delete_contexts, setupVars, thrVars, wireVars
  <2>2. \/ pub_pc' \notin {"linger", "results", "delete", "contexts", "quit", "sigfpe"}
        \/ /\ pub_pc \in {"linger", "results", "delete", "contexts"}
           /\ pub_pc' = "sigfpe" => perf_msgs_sent_out = 0
    BY <1>4 DEF create_sources, deregister_fails, linger, print_final_test_results,
                delete_source, delete_contexts
  <2> QED
    BY <2>1, <2>2 DEF ExactInv
<1>5. CASE pub_callbacks
  <2>1. UNCHANGED <<num_thrds, perf_msgs_sent_out, got, accepted, thr_pc>>
        /\ pub_pc' \in {pub_pc, "exit", "crash"}
    BY <1>5 DEF pub_callbacks, handle_src_event, stable_again, increment_insecs, print_perf_stats,
                pub_rcv_handle_msg, reply_lost, setupVars, thrVars, mainVars, eventVars, wireVars
  <2> QED
    BY <2>1 DEF ExactInv
<1>6. CASE UNCHANGED pubVars /\ UNCHANGED accepted
  BY <1>6 DEF ExactInv, pubVars, setupVars, thrVars, mainVars
<1>7. CASE UNCHANGED vars
  BY <1>6, <1>7 DEF vars, wireVars
<1> QED
  BY <1>1, <1>2, <1>3, <1>4, <1>5, <1>6, <1>7, AcceptedKept DEF Next, PubNext, pub_main

(* The shares of the threads: the quotient, so never more than -M together. *)
LEMMA Shares ==
  ASSUME NEW total \in Nat, NEW n \in Nat \ {0}
  PROVE  total \div n \in Nat /\ n * (total \div n) <= total
OBVIOUS

LEMMA PubStarts == Init => HeapInv /\ PubTypes /\ CountInv /\ ExactInv
<1> SUFFICES ASSUME NEW setup \in Setups, TransportInit(setup.net), PubInit(setup.pub)
             PROVE HeapInv /\ PubTypes /\ CountInv /\ ExactInv
  BY DEF Init
<1>1. num_thrds \in Nat \ {0} /\ totalmsgsleft \in Nat /\ thr_pc = [t \in Threads |-> "none"]
  BY SetupsAssumption DEF PubInit, PubCommands
<1>2. HeapInv
  <2>1. Sending = {}
    BY <1>1 DEF Sending
  <2> QED
    BY <1>1, <2>1, FS_EmptySet DEF HeapInv, PubInit, ThreadSteps
<1> DEFINE share == totalmsgsleft \div num_thrds
<1>3. share \in Nat /\ num_thrds * share <= totalmsgsleft
  BY <1>1, Shares
<1>4. PubTypes
  <2> HIDE DEF share
  <2>1. msgsleft = [t \in Threads |-> share]
    BY DEF PubInit, share
  <2> QED
    BY <1>1, <1>3, <2>1 DEF PubTypes, PubInit, TransportInit
<1>5. Total(accepted) = 0
  <2>1. Things(accepted, Srcs) = {}
    BY DEF TransportInit, Things
  <2> QED
    BY <2>1, FS_EmptySet DEF Total, SumOver, TransportInit
<1>6. Cardinality(At(thr_pc, Uncounted)) = 0
  BY <1>1, AtNone DEF Uncounted
<1>7. SumOver(StillDue, Threads) <= totalmsgsleft
  <2>1. StillDue = [t \in Threads |-> share]
    <3>1. \A t \in Threads : StillDue[t] = share
      BY <1>1, <1>3 DEF StillDue, PubInit
    <3> QED
      BY <3>1 DEF StillDue
  <2>2. IsFiniteSet(Threads) /\ Cardinality(Threads) = num_thrds
    BY <1>1, FS_Interval DEF Threads
  <2> HIDE DEF share
  <2> QED
    BY <1>3, <2>1, <2>2, SumOfProduct
<1>8. CountInv
  <2>1. perf_msgs_sent_out = 0 /\ \A t \in Threads : thr_pc[t] # "write"
    BY <1>1 DEF PubInit
  <2>2. SumOver(StillDue, Threads) \in Nat
    BY <1>2, <1>4, CountTypes
  <2> QED
    BY <1>1, <1>5, <1>6, <1>7, <2>1, <2>2 DEF CountInv
<1>9. ExactInv
  BY <1>1, <1>5, <1>6, OneThread DEF ExactInv, PubInit
<1> QED
  BY <1>2, <1>4, <1>8, <1>9

LEMMA PublishedBounds == HeapInv /\ PubTypes /\ CountInv /\ ExactInv => PublishedHonest
<1> SUFFICES ASSUME HeapInv, PubTypes, CountInv, ExactInv PROVE PublishedHonest
  OBVIOUS
<1>1. /\ perf_msgs_sent_out \in Nat /\ totalmsgsleft \in Nat /\ Total(accepted) \in Nat
      /\ SumOver(StillDue, Threads) \in Nat /\ Cardinality(At(thr_pc, Uncounted)) \in Nat
  BY CountTypes DEF PubTypes
<1>2. perf_msgs_sent_out <= Total(accepted) /\ Total(accepted) <= totalmsgsleft
  BY <1>1 DEF CountInv
<1>3. ASSUME num_thrds = 1, pub_pc \in {"delete", "contexts", "quit", "sigfpe"}
      PROVE  /\ perf_msgs_sent_out = Total(accepted)
             /\ pub_pc = "sigfpe" => perf_msgs_sent_out = 0
  <2>1. thr_pc[0] = "done" /\ DOMAIN thr_pc = {0}
    BY <1>3, OneThread DEF ExactInv, HeapInv
  <2>2. Cardinality(At(thr_pc, Uncounted)) = 0
    BY <2>1, AtNone DEF Uncounted
  <2> QED
    BY <1>1, <1>3, <2>2 DEF ExactInv
<1> QED
  BY <1>2, <1>3 DEF PublishedHonest

(* What umpub shows at the end is never more than UM accepted, nor that     *)
(* more than -M allows, whatever increments the threads lose; one thread    *)
(* loses none, and only if nothing was accepted does the division fail.     *)
THEOREM PublishedIsHonest == Spec => []PublishedHonest
<1>1. Init => HeapInv /\ PubTypes /\ CountInv /\ ExactInv
  BY PubStarts
<1>2. HeapInv /\ PubTypes /\ CountInv /\ ExactInv /\ [Next]_vars
        => HeapInv' /\ PubTypes' /\ CountInv' /\ ExactInv'
  BY HeapStep, PubTypesStep, CountStep, ExactStep
<1>3. HeapInv /\ PubTypes /\ CountInv /\ ExactInv => PublishedHonest
  BY PublishedBounds
<1> QED
  BY <1>1, <1>2, <1>3, PTL DEF Spec

-----------------------------------------------------------------------------
(* umsub's counts of what it was called for.                                *)

Entered == {"data", "loss", "burst"}
CallerSteps == {"none", "idle", "data", "loss", "burst", "reply", "exited"}

RcvTypes ==
  /\ callers \in Nat \ {0}
  /\ rcv_pc \in [Callers -> CallerSteps] /\ seen \in [Callers -> Nat]
  /\ total_msg_count \in Nat /\ total_unrec_count \in Nat /\ total_burst_loss \in Nat
  /\ behind \in Nat
  /\ accepted \in [Srcs -> Nat] /\ position \in [Srcs -> Nat]
  /\ sub_pc = "create" => \A k \in Callers : rcv_pc[k] = "none"

(* No message is delivered that was not accepted.                           *)
InOrder == \A s \in Srcs : position[s] <= accepted[s]

(* What each counter is, or will be set to by a caller that has read it.    *)
Received == {total_msg_count} \cup {seen[k] : k \in {j \in Callers : rcv_pc[j] = "data"}}
Unrecoverable == {total_unrec_count} \cup {seen[k] : k \in {j \in Callers : rcv_pc[j] = "loss"}}
Bursts == {total_burst_loss} \cup {seen[k] : k \in {j \in Callers : rcv_pc[j] = "burst"}}

(* What umsub was called for and has not counted yet is one call of each    *)
(* caller in rcv_handle_msg: whichever values are written leave room for it.*)
ReceivedInv ==
  \A received \in Received, unrecoverable \in Unrecoverable, bursts \in Bursts :
    received + unrecoverable + bursts + Cardinality(At(rcv_pc, Entered)) <= Called

(* One caller loses no increment. *)
AllCounted ==
  callers = 1 =>
    /\ total_msg_count + total_unrec_count + total_burst_loss
         + Cardinality(At(rcv_pc, Entered)) = Called
    /\ rcv_pc[0] = "data" => seen[0] = total_msg_count
    /\ rcv_pc[0] = "loss" => seen[0] = total_unrec_count
    /\ rcv_pc[0] = "burst" => seen[0] = total_burst_loss

LEMMA RcvNumbers ==
  ASSUME RcvTypes
  PROVE  /\ IsFiniteSet(Callers) /\ IsFiniteSet(Srcs) /\ DOMAIN rcv_pc = Callers
         /\ Total(position) = SumOver(position, Srcs) /\ Total(position) \in Nat
         /\ Cardinality(At(rcv_pc, Entered)) \in Nat
         /\ Received \subseteq Nat /\ Unrecoverable \subseteq Nat /\ Bursts \subseteq Nat
         /\ Called \in Int
<1>1. IsFiniteSet(Callers)
  BY FS_Interval DEF Callers, RcvTypes
<1>2. IsFiniteSet(Srcs)
  BY FS_Interval, TransportAssumption DEF Srcs
<1>3. DOMAIN rcv_pc = Callers /\ DOMAIN position = Srcs
  BY DEF RcvTypes
<1>4. SumOver(position, Srcs) \in Nat
  BY <1>2, ThingsFinite DEF RcvTypes
<1>5. IsFiniteSet(At(rcv_pc, Entered))
  BY <1>1, <1>3, FS_Subset DEF At
<1>6. Received \subseteq Nat /\ Unrecoverable \subseteq Nat /\ Bursts \subseteq Nat
  BY DEF Received, Unrecoverable, Bursts, RcvTypes
<1>7. Total(position) = SumOver(position, Srcs)
  BY <1>3 DEF Total
<1>8. Called \in Int
  BY <1>4, <1>7 DEF Called, RcvTypes
<1> QED
  BY <1>1, <1>2, <1>3, <1>4, <1>5, <1>6, <1>7, <1>8, FS_CardinalityType

(* umpub only adds to what was accepted. *)
LEMMA AcceptedGrows ==
  ASSUME accepted \in [Srcs -> Nat], PubNext
  PROVE  /\ accepted' \in [Srcs -> Nat] /\ UNCHANGED position
         /\ \A s \in Srcs : accepted[s] <= accepted'[s]
<1> USE DEF setupVars, thrVars, eventVars, mainVars, wireVars
<1>1. CASE \E t \in Threads : send_accepted(t)
  <2>1. PICK t \in Threads : send_accepted(t)
    BY <1>1
  <2>2. accepted' = [accepted EXCEPT ![idx[t]] = accepted[idx[t]] + 1] /\ UNCHANGED position
    BY <2>1 DEF send_accepted, Accept
  <2>3. \A s \in Srcs : accepted[s] \in Nat
    OBVIOUS
  <2>4. \A s \in Srcs : accepted'[s] \in Nat /\ accepted[s] <= accepted'[s]
    BY <2>2, <2>3
  <2>5. accepted' = [s \in Srcs |-> accepted'[s]]
    BY <2>2
  <2> QED
    BY <2>2, <2>4, <2>5
<1>2. CASE \E t \in Threads : more_left(t) \/ prepare(t) \/ send_fails(t) \/ send_crashes(t)
                              \/ read_count(t) \/ write_count(t) \/ advance(t)
  <2>1. UNCHANGED <<accepted, position>>
    BY <1>2 DEF more_left, prepare, send_fails, send_crashes, read_count, write_count, advance
  <2> QED
    BY <2>1
<1>3. CASE pub_main \/ pub_callbacks
  <2>1. UNCHANGED <<accepted, position>>
    <3>1. CASE pub_main
      BY <3>1 DEF pub_main, create_sources, start_threads, next_context, deregister_fails,
                  linger, print_final_test_results, delete_source, delete_contexts
    <3>2. CASE pub_callbacks
      BY <3>2 DEF pub_callbacks, handle_src_event, stable_again, increment_insecs, print_perf_stats,
                  pub_rcv_handle_msg, reply_lost
    <3> QED
      BY <1>3, <3>1, <3>2
  <2> QED
    BY <2>1
<1> QED
  BY <1>1, <1>2, <1>3 DEF PubNext, sending_thread_main

(* The steps of umsub: a caller is called for messages of a source, counts  *)
(* the call, or something else happens.                                     *)
Takes(s, n) ==
  /\ position[s] + n <= accepted[s]
  /\ position' = [position EXCEPT ![s] = position[s] + n]
  /\ behind' = behind + n - 1

Enters(k, s) ==
  /\ rcv_pc[k] = "idle"
  /\ \E n \in Nat \ {0} : Takes(s, n)
  /\ \/ /\ rcv_pc' = [rcv_pc EXCEPT ![k] = "data"]
        /\ seen' = [seen EXCEPT ![k] = total_msg_count]
     \/ /\ rcv_pc' = [rcv_pc EXCEPT ![k] = "loss"]
        /\ seen' = [seen EXCEPT ![k] = total_unrec_count]
     \/ /\ rcv_pc' = [rcv_pc EXCEPT ![k] = "burst"]
        /\ seen' = [seen EXCEPT ![k] = total_burst_loss]
  /\ UNCHANGED <<callers, sub_pc, accepted, totalVars>>

Counts(k) ==
  /\ \/ /\ rcv_pc[k] = "data" /\ total_msg_count' = seen[k] + 1
        /\ UNCHANGED <<total_unrec_count, total_burst_loss>>
     \/ /\ rcv_pc[k] = "loss" /\ total_unrec_count' = seen[k] + 1
        /\ UNCHANGED <<total_msg_count, total_burst_loss>>
     \/ /\ rcv_pc[k] = "burst" /\ total_burst_loss' = seen[k] + 1
        /\ UNCHANGED <<total_msg_count, total_unrec_count>>
  /\ \E step \in {"reply", "idle"} : rcv_pc' = [rcv_pc EXCEPT ![k] = step]
  /\ seen' = [seen EXCEPT ![k] = 0]
  /\ UNCHANGED <<callers, sub_pc, accepted, position, behind>>

CountsNothing ==
  /\ UNCHANGED <<callers, accepted, position, seen, totalVars, behind>>
  /\ sub_pc' = "create" => sub_pc = "create" /\ rcv_pc' = rcv_pc
  /\ \/ rcv_pc' = rcv_pc
     \/ sub_pc = "create" /\ rcv_pc' = [k \in Callers |-> "idle"]
     \/ \E k \in Callers :
          /\ rcv_pc[k] \in {"idle", "reply"}
          /\ \E step \in {"idle", "exited"} : rcv_pc' = [rcv_pc EXCEPT ![k] = step]

LEMMA SubStep ==
  ASSUME RcvTypes, SubNext
  PROVE  \/ \E k \in Callers, s \in Srcs : Enters(k, s)
         \/ \E k \in Callers : Counts(k)
         \/ CountsNothing
<1> USE DEF subSetupVars, loopVars, endVars, countVars, totalVars, wireVars, boundVars
<1>1. ASSUME NEW k \in Callers, NEW s \in Srcs, message(k, s) \/ burst(k, s) PROVE Enters(k, s)
  <2>1. CASE message(k, s)
    <3>1. position' = [position EXCEPT ![s] = position[s] + 1] /\ position[s] + 1 <= accepted[s]
      BY <2>1 DEF message, Consume
    <3>2. behind' = behind /\ behind \in Nat
      BY <2>1 DEF message, RcvTypes
    <3>3. Takes(s, 1) /\ 1 \in Nat \ {0}
      BY <3>1, <3>2 DEF Takes
    <3> QED
      BY <2>1, <3>3 DEF message, Calls, Consume, Enters
  <2>2. CASE burst(k, s)
    <3>1. PICK n \in 1 .. accepted[s] - position[s] : Consume(s, n) /\ behind' = behind + n - 1
      BY <2>2 DEF burst
    <3>2. n \in Nat \ {0}
      BY <3>1 DEF RcvTypes
    <3> QED
      BY <2>2, <3>1, <3>2 DEF burst, Calls, Consume, Takes, Enters
  <2> QED
    BY <1>1, <2>1, <2>2
<1>2. ASSUME NEW k \in Callers, count_data(k) \/ count_loss(k) \/ count_burst(k) PROVE Counts(k)
  BY <1>2 DEF count_data, count_loss, count_burst, Counts
<1>3. ASSUME NEW k \in Callers, reply(k) PROVE CountsNothing
  <2>1. sub_pc # "create"
    BY <1>3 DEF RcvTypes, reply
  <2> QED
    BY <1>3, <2>1 DEF reply, CountsNothing
<1>4. ASSUME NEW k \in Callers, NEW s \in Srcs, sub_begins(k, s) \/ end_of_session(k, s)
      PROVE  CountsNothing
  BY <1>4 DEF sub_begins, BeginSession, end_of_session, EndSession, CountsNothing, subVars
<1>5. ASSUME NEW k \in Callers, event_queue_proccess(k) PROVE CountsNothing
  <2>1. sub_pc # "create"
    BY <1>5 DEF RcvTypes, event_queue_proccess
  <2> QED
    BY <1>5, <2>1 DEF event_queue_proccess, CountsNothing
<1>6. CASE create_receivers
  BY <1>6 DEF create_receivers, CountsNothing
<1>7. CASE wake_up \/ get_loss_or_print_stats \/ print_bw \/ test_end \/ sub_linger
           \/ delete_receiver \/ unblock_threads \/ pthread_join
  BY <1>7 DEF wake_up, get_loss_or_print_stats, print_bw, test_end, sub_linger,
              delete_receiver, unblock_threads, pthread_join, CountsNothing
<1>8. CASE touch_flag \/ INThandler \/ handler_exits
  BY <1>8 DEF touch_flag, INThandler, handler_exits, CountsNothing
<1> QED
  BY <1>1, <1>2, <1>3, <1>4, <1>5, <1>6, <1>7, <1>8 DEF SubNext, rcv_handle_msg, sub_main

(* What the others do to what umsub counts. *)
OutsideSub ==
  UNCHANGED <<callers, sub_pc, rcv_pc, seen, totalVars, behind, position>>

LEMMA NextStep ==
  ASSUME RcvTypes, [Next]_vars
  PROVE  \/ \E k \in Callers, s \in Srcs : Enters(k, s)
         \/ \E k \in Callers : Counts(k)
         \/ CountsNothing
         \/ /\ OutsideSub /\ accepted' \in [Srcs -> Nat]
            /\ \A s \in Srcs : accepted[s] <= accepted'[s]
<1> USE DEF OutsideSub, subVars, subSetupVars, loopVars, countVars, totalVars, wireVars
<1>1. CASE PubNext /\ UNCHANGED subVars
  BY <1>1, AcceptedGrows DEF RcvTypes
<1>2. CASE SubNext
  BY <1>2, SubStep
<1>3. CASE (\E s \in Srcs : miss(s)) /\ UNCHANGED <<pubVars, subVars>>
  <2>1. UNCHANGED <<accepted, position>>
    BY <1>3 DEF miss
  <2> QED
    BY <1>3, <2>1 DEF RcvTypes
<1>4. CASE UNCHANGED vars
  BY <1>4 DEF vars, RcvTypes
<1> QED
  BY <1>1, <1>2, <1>3, <1>4 DEF Next

LEMMA RcvTypesStep == RcvTypes /\ InOrder /\ [Next]_vars => RcvTypes' /\ InOrder'
<1> SUFFICES ASSUME RcvTypes, InOrder, [Next]_vars PROVE RcvTypes' /\ InOrder'
  OBVIOUS
<1> USE DEF CallerSteps, totalVars
<1>1. CASE \E k \in Callers, s \in Srcs : Enters(k, s)
  <2>1. PICK k \in Callers, s \in Srcs : Enters(k, s)
    BY <1>1
  <2>2. position' \in [Srcs -> Nat] /\ \A r \in Srcs : position'[r] <= accepted[r]
    <3>1. PICK n \in Nat \ {0} : /\ position[s] + n <= accepted[s]
                                 /\ position' = [position EXCEPT ![s] = position[s] + n]
      BY <2>1 DEF Enters, Takes
    <3>2. position[s] \in Nat
      BY DEF RcvTypes
    <3> QED
      BY <3>1, <3>2 DEF RcvTypes, InOrder
  <2>3. rcv_pc' \in [Callers -> CallerSteps] /\ seen' \in [Callers -> Nat]
    BY <2>1 DEF Enters, RcvTypes
  <2>4. behind' \in Nat
    <3>1. PICK n \in Nat \ {0} : behind' = behind + n - 1
      BY <2>1 DEF Enters, Takes
    <3> QED
      BY <3>1 DEF RcvTypes
  <2> QED
    BY <2>1, <2>2, <2>3, <2>4 DEF Enters, RcvTypes, InOrder, Callers
<1>2. CASE \E k \in Callers : Counts(k)
  <2>1. PICK k \in Callers : Counts(k)
    BY <1>2
  <2>2. rcv_pc' \in [Callers -> CallerSteps] /\ seen' \in [Callers -> Nat]
    BY <2>1 DEF Counts, RcvTypes
  <2>3. total_msg_count' \in Nat /\ total_unrec_count' \in Nat /\ total_burst_loss' \in Nat
    BY <2>1 DEF Counts, RcvTypes
  <2>4. UNCHANGED <<callers, sub_pc, accepted, position, behind>> /\ sub_pc # "create"
    BY <2>1 DEF Counts, RcvTypes
  <2> QED
    BY <2>2, <2>3, <2>4 DEF RcvTypes, InOrder, Callers
<1>3. CASE CountsNothing
  <2>1. rcv_pc' \in [Callers -> CallerSteps]
    BY <1>3 DEF CountsNothing, RcvTypes
  <2> QED
    BY <1>3, <2>1 DEF CountsNothing, RcvTypes, InOrder, Callers
<1>4. CASE OutsideSub /\ accepted' \in [Srcs -> Nat] /\ \A s \in Srcs : accepted[s] <= accepted'[s]
  <2>1. \A s \in Srcs : position'[s] <= accepted'[s]
    <3>1. \A s \in Srcs : position[s] \in Nat /\ accepted[s] \in Nat /\ accepted'[s] \in Nat
      BY <1>4 DEF RcvTypes
    <3> QED
      BY <1>4, <3>1 DEF OutsideSub, InOrder
  <2> QED
    BY <1>4, <2>1 DEF OutsideSub, RcvTypes, InOrder, Callers
<1> QED
  BY <1>1, <1>2, <1>3, <1>4, NextStep

(* A caller comes to its count: the call counts once, however many messages *)
(* it is for.                                                               *)
LEMMA CalledOnce ==
  ASSUME RcvTypes, RcvTypes', NEW k \in Callers, NEW s \in Srcs, Enters(k, s)
  PROVE  Called' = Called + 1
<1>1. /\ position \in [Srcs -> Nat] /\ position' \in [Srcs -> Nat] /\ IsFiniteSet(Srcs)
      /\ Total(position) = SumOver(position, Srcs) /\ Total(position)' = SumOver(position', Srcs)
  BY RcvNumbers DEF RcvTypes, Total
<1>2. PICK n \in Nat \ {0} : /\ position' = [position EXCEPT ![s] = position[s] + n]
                             /\ behind' = behind + n - 1
  BY DEF Enters, Takes
<1>3. position'[s] = position[s] + n /\ \A r \in Srcs \ {s} : position'[r] = position[r]
  BY <1>1, <1>2
<1>4. /\ SumOver(position', Srcs) \in Nat /\ SumOver(position, Srcs) \in Nat
      /\ SumOver(position', Srcs) + position[s] = SumOver(position, Srcs) + position'[s]
  BY <1>1, <1>3, SumChanges
<1>5. position[s] \in Nat /\ behind \in Nat
  BY <1>1 DEF RcvTypes
<1>6. Total(position)' = Total(position) + n
  BY <1>1, <1>3, <1>4, <1>5
<1>7. Total(position) \in Nat
  BY <1>1, <1>4
<1> QED
  BY <1>2, <1>5, <1>6, <1>7 DEF Called

LEMMA ReceivedStep ==
  RcvTypes /\ InOrder /\ ReceivedInv /\ AllCounted /\ [Next]_vars => ReceivedInv' /\ AllCounted'
<1> SUFFICES ASSUME RcvTypes, InOrder, ReceivedInv, AllCounted, [Next]_vars
             PROVE  ReceivedInv' /\ AllCounted'
  OBVIOUS
<1> USE DEF totalVars
<1> DEFINE n == Cardinality(At(rcv_pc, Entered))
           m == Cardinality(At(rcv_pc', Entered))
<1>0. /\ RcvTypes' /\ n \in Nat /\ Called \in Int
      /\ Received \subseteq Nat /\ Unrecoverable \subseteq Nat /\ Bursts \subseteq Nat
      /\ IsFiniteSet(Callers) /\ DOMAIN rcv_pc = Callers
  <2>1. RcvTypes'
    BY RcvTypesStep
  <2> QED
    BY <2>1, RcvNumbers
<1>a. callers' = callers /\ Callers' = Callers /\ DOMAIN rcv_pc' = Callers
  <2>1. callers' = callers
    BY NextStep DEF Enters, Counts, CountsNothing, OutsideSub
  <2> QED
    BY <1>0, <2>1 DEF Callers, RcvTypes
<1>b. callers = 1 => Callers = {0}
  BY DEF Callers
<1>c. ASSUME NEW a \in Received, NEW b \in Unrecoverable, NEW c \in Bursts
      PROVE  a \in Nat /\ b \in Nat /\ c \in Nat /\ a + b + c + n <= Called
  BY <1>0 DEF ReceivedInv
<1>d. callers = 1 =>
        /\ total_msg_count \in Nat /\ total_unrec_count \in Nat /\ total_burst_loss \in Nat
        /\ total_msg_count + total_unrec_count + total_burst_loss + n = Called
        /\ rcv_pc[0] = "data" => seen[0] = total_msg_count
        /\ rcv_pc[0] = "loss" => seen[0] = total_unrec_count
        /\ rcv_pc[0] = "burst" => seen[0] = total_burst_loss
  BY DEF AllCounted, RcvTypes
<1>1. CASE \E k \in Callers, s \in Srcs : Enters(k, s)
  <2>1. PICK k \in Callers, s \in Srcs : Enters(k, s)
    BY <1>1
  <2>2. /\ \A j \in Callers \ {k} : rcv_pc'[j] = rcv_pc[j] /\ seen'[j] = seen[j]
        /\ rcv_pc[k] = "idle"
        /\ \/ rcv_pc'[k] = "data" /\ seen'[k] = total_msg_count
           \/ rcv_pc'[k] = "loss" /\ seen'[k] = total_unrec_count
           \/ rcv_pc'[k] = "burst" /\ seen'[k] = total_burst_loss
        /\ UNCHANGED totalVars
    BY <2>1 DEF Enters, RcvTypes
  <2>3. m \in Nat /\ m = n + 1
    <3>1. rcv_pc[k] \notin Entered /\ rcv_pc'[k] \in Entered
      BY <2>2 DEF Entered
    <3> QED
      BY <1>0, <1>a, <2>2, <3>1, AtChanges
  <2>4. Called' = Called + 1
    BY <1>0, <2>1, CalledOnce
  <2>5. Received' \subseteq Received /\ Unrecoverable' \subseteq Unrecoverable
        /\ Bursts' \subseteq Bursts
    BY <1>a, <2>2 DEF Received, Unrecoverable, Bursts
  <2>6. ReceivedInv'
    <3>1. ASSUME NEW a \in Received, NEW b \in Unrecoverable, NEW c \in Bursts
          PROVE  a + b + c + m <= Called'
      <4>1. a \in Nat /\ b \in Nat /\ c \in Nat /\ a + b + c + n <= Called
        BY <1>c
      <4> HIDE DEF n, m
      <4> QED
        BY <1>0, <2>3, <2>4, <4>1
    <3> QED
      BY <2>5, <3>1 DEF ReceivedInv
  <2>7. AllCounted'
    <3> SUFFICES ASSUME callers = 1 PROVE AllCounted'
      BY <1>a DEF AllCounted
    <3>1. k = 0
      BY <1>b
    <3> HIDE DEF n, m
    <3>2. total_msg_count' + total_unrec_count' + total_burst_loss' + m = Called'
      BY <1>0, <1>d, <2>2, <2>3, <2>4
    <3> QED
      BY <2>2, <3>1, <3>2 DEF AllCounted, m
  <2> QED
    BY <2>6, <2>7
<1>2. CASE \E k \in Callers : Counts(k)
  <2>1. PICK k \in Callers : Counts(k)
    BY <1>2
  <2>2. /\ \A j \in Callers \ {k} : rcv_pc'[j] = rcv_pc[j] /\ seen'[j] = seen[j]
        /\ rcv_pc'[k] \in {"reply", "idle"} /\ seen[k] \in Nat
        /\ Called' = Called
    BY <2>1 DEF Counts, RcvTypes, Called
  <2>3. m \in Nat /\ m = n - 1
    <3>1. rcv_pc[k] \in Entered /\ rcv_pc'[k] \notin Entered
      BY <2>1, <2>2 DEF Counts, Entered
    <3> QED
      BY <1>0, <1>a, <2>2, <3>1, AtChanges
  <2>4. ASSUME callers = 1
        PROVE  total_msg_count' + total_unrec_count' + total_burst_loss' + m = Called'
    <3>1. k = 0
      BY <1>b, <2>4
    <3> HIDE DEF n, m
    <3> QED
      BY <1>0, <1>d, <2>1, <2>2, <2>3, <2>4, <3>1 DEF Counts
  <2>5. AllCounted'
    <3> SUFFICES ASSUME callers = 1 PROVE AllCounted'
      BY <1>a DEF AllCounted
    <3>1. rcv_pc'[0] \notin Entered
      BY <1>b, <2>2 DEF Entered
    <3> QED
      BY <2>4, <3>1 DEF AllCounted, Entered
  <2>6. /\ \/ seen[k] \in Received /\ Received' \subseteq Received \cup {seen[k] + 1}
              /\ Unrecoverable' \subseteq Unrecoverable /\ Bursts' \subseteq Bursts
           \/ seen[k] \in Unrecoverable /\ Unrecoverable' \subseteq Unrecoverable \cup {seen[k] + 1}
              /\ Received' \subseteq Received /\ Bursts' \subseteq Bursts
           \/ seen[k] \in Bursts /\ Bursts' \subseteq Bursts \cup {seen[k] + 1}
              /\ Received' \subseteq Received /\ Unrecoverable' \subseteq Unrecoverable
    <3>1. CASE rcv_pc[k] = "data" /\ total_msg_count' = seen[k] + 1
               /\ UNCHANGED <<total_unrec_count, total_burst_loss>>
      BY <1>a, <2>2, <3>1 DEF Received, Unrecoverable, Bursts
    <3>2. CASE rcv_pc[k] = "loss" /\ total_unrec_count' = seen[k] + 1
               /\ UNCHANGED <<total_msg_count, total_burst_loss>>
      BY <1>a, <2>2, <3>2 DEF Received, Unrecoverable, Bursts
    <3>3. CASE rcv_pc[k] = "burst" /\ total_burst_loss' = seen[k] + 1
               /\ UNCHANGED <<total_msg_count, total_unrec_count>>
      BY <1>a, <2>2, <3>3 DEF Received, Unrecoverable, Bursts
    <3> QED
      BY <2>1, <3>1, <3>2, <3>3 DEF Counts
  <2>7. ASSUME NEW a \in Received', NEW b \in Unrecoverable', NEW c \in Bursts'
        PROVE  a + b + c + m <= Called'
    <3>1. PICK x \in Received, y \in Unrecoverable, z \in Bursts :
            \/ a \in {x, x + 1} /\ b = y /\ c = z
            \/ a = x /\ b \in {y, y + 1} /\ c = z
            \/ a = x /\ b = y /\ c \in {z, z + 1}
      BY <2>6
    <3>2. x \in Nat /\ y \in Nat /\ z \in Nat /\ x + y + z + n <= Called
      BY <1>c
    <3> HIDE DEF n, m
    <3> QED
      BY <1>0, <2>2, <2>3, <3>1, <3>2
  <2>8. ReceivedInv'
    BY <2>7 DEF ReceivedInv
  <2> QED
    BY <2>5, <2>8
<1>3. CASE CountsNothing \/ OutsideSub
  <2>1. /\ UNCHANGED <<position, behind, seen, totalVars>>
        /\ \A j \in Callers :
             /\ rcv_pc'[j] = "data" <=> rcv_pc[j] = "data"
             /\ rcv_pc'[j] = "loss" <=> rcv_pc[j] = "loss"
             /\ rcv_pc'[j] = "burst" <=> rcv_pc[j] = "burst"
    BY <1>3 DEF CountsNothing, OutsideSub, RcvTypes
  <2>2. Received' = Received /\ Unrecoverable' = Unrecoverable /\ Bursts' = Bursts
    BY <1>a, <2>1 DEF Received, Unrecoverable, Bursts
  <2>3. At(rcv_pc', Entered) = At(rcv_pc, Entered)
    BY <1>0, <1>a, <2>1 DEF At, Entered
  <2>4. Called' = Called
    BY <2>1 DEF Called
  <2>5. ReceivedInv'
    BY <2>2, <2>3, <2>4 DEF ReceivedInv
  <2>6. AllCounted'
    BY <1>a, <1>b, <2>1, <2>3, <2>4 DEF AllCounted
  <2> QED
    BY <2>5, <2>6
<1> QED
  BY <1>1, <1>2, <1>3, NextStep

LEMMA SubStarts == Init => RcvTypes /\ InOrder /\ ReceivedInv /\ AllCounted
<1> SUFFICES ASSUME NEW setup \in Setups, TransportInit(setup.net), SubInit(setup.sub)
             PROVE  RcvTypes /\ InOrder /\ ReceivedInv /\ AllCounted
  BY DEF Init
<1>1. callers \in Nat \ {0} /\ rcv_pc = [k \in Callers |-> "none"]
  BY SetupsAssumption DEF SubInit, SubCommands
<1>2. RcvTypes
  BY <1>1 DEF SubInit, TransportInit, RcvTypes, CallerSteps
<1>3. InOrder
  BY DEF TransportInit, InOrder
<1>4. Cardinality(At(rcv_pc, Entered)) = 0
  BY <1>1, AtNone DEF Entered
<1>5. Received = {0} /\ Unrecoverable = {0} /\ Bursts = {0}
  BY <1>1 DEF Received, Unrecoverable, Bursts, SubInit
<1>6. Called = 0
  <2>1. Things(position, Srcs) = {}
    BY DEF TransportInit, Things
  <2>2. Total(position) = 0
    BY <2>1, FS_EmptySet DEF Total, SumOver, TransportInit
  <2> QED
    BY <2>2 DEF Called, SubInit
<1>7. ReceivedInv
  BY <1>4, <1>5, <1>6 DEF ReceivedInv
<1>8. AllCounted
  <2>1. callers = 1 => Callers = {0}
    BY DEF Callers
  <2> QED
    BY <1>1, <1>4, <1>6, <2>1 DEF AllCounted, SubInit
<1> QED
  BY <1>2, <1>3, <1>7, <1>8

LEMMA ReceivedBounds == RcvTypes /\ InOrder /\ ReceivedInv /\ AllCounted => ReceivedNeverOver
<1> SUFFICES ASSUME RcvTypes, InOrder, ReceivedInv, AllCounted PROVE ReceivedNeverOver
  OBVIOUS
<1>1. /\ total_msg_count \in Nat /\ total_unrec_count \in Nat /\ total_burst_loss \in Nat
      /\ Cardinality(At(rcv_pc, Entered)) \in Nat /\ Called \in Int
  BY RcvNumbers DEF RcvTypes
<1>2. total_msg_count + total_unrec_count + total_burst_loss <= Called
  <2>1. /\ total_msg_count \in Received /\ total_unrec_count \in Unrecoverable
        /\ total_burst_loss \in Bursts
    BY DEF Received, Unrecoverable, Bursts
  <2> QED
    BY <1>1, <2>1 DEF ReceivedInv
<1>3. Total(position) <= Total(accepted)
  <2>1. /\ IsFiniteSet(Srcs) /\ DOMAIN position = Srcs /\ DOMAIN accepted = Srcs
        /\ \A s \in Srcs : position[s] \in Nat /\ accepted[s] \in Nat /\ position[s] <= accepted[s]
    BY RcvNumbers DEF RcvTypes, InOrder
  <2> QED
    BY <2>1, SumIsMonotone DEF Total
<1>4. ASSUME callers = 1, rcv_pc[0] \notin {"data", "loss", "burst"}
      PROVE  total_msg_count + total_unrec_count + total_burst_loss = Called
  <2>1. DOMAIN rcv_pc = {0}
    BY <1>4 DEF RcvTypes, Callers
  <2>2. Cardinality(At(rcv_pc, Entered)) = 0
    BY <1>4, <2>1, AtNone DEF Entered
  <2> QED
    BY <1>1, <1>4, <2>2 DEF AllCounted
<1> QED
  BY <1>2, <1>3, <1>4 DEF ReceivedNeverOver

(* umsub never counts more messages, losses and bursts of losses than it    *)
(* was called for, whichever increments its threads lose, nor is it called  *)
(* for more than UM accepted; with one caller it counts every call, a burst *)
(* of any length being one.                                                 *)
THEOREM ReceivedIsHonest == Spec => []ReceivedNeverOver
<1>1. Init => RcvTypes /\ InOrder /\ ReceivedInv /\ AllCounted
  BY SubStarts
<1>2. RcvTypes /\ InOrder /\ ReceivedInv /\ AllCounted /\ [Next]_vars
        => RcvTypes' /\ InOrder' /\ ReceivedInv' /\ AllCounted'
  BY RcvTypesStep, ReceivedStep
<1>3. RcvTypes /\ InOrder /\ ReceivedInv /\ AllCounted => ReceivedNeverOver
  BY ReceivedBounds
<1> QED
  BY <1>1, <1>2, <1>3, PTL DEF Spec

-----------------------------------------------------------------------------
(* The losses umsub shows.                                                  *)

LossTypes ==
  /\ callers \in Nat \ {0}
  /\ missed \in [Srcs -> Nat] /\ missedEver \in Nat
  /\ ctx \in Nat /\ lost \in Nat /\ last_lost \in Nat /\ shown_lost \in Nat

(* The sources of the contexts the loop of main() has been at.              *)
Visited == IF sub_pc = "stats" THEN {s \in Srcs : CtxOf(s) < ctx} ELSE Srcs

(* Between two rounds, what was shown and what the sum has grown by since   *)
(* the last one is no more than was missed.  While main() adds up, sessions *)
(* go and packets are missed in the contexts it has seen and in those it    *)
(* has not: shown is what the sum may still become, and the next one too.   *)
LossInv ==
  LET seenMissed == SumOver(missed, Visited)
      ahead == SumOver(missed, Srcs \ Visited)
  IN  /\ shown_lost <= missedEver
      /\ sub_pc \in {"stats", "print"} =>
           /\ shown_lost + lost + ahead <= missedEver + last_lost
           /\ shown_lost + seenMissed <= missedEver + lost
      /\ shown_lost + seenMissed + ahead <= missedEver + last_lost

LEMMA LossNumbers ==
  ASSUME LossTypes
  PROVE  /\ IsFiniteSet(Srcs) /\ Visited \subseteq Srcs
         /\ \A S \in SUBSET Srcs : IsFiniteSet(S) /\ SumOver(missed, S) \in Nat
<1>1. IsFiniteSet(Srcs)
  BY FS_Interval, TransportAssumption DEF Srcs
<1>2. ASSUME NEW S \in SUBSET Srcs PROVE IsFiniteSet(S) /\ SumOver(missed, S) \in Nat
  <2>1. IsFiniteSet(S)
    BY <1>1, FS_Subset
  <2> QED
    BY <2>1, ThingsFinite DEF LossTypes
<1> QED
  BY <1>1, <1>2 DEF Visited

LEMMA ContextOf ==
  ASSUME LossTypes, NEW s \in Srcs
  PROVE  NumCtxs \in Nat \ {0} /\ CtxOf(s) \in 0 .. NumCtxs - 1
<1>1. NumCtxs \in Nat \ {0}
  BY DEF NumCtxs, LossTypes
<1>2. s \in Nat
  BY DEF Srcs
<1>3. ASSUME NEW a \in Nat, NEW n \in Nat \ {0} PROVE a % n \in 0 .. n - 1
  OBVIOUS
<1> QED
  BY <1>1, <1>2, <1>3 DEF CtxOf

(* The steps that touch a sum: a packet is missed, a session goes, or main()*)
(* is at its sum.                                                           *)
Misses(s) ==
  /\ missed' = [missed EXCEPT ![s] = missed[s] + 1] /\ missedEver' = missedEver + 1
  /\ UNCHANGED <<callers, sub_opts, sub_pc, ctx, lost, last_lost, shown_lost>>

Goes(s) ==
  /\ missed' = [missed EXCEPT ![s] = 0] /\ missedEver' = missedEver
  /\ UNCHANGED <<callers, sub_opts, sub_pc, ctx, lost, last_lost, shown_lost>>

AddsNothing ==
  /\ UNCHANGED <<callers, sub_opts, missed, missedEver, lost, last_lost, shown_lost>>
  /\ ctx' \in {ctx, ctx + 1, 0}
  /\ \/ sub_pc' = sub_pc /\ ctx' = ctx
     \/ sub_pc' \notin {"stats", "print"}

LEMMA LossSteps ==
  ASSUME [Next]_vars
  PROVE  \/ \E s \in Srcs : Misses(s) \/ Goes(s)
         \/ wake_up \/ get_loss_or_print_stats \/ print_bw
         \/ AddsNothing
<1> USE DEF subSetupVars, loopVars, wireVars, boundVars, subVars, AddsNothing
<1>1. CASE PubNext /\ UNCHANGED subVars
  <2>1. UNCHANGED <<missed, missedEver>>
    <3>1. CASE \E t \in Threads : sending_thread_main(t)
      BY <3>1 DEF sending_thread_main, more_left, prepare, send_accepted, send_fails,
                  send_crashes, read_count, write_count, advance
    <3>2. CASE pub_main
      BY <3>2 DEF pub_main, create_sources, start_threads, next_context, deregister_fails,
                  linger, print_final_test_results, delete_source, delete_contexts
    <3>3. CASE pub_callbacks
      BY <3>3 DEF pub_callbacks, handle_src_event, stable_again, increment_insecs, print_perf_stats,
                  pub_rcv_handle_msg, reply_lost
    <3> QED
      BY <1>1, <3>1, <3>2, <3>3 DEF PubNext
  <2> QED
    BY <1>1, <2>1
<1>2. ASSUME NEW k \in Callers, NEW s \in Srcs, end_of_session(k, s) PROVE Goes(s)
  BY <1>2 DEF end_of_session, EndSession, Goes
<1>3. ASSUME NEW k \in Callers, NEW s \in Srcs, sub_begins(k, s) \/ message(k, s) \/ burst(k, s)
      PROVE  AddsNothing
  BY <1>3 DEF sub_begins, BeginSession, message, burst, Consume
<1>4. ASSUME NEW k \in Callers,
             \/ count_data(k) \/ count_loss(k) \/ count_burst(k) \/ reply(k)
             \/ event_queue_proccess(k)
      PROVE  AddsNothing
  BY <1>4 DEF count_data, count_loss, count_burst, reply, event_queue_proccess
<1>5. CASE create_receivers \/ test_end \/ sub_linger \/ delete_receiver \/ unblock_threads
           \/ pthread_join
  BY <1>5 DEF create_receivers, test_end, sub_linger, delete_receiver, unblock_threads,
              pthread_join
<1>6. CASE touch_flag \/ INThandler \/ handler_exits
  BY <1>6 DEF touch_flag, INThandler, handler_exits
<1>7. CASE (\E s \in Srcs : miss(s)) /\ UNCHANGED <<pubVars, subVars>>
  BY <1>7 DEF miss, Misses
<1>8. CASE UNCHANGED vars
  BY <1>8 DEF vars
<1> QED
  BY <1>1, <1>2, <1>3, <1>4, <1>5, <1>6, <1>7, <1>8 DEF Next, SubNext, rcv_handle_msg, sub_main

LEMMA LossTypesStep == LossTypes /\ [Next]_vars => LossTypes'
<1> SUFFICES ASSUME LossTypes, [Next]_vars PROVE LossTypes'
  OBVIOUS
<1>1. CASE \E s \in Srcs : Misses(s) \/ Goes(s)
  BY <1>1 DEF Misses, Goes, LossTypes
<1>2. CASE wake_up
  BY <1>2 DEF wake_up, LossTypes, subSetupVars, wireVars
<1>3. CASE get_loss_or_print_stats
  <2>1. MissedIn(ctx) \in Nat
    BY LossNumbers DEF MissedIn
  <2>2. lost' = lost + MissedIn(ctx) /\ ctx' \in {ctx + 1, 0}
    BY <1>3 DEF get_loss_or_print_stats
  <2> QED
    BY <1>3, <2>1, <2>2 DEF get_loss_or_print_stats, LossTypes, subSetupVars, wireVars
<1>4. CASE print_bw
  BY <1>4 DEF print_bw, LossTypes, subSetupVars, wireVars
<1>5. CASE AddsNothing
  BY <1>5 DEF AddsNothing, LossTypes
<1> QED
  BY <1>1, <1>2, <1>3, <1>4, <1>5, LossSteps

(* One source changes: it is among the visited or among the others. *)
LEMMA OneSourceChanges ==
  ASSUME LossTypes, LossTypes', NEW s \in Srcs, \A r \in Srcs \ {s} : missed'[r] = missed[r]
  PROVE  /\ SumOver(missed', Visited) \in Nat /\ SumOver(missed', Srcs \ Visited) \in Nat
         /\ \/ /\ s \in Visited
               /\ SumOver(missed', Visited) + missed[s] = SumOver(missed, Visited) + missed'[s]
               /\ SumOver(missed', Srcs \ Visited) = SumOver(missed, Srcs \ Visited)
            \/ /\ s \in Srcs \ Visited
               /\ SumOver(missed', Srcs \ Visited) + missed[s]
                    = SumOver(missed, Srcs \ Visited) + missed'[s]
               /\ SumOver(missed', Visited) = SumOver(missed, Visited)
<1>1. /\ Visited \subseteq Srcs /\ IsFiniteSet(Visited) /\ IsFiniteSet(Srcs \ Visited)
      /\ \A r \in Srcs : missed[r] \in Nat /\ missed'[r] \in Nat
  BY LossNumbers DEF LossTypes
<1>2. SumOver(missed', Visited) \in Nat /\ SumOver(missed', Srcs \ Visited) \in Nat
  BY <1>1, ThingsFinite
<1>3. CASE s \in Visited
  <2>1. SumOver(missed', Srcs \ Visited) = SumOver(missed, Srcs \ Visited)
    BY <1>3, SumIsPointwise
  <2>2. SumOver(missed', Visited) + missed[s] = SumOver(missed, Visited) + missed'[s]
    BY <1>1, <1>3, SumChanges
  <2> QED
    BY <1>3, <1>2, <2>1, <2>2
<1>4. CASE s \in Srcs \ Visited
  <2>1. SumOver(missed', Visited) = SumOver(missed, Visited)
    BY <1>1, <1>4, SumIsPointwise
  <2>2. SumOver(missed', Srcs \ Visited) + missed[s]
          = SumOver(missed, Srcs \ Visited) + missed'[s]
    BY <1>1, <1>4, SumChanges
  <2> QED
    BY <1>4, <1>2, <2>1, <2>2
<1> QED
  BY <1>1, <1>3, <1>4

LEMMA LossStep == LossTypes /\ LossInv /\ [Next]_vars => LossInv'
<1> SUFFICES ASSUME LossTypes, LossInv, [Next]_vars PROVE LossInv'
  OBVIOUS
<1> DEFINE passed == SumOver(missed, Visited)
           ahead == SumOver(missed, Srcs \ Visited)
           passedN == SumOver(missed', Visited')
           aheadN == SumOver(missed', Srcs \ Visited')
<1>0. /\ LossTypes' /\ Visited \subseteq Srcs /\ passed \in Nat /\ ahead \in Nat
      /\ shown_lost \in Nat /\ missedEver \in Nat /\ lost \in Nat /\ last_lost \in Nat
  BY LossTypesStep, LossNumbers DEF LossTypes
<1>a. passed + ahead = SumOver(missed, Srcs)
  <2>1. Srcs = Visited \cup (Srcs \ Visited) /\ Visited \cap (Srcs \ Visited) = {}
    BY <1>0
  <2>2. IsFiniteSet(Visited) /\ IsFiniteSet(Srcs \ Visited)
    BY LossNumbers
  <2>3. SumOver(missed, Visited \cup (Srcs \ Visited)) = passed + ahead
    BY <1>0, <2>1, <2>2, SumOfParts DEF LossTypes
  <2> QED
    BY <2>1, <2>3
<1>b. /\ shown_lost <= missedEver
      /\ sub_pc \in {"stats", "print"} =>
           /\ shown_lost + lost + ahead <= missedEver + last_lost
           /\ shown_lost + passed <= missedEver + lost
      /\ shown_lost + passed + ahead <= missedEver + last_lost
  BY DEF LossInv
<1>c. /\ Visited' = Srcs => aheadN = 0 /\ passedN = SumOver(missed', Srcs)
      /\ Visited' = {} => passedN = 0 /\ aheadN = SumOver(missed', Srcs)
  BY SumOfNone
<1>1. CASE \E s \in Srcs : Misses(s)
  <2>1. PICK s \in Srcs : Misses(s)
    BY <1>1
  <2>2. Visited' = Visited
    BY <2>1 DEF Misses, Visited, CtxOf, NumCtxs, EventQ
  <2>3. /\ missed[s] \in Nat /\ missed'[s] = missed[s] + 1
        /\ \A r \in Srcs \ {s} : missed'[r] = missed[r]
    BY <2>1 DEF Misses, LossTypes
  <2>4. \/ passedN + missed[s] = passed + missed'[s] /\ aheadN = ahead
        \/ aheadN + missed[s] = ahead + missed'[s] /\ passedN = passed
    BY <1>0, <2>2, <2>3, OneSourceChanges
  <2>5. passedN \in Nat /\ aheadN \in Nat
    BY <1>0, <2>2, <2>3, OneSourceChanges
  <2>6. UNCHANGED <<sub_pc, lost, last_lost, shown_lost>> /\ missedEver' = missedEver + 1
    BY <2>1 DEF Misses
  <2> HIDE DEF passed, ahead, passedN, aheadN
  <2>7. \/ passedN = passed + 1 /\ aheadN = ahead
        \/ aheadN = ahead + 1 /\ passedN = passed
    BY <1>0, <2>3, <2>4, <2>5
  <2> QED
    BY <1>0, <1>b, <2>6, <2>7 DEF LossInv, passedN, aheadN
<1>2. CASE \E s \in Srcs : Goes(s)
  <2>1. PICK s \in Srcs : Goes(s)
    BY <1>2
  <2>2. Visited' = Visited
    BY <2>1 DEF Goes, Visited, CtxOf, NumCtxs, EventQ
  <2>3. /\ missed[s] \in Nat /\ missed'[s] = 0
        /\ \A r \in Srcs \ {s} : missed'[r] = missed[r]
    BY <2>1 DEF Goes, LossTypes
  <2>4. \/ passedN + missed[s] = passed + missed'[s] /\ aheadN = ahead
        \/ aheadN + missed[s] = ahead + missed'[s] /\ passedN = passed
    BY <1>0, <2>2, <2>3, OneSourceChanges
  <2>5. passedN \in Nat /\ aheadN \in Nat
    BY <1>0, <2>2, <2>3, OneSourceChanges
  <2>6. UNCHANGED <<sub_pc, lost, last_lost, shown_lost, missedEver>>
    BY <2>1 DEF Goes
  <2> HIDE DEF passed, ahead, passedN, aheadN
  <2>7. passedN <= passed /\ aheadN <= ahead
    BY <1>0, <2>3, <2>4, <2>5
  <2> QED
    BY <1>0, <1>b, <2>5, <2>6, <2>7 DEF LossInv, passedN, aheadN
<1>3. CASE wake_up
  <2>1. /\ sub_pc' = "stats" /\ ctx' = 0 /\ lost' = 0
        /\ UNCHANGED <<callers, sub_opts, last_lost, shown_lost, missed, missedEver>>
    BY <1>3 DEF wake_up, subSetupVars, wireVars
  <2>2. Visited' = {}
    <3>1. \A s \in Srcs : CtxOf(s)' = CtxOf(s) /\ CtxOf(s) \in Nat
      BY <2>1, ContextOf DEF CtxOf, NumCtxs, EventQ
    <3> QED
      BY <2>1, <3>1 DEF Visited
  <2>3. passedN = 0 /\ aheadN = passed + ahead
    BY <1>a, <1>c, <2>1, <2>2
  <2> HIDE DEF passed, ahead, passedN, aheadN
  <2> QED
    BY <1>0, <1>b, <2>1, <2>3 DEF LossInv, passedN, aheadN
<1>4. CASE get_loss_or_print_stats
  <2> DEFINE here == {s \in Srcs : CtxOf(s) = ctx}
  <2>1. /\ sub_pc = "stats" /\ lost' = lost + SumOver(missed, here)
        /\ \/ ctx + 1 < NumCtxs /\ ctx' = ctx + 1 /\ sub_pc' = "stats"
           \/ ~(ctx + 1 < NumCtxs) /\ ctx' = 0 /\ sub_pc' = "print"
        /\ UNCHANGED <<callers, sub_opts, last_lost, shown_lost, missed, missedEver>>
    BY <1>4 DEF get_loss_or_print_stats, subSetupVars, wireVars, MissedIn
  <2>2. /\ \A s \in Srcs : CtxOf(s)' = CtxOf(s) /\ CtxOf(s) \in Nat /\ CtxOf(s) < NumCtxs
        /\ ctx \in Nat /\ NumCtxs \in Nat
    <3>1. \A s \in Srcs : CtxOf(s) \in Nat /\ CtxOf(s) < NumCtxs
      BY ContextOf
    <3> QED
      BY <2>1, <3>1 DEF CtxOf, NumCtxs, EventQ, LossTypes
  <2>3. Visited' = Visited \cup here /\ Visited \cap here = {}
    <3>1. CASE sub_pc' = "stats"
      BY <2>1, <2>2, <3>1 DEF Visited
    <3>2. CASE sub_pc' = "print"
      BY <2>1, <2>2, <3>2 DEF Visited
    <3> QED
      BY <2>1, <3>1, <3>2
  <2> HIDE DEF here
  <2>4. /\ here \subseteq Srcs /\ SumOver(missed, here) \in Nat /\ IsFiniteSet(here)
        /\ IsFiniteSet(Visited) /\ IsFiniteSet(Srcs \ Visited')
    BY <1>0, LossNumbers DEF here
  <2>5. passedN = passed + SumOver(missed, here)
    BY <1>0, <2>1, <2>3, <2>4, SumOfParts DEF LossTypes
  <2>6. SumOver(missed, here) + aheadN = ahead /\ aheadN \in Nat
    <3>1. Srcs \ Visited = here \cup (Srcs \ Visited') /\ here \cap (Srcs \ Visited') = {}
      BY <2>3, <2>4
    <3>2. SumOver(missed, Srcs \ Visited) = SumOver(missed, here) + SumOver(missed, Srcs \ Visited')
      BY <1>0, <2>4, <3>1, SumOfParts DEF LossTypes
    <3>3. SumOver(missed, Srcs \ Visited') \in Nat
      BY LossNumbers
    <3> QED
      BY <2>1, <3>2, <3>3
  <2> HIDE DEF passed, ahead, passedN, aheadN
  <2>7. /\ shown_lost + lost + ahead <= missedEver + last_lost
        /\ shown_lost + passed <= missedEver + lost
    BY <1>b, <2>1
  <2>8. /\ shown_lost' + lost' + aheadN <= missedEver' + last_lost'
        /\ shown_lost' + passedN <= missedEver' + lost'
        /\ shown_lost' + passedN + aheadN <= missedEver' + last_lost'
    BY <1>0, <1>b, <2>1, <2>4, <2>5, <2>6, <2>7
  <2> QED
    BY <1>b, <2>1, <2>8 DEF LossInv, passedN, aheadN
<1>5. CASE print_bw
  <2>1. /\ sub_pc = "print" /\ sub_pc' = "test" /\ last_lost' = lost
        /\ shown_lost' = shown_lost + (IF last_lost <= lost THEN lost - last_lost ELSE 0)
        /\ UNCHANGED <<missed, missedEver>>
    BY <1>5 DEF print_bw, wireVars
  <2>2. Visited = Srcs /\ Visited' = Srcs
    BY <2>1 DEF Visited
  <2>3. passedN = passed /\ aheadN = 0 /\ ahead = 0
    BY <2>1, <2>2, SumOfNone
  <2> HIDE DEF passed, ahead, passedN, aheadN
  <2>4. /\ shown_lost + lost + ahead <= missedEver + last_lost
        /\ shown_lost + passed <= missedEver + lost
    BY <1>b, <2>1
  <2>5. /\ shown_lost' <= missedEver'
        /\ shown_lost' + passedN + aheadN <= missedEver' + last_lost'
    BY <1>0, <1>b, <2>1, <2>3, <2>4
  <2> QED
    BY <2>1, <2>5 DEF LossInv, passedN, aheadN
<1>6. CASE AddsNothing
  <2>1. UNCHANGED <<missed, missedEver, lost, last_lost, shown_lost>>
    BY <1>6 DEF AddsNothing
  <2>2. CASE sub_pc' = sub_pc /\ ctx' = ctx
    <3>1. Visited' = Visited
      BY <1>6, <2>2 DEF AddsNothing, Visited, CtxOf, NumCtxs, EventQ
    <3> QED
      BY <1>b, <2>1, <2>2, <3>1 DEF LossInv
  <2>3. CASE sub_pc' \notin {"stats", "print"}
    <3>1. Visited' = Srcs
      BY <2>3 DEF Visited
    <3>2. passedN = passed + ahead /\ aheadN = 0
      BY <1>a, <1>c, <2>1, <3>1
    <3> HIDE DEF passed, ahead, passedN, aheadN
    <3> QED
      BY <1>0, <1>b, <2>1, <2>3, <3>2 DEF LossInv, passedN, aheadN
  <2> QED
    BY <1>6, <2>2, <2>3 DEF AddsNothing
<1> QED
  BY <1>1, <1>2, <1>3, <1>4, <1>5, <1>6, LossSteps

(* The losses shown second by second never add up to more than was missed,  *)
(* whatever is missed and whichever sessions go while main() adds up.       *)
THEOREM LossIsHonest == Spec => []LossNeverOver
<1>1. Init => LossTypes /\ LossInv
  <2> SUFFICES ASSUME NEW setup \in Setups, TransportInit(setup.net), SubInit(setup.sub)
               PROVE  LossTypes /\ LossInv
    BY DEF Init
  <2>1. LossTypes
    BY SetupsAssumption DEF TransportInit, SubInit, SubCommands, LossTypes
  <2>2. Visited = Srcs
    BY DEF SubInit, Visited
  <2>3. Things(missed, Srcs) = {} /\ Things(missed, {}) = {}
    BY DEF TransportInit, Things
  <2>4. SumOver(missed, Visited) = 0 /\ SumOver(missed, Srcs \ Visited) = 0
    BY <2>2, <2>3, FS_EmptySet DEF SumOver
  <2> QED
    BY <2>1, <2>4 DEF LossInv, SubInit, TransportInit
<1>2. LossTypes /\ LossInv /\ [Next]_vars => LossTypes' /\ LossInv'
  BY LossTypesStep, LossStep
<1>3. LossInv => LossNeverOver
  BY DEF LossInv, LossNeverOver
<1> QED
  BY <1>1, <1>2, <1>3, PTL DEF Spec
=============================================================================
