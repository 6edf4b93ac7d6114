-------------------------- MODULE VidModelSelector --------------------------
(***************************************************************************)
(* selector/vid_model_selector.cc and VidModelSelector.kt: threads that    *)
(* call GetModelRelease of one selector.  The percentages of a day are     *)
(* computed once, under mtx_ (synchronized(this) in Kotlin), and kept in   *)
(* an LruCache; the thread copies them, gives the lock back and picks the  *)
(* release for its event from the copy.  The libraries differ only in how  *)
(* they read the time of an event and the window of the model line.        *)
(*                                                                         *)
(* A thread is at one of these places:                                     *)
(*   idle     no call under way                                            *)
(*   check    in GetModelRelease, before the test of the active window     *)
(*   wait     in ReadFromCache, before lock_guard has the mutex            *)
(*   get      holds the mutex, about to look the day up                    *)
(*   compute  holds the mutex after a miss, about to compute               *)
(*   add      holds the mutex, about to add what it computed               *)
(*   unlock   leaves ReadFromCache with the percentages it copied          *)
(*   select   back in GetModelRelease with its copy                        *)
(*   return   the reply is there                                           *)
(***************************************************************************)
EXTENDS RolloutSchedule, LruCache

CONSTANTS
  Threads,        \* threads that share the selector
  NoThread,       \* nobody holds mtx_
  Inputs,         \* the LabelerInputs they ask about
  NoInput,        \* the thread has no call under way
  NoReply,        \* the call has no reply yet
  RolloutLists,   \* the lists of rollouts Build may be given
  Lines,          \* the model lines, each with the library that serves it
  NoEnd,          \* active_end_time is not set
  TicksPerSecond  \* timestamps per second

ASSUME SelectorAssumption ==
  /\ Inputs \subseteq LabelerInput
  /\ \A list \in RolloutLists :
       list \in Seq(Rollout) /\ \A i \in DOMAIN list : WellFormed(list[i])
  /\ NoThread \notin Threads
  /\ NoInput \notin Inputs
  /\ NoReply \notin Releases \cup {NoRelease, InvalidArgument}
  /\ NoEnd \notin Nat
  /\ \A line \in Lines :
       /\ line.library \in {"cc", "kt"}
       /\ line.start \in Nat /\ line.end \in Nat \cup {NoEnd}
  /\ TicksPerSecond \in Nat \ {0}
  /\ TicksPerDay % TicksPerSecond = 0

VARIABLES
  model_line,     \* model_line_: its name and its active window
  status,         \* of the selector: "unbuilt", "built" or "rejected"
  rollouts,       \* model_rollouts_, as RetrieveActiveRollouts sorts them
  mutex,          \* mtx_: the thread that holds it, or NoThread
  pc,             \* where each thread is
  input,          \* the labeler_input of its call
  percentages,    \* its model_adoption_percentages
  reply,          \* what its call returns
  recency         \* history: the days ever used, the latest use first

selectorVars ==
  <<model_line, status, rollouts, mutex, pc, input, percentages, reply, recency>>
vars == <<selectorVars, lruVars>>

None == [i \in {} |-> {}]      \* an empty vector of percentages

\* Kotlin reads the event time in whole seconds, and an end that is not set as
\* the epoch.
WholeSecond(time) == (time \div TicksPerSecond) * TicksPerSecond
EventTime(time) ==
  IF model_line.library = "kt" THEN WholeSecond(time) ELSE time
ActiveEnd ==
  IF model_line.library = "kt" /\ model_line.end = NoEnd THEN 0
  ELSE model_line.end

Day(t) == CivilDay(EventTime(input[t].time))

\* Fault: the end of the window belongs to the window.
InClosedWindow(time) ==
  /\ EventTime(time) >= model_line.start
  /\ ActiveEnd # NoEnd => EventTime(time) <= ActiveEnd

InWindow(time) ==
  /\ EventTime(time) >= model_line.start
  /\ ActiveEnd # NoEnd => EventTime(time) < ActiveEnd

Move(t, from, to) ==
  /\ pc[t] = from
  /\ pc' = [pc EXCEPT ![t] = to]

Used(day) ==
  recency' = IF Listed(recency, day) THEN MoveToFront(recency, day)
             ELSE <<day>> \o recency
-----------------------------------------------------------------------------
Init ==
  /\ model_line \in Lines
  /\ status = "unbuilt"
  /\ rollouts = <<>>
  /\ mutex = NoThread
  /\ pc = [t \in Threads |-> "idle"]
  /\ input = [t \in Threads |-> NoInput]
  /\ percentages = [t \in Threads |-> None]
  /\ reply = [t \in Threads |-> NoReply]
  /\ recency = <<>>
  /\ LruInit

\* A caller whose list is rejected may come back with another one.
Build(list) ==
  /\ status # "built"
  /\ \/ /\ Accepts(model_line, list)
        /\ status' = "built"
        /\ rollouts' \in SortedRollouts(list)
     \/ /\ ~ Accepts(model_line, list)
        /\ status' = "rejected"
        /\ UNCHANGED rollouts
  /\ UNCHANGED <<model_line, mutex, pc, input, percentages, reply, recency,
                 lruVars>>

GetModelRelease(t, in) ==
  /\ status = "built"
  /\ Move(t, "idle", "check")
  /\ input' = [input EXCEPT ![t] = in]
  /\ UNCHANGED <<model_line, status, rollouts, mutex, percentages, reply,
                 recency, lruVars>>

InsideWindow(t) ==
  /\ Move(t, "check", "wait")
  /\ InWindow(input[t].time)
  /\ UNCHANGED <<model_line, status, rollouts, mutex, input, percentages, reply,
                 recency, lruVars>>

\* Outside the active window of the model line nothing is looked up.
OutsideWindow(t) ==
  /\ Move(t, "check", "return")
  /\ ~ InWindow(input[t].time)
  /\ reply' = [reply EXCEPT ![t] = NoRelease]
  /\ UNCHANGED <<model_line, status, rollouts, mutex, input, percentages,
                 recency, lruVars>>

\* Fault: the cache is read without the mutex.
EnterUnlocked(t) ==
  /\ Move(t, "wait", "get")
  /\ mutex' = t
  /\ UNCHANGED <<model_line, status, rollouts, input, percentages, reply,
                 recency, lruVars>>

Lock(t) ==
  /\ Move(t, "wait", "get")
  /\ mutex = NoThread
  /\ mutex' = t
  /\ UNCHANGED <<model_line, status, rollouts, input, percentages, reply,
                 recency, lruVars>>

CacheHit(t) ==
  /\ Move(t, "get", "unlock")
  /\ Get(Day(t))
  /\ percentages' = [percentages EXCEPT ![t] = cache_data[Day(t)]]
  /\ Used(Day(t))
  /\ UNCHANGED <<model_line, status, rollouts, mutex, input, reply>>

CacheMiss(t) ==
  /\ Move(t, "get", "compute")
  /\ ~ Held(Day(t))
  /\ UNCHANGED <<model_line, status, rollouts, mutex, input, percentages, reply,
                 recency, lruVars>>

\* Fault: the share is computed for the timestamp, not for its date.
ComputeForTime(t) ==
  /\ Move(t, "compute", "add")
  /\ percentages' =
       [percentages EXCEPT ![t] = CalculatePercentages(rollouts, input[t].time)]
  /\ UNCHANGED <<model_line, status, rollouts, mutex, input, reply, recency,
                 lruVars>>

Compute(t) ==
  /\ Move(t, "compute", "add")
  /\ percentages' =
       [percentages EXCEPT ![t] = CalculatePercentages(rollouts, Day(t))]
  /\ UNCHANGED <<model_line, status, rollouts, mutex, input, reply, recency,
                 lruVars>>

CacheAdd(t) ==
  /\ Move(t, "add", "unlock")
  /\ Add(Day(t), percentages[t])
  /\ Used(Day(t))
  /\ UNCHANGED <<model_line, status, rollouts, mutex, input, percentages,
                 reply>>

\* Fault: the mutex is not given back.
LeaveLocked(t) ==
  /\ Move(t, "unlock", "select")
  /\ UNCHANGED <<model_line, status, rollouts, mutex, input, percentages, reply,
                 recency, lruVars>>

Unlock(t) ==
  /\ Move(t, "unlock", "select")
  /\ mutex' = NoThread
  /\ UNCHANGED <<model_line, status, rollouts, input, percentages, reply,
                 recency, lruVars>>

Select(t) ==
  /\ Move(t, "select", "return")
  /\ reply' = [reply EXCEPT ![t] =
                 SelectRelease(model_line.library, percentages[t], input[t])]
  /\ UNCHANGED <<model_line, status, rollouts, mutex, input, percentages,
                 recency, lruVars>>

Return(t) ==
  /\ Move(t, "return", "idle")
  /\ input' = [input EXCEPT ![t] = NoInput]
  /\ percentages' = [percentages EXCEPT ![t] = None]
  /\ reply' = [reply EXCEPT ![t] = NoReply]
  /\ UNCHANGED <<model_line, status, rollouts, mutex, recency, lruVars>>

\* What a thread does once it is in a call.
Step(t) ==
  \/ InsideWindow(t) \/ OutsideWindow(t) \/ Lock(t)
  \/ CacheHit(t) \/ CacheMiss(t) \/ Compute(t) \/ CacheAdd(t)
  \/ Unlock(t) \/ Select(t) \/ Return(t)

Next ==
  \/ \E list \in RolloutLists : Build(list)
  \/ \E t \in Threads, in \in Inputs : GetModelRelease(t, in)
  \/ \E t \in Threads : Step(t)

Spec == Init /\ [][Next]_vars

\* A thread in a call runs on.  Nothing says when the next call comes, and
\* std::mutex promises no waiter its turn while others keep taking it.
FairSpec == Spec /\ \A t \in Threads : WF_vars(Step(t))
-----------------------------------------------------------------------------
Locked == {"get", "compute", "add", "unlock"}
Percentile == [share : Int \X Int, release : Releases]
IsPercentages(p) ==
  DOMAIN p \subseteq DOMAIN rollouts /\ \A i \in DOMAIN p : p[i] \in Percentile

\* The types of the variables (lists of days hold civil days, the cache maps
\* days to vectors of percentiles).
TypeOK ==
  /\ model_line \in Lines
  /\ status \in {"unbuilt", "built", "rejected"}
  /\ rollouts \in Seq(Rollout)
  /\ mutex \in Threads \cup {NoThread}
  /\ pc \in [Threads -> Locked \cup {"idle", "check", "wait", "select",
                                   "return"}]
  /\ input \in [Threads -> Inputs \cup {NoInput}]
  /\ DOMAIN percentages = Threads
  /\ \A t \in Threads : IsPercentages(percentages[t])
  /\ reply \in [Threads -> Releases \cup {NoReply, NoRelease, InvalidArgument}]
  /\ recency \in Seq(Nat) /\ access_order \in Seq(Nat)
  /\ DOMAIN cache_data \subseteq Nat
  /\ \A day \in DOMAIN cache_data : IsPercentages(cache_data[day])

\* vid_model_selector.h:66 - "Access to the cache is synchronized to prevent
\* multiple threads calculating percentages in case of cache miss": no two
\* threads are between the lock and the unlock, and a thread that computes a
\* day does so because the day is still not in the cache.
ComputedOnce ==
  /\ \A t, u \in Threads : pc[t] \in Locked /\ pc[u] \in Locked => t = u
  /\ \A t \in Threads : pc[t] \in {"compute", "add"} => ~ Held(Day(t))

\* What the cache holds for a day, and what a thread copied out of it, is what
\* CalculatePercentages yields for that day: no eviction, hit or other thread
\* ever leaves a thread with the percentages of another day.
CacheCoherent ==
  /\ \A day \in DOMAIN cache_data :
       cache_data[day] = CalculatePercentages(rollouts, day)
  /\ \A t \in Threads : pc[t] \in {"add", "unlock", "select"} =>
       percentages[t] = CalculatePercentages(rollouts, Day(t))

\* The two halves of LruCache agree and evict in LRU order: the list and the
\* map hold the same days, and these are the CacheSize days used last, in the
\* order of their last use.
LruExact ==
  /\ {access_order[p] : p \in DOMAIN access_order} = DOMAIN cache_data
  /\ Len(access_order) = IF Len(recency) < CacheSize
                         THEN Len(recency) ELSE CacheSize
  /\ \A p \in DOMAIN access_order : access_order[p] = recency[p]

\* A call returns once the other threads stop calling: no thread leaves the
\* selector in a state in which a later call hangs.
CallReturns ==
  \A t \in Threads :
    <>[](\A u \in Threads \ {t} : pc[u] = "idle") =>
      (pc[t] # "idle" ~> pc[t] = "idle")

\* The stateless service that the selector implements.
Service ==
  INSTANCE ModelReleaseService WITH call <- input, NoCall <- NoInput

\* What a Kotlin selector needs of its line to tell events apart as the
\* service does.
OnWholeSeconds ==
  \A line \in Lines :
    line.library = "kt" =>
      /\ line.end # NoEnd
      /\ line.start % TicksPerSecond = 0 /\ line.end % TicksPerSecond = 0

\* Every reply is the one a selector without a cache would give.
Stateless == Service!Spec
=============================================================================
