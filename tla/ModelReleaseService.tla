------------------------ MODULE ModelReleaseService ------------------------
(***************************************************************************)
(* What VidModelSelector promises to the threads that share it: the reply  *)
(* to a call is a function of the rollouts the selector was built with and *)
(* of the event of that call.  There is no cache here, no lock, and nothing*)
(* that one call could leave behind for another.                           *)
(***************************************************************************)
EXTENDS RolloutSchedule

CONSTANTS
  Threads,        \* the callers
  Inputs,         \* the events they ask about
  RolloutLists,   \* the lists of rollouts Build may be given
  Lines,          \* the model lines
  NoEnd,          \* active_end_time is not set
  NoCall,         \* the thread has no call under way
  NoReply         \* the call has no reply yet

VARIABLES
  model_line,     \* its name, its active window and its library
  status,         \* of the selector: "unbuilt", "built" or "rejected"
  rollouts,       \* the rollouts it serves, by start date
  call,           \* per thread, the event it asked about
  reply           \* per thread, the reply it is about to receive

serviceVars == <<model_line, status, rollouts, call, reply>>

InWindow(time) ==
  time >= model_line.start /\ (model_line.end # NoEnd => time < model_line.end)

ModelReleaseOf(list, input) ==
  IF InWindow(input.time)
  THEN SelectRelease(model_line.library,
                     CalculatePercentages(list, CivilDay(input.time)), input)
  ELSE NoRelease

Init ==
  /\ model_line \in Lines
  /\ status = "unbuilt"
  /\ rollouts = <<>>
  /\ call = [t \in Threads |-> NoCall]
  /\ reply = [t \in Threads |-> NoReply]

\* The rollouts must be those of the line of the selector.
Build(list) ==
  /\ status # "built"
  /\ \/ /\ Accepts(model_line, list)
        /\ status' = "built"
        /\ rollouts' \in SortedRollouts(list)
     \/ /\ ~ Accepts(model_line, list)
        /\ status' = "rejected"
        /\ UNCHANGED rollouts
  /\ UNCHANGED <<model_line, call, reply>>

Call(t, input) ==
  /\ status = "built"
  /\ call[t] = NoCall
  /\ call' = [call EXCEPT ![t] = input]
  /\ UNCHANGED <<model_line, status, rollouts, reply>>

Answer(t) ==
  /\ call[t] # NoCall
  /\ reply[t] = NoReply
  /\ reply' = [reply EXCEPT ![t] = ModelReleaseOf(rollouts, call[t])]
  /\ UNCHANGED <<model_line, status, rollouts, call>>

Return(t) ==
  /\ reply[t] # NoReply
  /\ call' = [call EXCEPT ![t] = NoCall]
  /\ reply' = [reply EXCEPT ![t] = NoReply]
  /\ UNCHANGED <<model_line, status, rollouts>>

Next ==
  \/ \E list \in RolloutLists : Build(list)
  \/ \E t \in Threads : \/ \E input \in Inputs : Call(t, input)
                        \/ Answer(t)
                        \/ Return(t)

Spec == Init /\ [][Next]_serviceVars
=============================================================================
