------------------------------ MODULE RpcTimer ------------------------------
(***************************************************************************)
(* HTTPEvent as a timer and as a trigger (src/httpserver.{h,cpp}):         *)
(* HTTPRPCTimer (src/httprpc.cpp) owns an event that fires once after a    *)
(* time and is deleted by whoever called NewTimer; WriteReply makes events *)
(* that run at once and delete themselves.                                 *)
(*                                                                         *)
(* No code calls NewTimer yet.  What its user does is assumed here, and is *)
(* said nowhere in the code: it makes and deletes timers on the loop's     *)
(* thread, in handlers and in the functions of other timers, each timer at *)
(* most once, and none in its own function.                                *)
(***************************************************************************)
EXTENDS Naturals, SequencesExt

CONSTANTS
  Events,      \* HTTPEvent objects that are ever made
  NoEvent,
  MaxMillis,   \* bound on the time of a timer
  MaxTime      \* bound on the clock

ASSUME TimerAssumption ==
  /\ NoEvent \notin Events
  /\ MaxMillis \in Nat /\ MaxTime \in Nat

VARIABLES
  memory,     \* each event is "unborn", "live" or "freed"
  deleteWhenTriggered,
  owned,      \* events that the user of NewTimer has a pointer to
  due,        \* when an event may run
  armed,      \* events in libevent's heap of timeouts
  active,     \* activated events, in the order the loop runs them
  running,    \* the event whose callback runs, or NoEvent
  fired,      \* calls of each event's handler
  now

vars == <<memory, deleteWhenTriggered, owned, due, armed, active, running, fired, now>>

Init ==
  /\ memory = [e \in Events |-> "unborn"]
  /\ deleteWhenTriggered = [e \in Events |-> FALSE]
  /\ owned = {}
  /\ due = [e \in Events |-> 0]
  /\ armed = {}
  /\ active = <<>>
  /\ running = NoEvent
  /\ fired = [e \in Events |-> 0]
  /\ now = 0
-----------------------------------------------------------------------------
Queued == {active[i] : i \in DOMAIN active}

\* The HTTPEvent constructor.  Where event_new fails, assert(ev) ends the
\* process.
Construct(e, delete) ==
  /\ memory[e] = "unborn"
  /\ memory' = [memory EXCEPT ![e] = "live"]
  /\ deleteWhenTriggered' = [deleteWhenTriggered EXCEPT ![e] = delete]

\* Mutant of TriggerAfter: the event runs at once, too.
TriggerTwice(e, millis) ==
  /\ due' = [due EXCEPT ![e] = now + millis]
  /\ armed' = armed \cup {e}
  /\ active' = Append(active, e)

\* Mutants of TriggerAfter: the time is ignored; the timeout is not added.
TriggerSoon(e, millis) ==
  /\ due' = [due EXCEPT ![e] = now + millis]
  /\ active' = Append(active, e)
  /\ UNCHANGED armed

TriggerNever(e, millis) ==
  /\ due' = [due EXCEPT ![e] = now + millis]
  /\ UNCHANGED <<armed, active>>

\* trigger(tv)
TriggerAfter(e, millis) ==
  /\ due' = [due EXCEPT ![e] = now + millis]
  /\ armed' = armed \cup {e}
  /\ UNCHANGED active

\* trigger(nullptr)
TriggerNow(e) ==
  /\ active' = Append(active, e)
  /\ due' = [due EXCEPT ![e] = now]
  /\ UNCHANGED armed

\* NewTimer: HTTPRPCTimer's constructor.  A negative time is over at once, as
\* 0 is.
NewTimer(e) ==
  /\ Construct(e, FALSE)
  /\ \E millis \in 0..MaxMillis : now + millis <= MaxTime /\ TriggerAfter(e, millis)
  /\ owned' = owned \cup {e}
  /\ UNCHANGED <<running, fired, now>>

\* WriteReply: new HTTPEvent(eventBase, true, ...), trigger(nullptr).
NewReplyEvent(e) ==
  /\ Construct(e, TRUE)
  /\ TriggerNow(e)
  /\ UNCHANGED <<owned, running, fired, now>>

\* Mutant of Destruct: event_free is forgotten.
DestructAlone(e) ==
  /\ memory' = [memory EXCEPT ![e] = "freed"]
  /\ UNCHANGED <<armed, active>>

\* ~HTTPEvent: event_free takes the event out of the loop's lists; an event
\* is in the active one at most once.
Destruct(e) ==
  /\ memory' = [memory EXCEPT ![e] = "freed"]
  /\ armed' = armed \ {e}
  /\ \/ /\ e \notin Queued
        /\ UNCHANGED active
     \/ \E i \in DOMAIN active :
          /\ active[i] = e
          /\ active' = RemoveAt(active, i)

\* delete of a timer, pending, active or run, by its owner.  That the owner
\* is not its own function is the assumption above.
Delete(e) ==
  /\ e \in owned
  /\ running # e
  /\ owned' = owned \ {e}
  /\ Destruct(e)
  /\ UNCHANGED <<deleteWhenTriggered, due, running, fired, now>>

\* The loop's clock, and its heap: an expired event leaves it.
Tick ==
  /\ now < MaxTime
  /\ now' = now + 1
  /\ UNCHANGED <<memory, deleteWhenTriggered, owned, due, armed, active, running, fired>>

Expire(e) ==
  /\ e \in armed
  /\ due[e] <= now
  /\ armed' = armed \ {e}
  /\ active' = Append(active, e)
  /\ UNCHANGED <<memory, deleteWhenTriggered, owned, due, running, fired, now>>

\* httpevent_callback_fn calls self->handler, ...
Call ==
  /\ running = NoEvent
  /\ active # <<>>
  /\ running' = Head(active)
  /\ active' = Tail(active)
  /\ fired' = [fired EXCEPT ![Head(active)] = @ + 1]
  /\ UNCHANGED <<memory, deleteWhenTriggered, owned, due, armed, now>>

\* Mutant of Return: the event is never deleted.
ReturnOnly ==
  /\ running # NoEvent
  /\ running' = NoEvent
  /\ UNCHANGED <<memory, deleteWhenTriggered, owned, due, armed, active, fired, now>>

\* ... and behind it looks at self->deleteWhenTriggered.
Return ==
  /\ running # NoEvent
  /\ running' = NoEvent
  /\ \/ /\ deleteWhenTriggered[running]
        /\ Destruct(running)
     \/ /\ ~ deleteWhenTriggered[running]
        /\ UNCHANGED <<memory, armed, active>>
  /\ UNCHANGED <<deleteWhenTriggered, owned, due, fired, now>>

Next ==
  \/ \E e \in Events : NewTimer(e) \/ NewReplyEvent(e) \/ Delete(e) \/ Expire(e)
  \/ Tick \/ Call \/ Return

Spec == Init /\ [][Next]_vars

\* Time passes, and the loop works; nobody need make or delete a timer.
Fairness ==
  /\ WF_vars(Tick) /\ WF_vars(Call) /\ WF_vars(Return)
  /\ \A e \in Events : WF_vars(Expire(e))

FairSpec == Spec /\ Fairness
-----------------------------------------------------------------------------
InLoop(e) == e \in armed \cup Queued \cup {running}

TypeOK ==
  /\ memory \in [Events -> {"unborn", "live", "freed"}]
  /\ deleteWhenTriggered \in [Events -> BOOLEAN]
  /\ owned \subseteq Events
  /\ due \in [Events -> 0..MaxTime]
  /\ armed \subseteq Events
  /\ active \in Seq(Events)
  /\ running \in Events \cup {NoEvent}
  /\ fired \in [Events -> 0..1]
  /\ now \in 0..MaxTime

\* The loop has no event in its lists or in a callback that was freed, and
\* nobody can free one twice: "delete cleans up the whole state"
\* (RPCTimerBase in rpc/server.h), be it pending, active or done, but not
\* within its own function.
NothingFreedIsUsed ==
  \A e \in Events :
    /\ InLoop(e) => memory[e] = "live"
    /\ e \in owned => memory[e] = "live"

\* No event leaks: each has one who will delete it, its owner or, once it
\* has run, the callback, never both.
OneDeletes ==
  \A e \in Events :
    memory[e] = "live" => (e \in owned) # (deleteWhenTriggered[e] /\ InLoop(e))

\* A timer calls its function at most once ("one-shot callback timer",
\* HTTPRPCTimer), and not before its time.
OnceAndInTime ==
  \A e \in Events :
    /\ fired[e] <= 1
    /\ fired[e] = 1 => e \notin armed \cup Queued /\ due[e] <= now

\* A timer that is not deleted calls its function, and an event that deletes
\* itself goes away.
TimersFire ==
  \A e \in Events :
    /\ e \in owned ~> fired[e] = 1 \/ e \notin owned
    /\ deleteWhenTriggered[e] ~> memory[e] = "freed"
=============================================================================
