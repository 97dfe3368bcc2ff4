----------------------------- MODULE ServerQueue -----------------------------
(***************************************************************************)
(* tools/server/server-queue.cpp between the HTTP threads and the server    *)
(* context: a request wakes the server if it sleeps, registers its tasks with  *)
(* server_response, posts them to server_queue and polls for their results; *)
(* the loop thread takes tasks, launches them in slots or defers them,      *)
(* advances the slots and goes to sleep when nothing happens.               *)
(*                                                                          *)
(* Every notify of condition_tasks is made under mutex_tasks, so that the   *)
(* test of a wait and its sleep are one step.  The other waits have timeouts *)
(* and need no notification.                                                *)
(***************************************************************************)
EXTENDS Integers, Sequences, FiniteSets, SequencesExt, FiniteSetsExt

CONSTANTS
    NSlots,      \* n_parallel
    Jobs,        \* Jobs[i]: the task with id i: its request (req), the slot it asks for (slot,
                 \* 0 for any), the slot it saves or restores (acts, 0 for a completion)
    MaxRounds,   \* bound: calls of update_slots that a completion may outlive
    MaxSpoils,   \* bound: clients that go away, and tasks that fail
    MaxSleeps    \* bound: times the server goes to sleep

Ids      == 1..Len(Jobs)
Requests == {Jobs[i].req : i \in Ids}
Slots    == 1..NSlots

ASSUME JobsAssumption ==
    /\ Jobs \in Seq([req : Requests, slot : 0..NSlots, acts : 0..NSlots])
    /\ "loop" \notin Requests
ASSUME BoundAssumption ==
    NSlots \in Nat \ {0} /\ MaxRounds \in Nat /\ MaxSpoils \in Nat /\ MaxSleeps \in Nat

VARIABLES
    queue,       \* queue_tasks: [type, id]
    deferred,    \* queue_tasks_deferred: ids
    sleeping, reqStop,
    waiting,     \* waiting_task_ids
    results,     \* queue_results: [id, error]
    pc,          \* where each request and the loop are
    hand,        \* the task the loop has taken
    slot,        \* slot[s]: the id of its task, 0 if idle, and the rounds it outlived
    visit,       \* the slots update_slots has still to look at
    leaving,     \* the slot whose result was sent and that is released next, or 0
    received,    \* received_count of each request
    spoils, sleeps

queues == <<queue, deferred>>
naps   == <<sleeping, reqStop, sleeps>>
slotVars == <<hand, slot, visit, leaving>>
answers  == <<waiting, results>>
vars == <<queues, naps, answers, pc, slotVars, received, spoils>>

\* remove_if and erase: seq without the elements that are in S
Kept(seq, S) ==
    LET kept[n \in 0..Len(seq)] == IF n = 0 THEN <<>>
                                   ELSE IF seq[n] \in S THEN kept[n - 1]
                                   ELSE Append(kept[n - 1], seq[n])
    IN  kept[Len(seq)]

Mine   == [r \in Requests |-> Kept([i \in Ids |-> i], {i \in Ids : Jobs[i].req # r})]
Own(r) == Range(Mine[r])
Idle   == [id |-> 0, rounds |-> 0]
NoTask == [type |-> "none", id |-> 0]
Task(t, i) == [type |-> t, id |-> i]

Init ==
    /\ queue = <<>> /\ deferred = <<>>
    /\ sleeping = FALSE /\ reqStop = FALSE /\ sleeps = 0
    /\ waiting = {} /\ results = {}
    /\ pc = [x \in Requests \cup {"loop"} |-> IF x = "loop" THEN "take" ELSE "start"]
    /\ hand = NoTask /\ slot = [s \in Slots |-> Idle] /\ visit = {} /\ leaving = 0
    /\ received = [r \in Requests |-> 0] /\ spoils = 0

Dozing == {x \in DOMAIN pc : pc[x] = "dozing"}

\* pc with x at place l and the dozing ones of who roused
Moved(x, l, who) == [y \in DOMAIN pc |-> IF y = x THEN l
                                         ELSE IF y \in who /\ pc[y] = "dozing" THEN "roused" ELSE pc[y]]
Goto(x, l) == pc' = Moved(x, l, {})

\* notify_one rouses whichever of the waiting threads the system picks
NotifyOne(x, l) == \/ Dozing \ {x} = {} /\ Goto(x, l)
                   \/ \E y \in Dozing \ {x} : pc' = Moved(x, l, {y})

-----------------------------------------------------------------------------
(***************************************************************************)
(* A request: server_res_generator and server_response_reader.              *)
(***************************************************************************)
AskQuietly(r) == reqStop' = TRUE /\ Goto(r, "dozing")                 \* variant
Ask(r) == reqStop' = TRUE /\ NotifyOne(r, "dozing")
\* wait_until_no_sleep; only the first to come asks
WakeServer(r) ==
    /\ pc[r] = "start"
    /\ \/ ~sleeping /\ Goto(r, "register") /\ UNCHANGED reqStop
       \/ sleeping /\ reqStop /\ Goto(r, "dozing") /\ UNCHANGED reqStop
       \/ sleeping /\ ~reqStop /\ Ask(r)
    /\ UNCHANGED <<queues, sleeping, sleeps, answers, slotVars, received, spoils>>

Roused(r) ==
    /\ pc[r] = "roused"
    /\ Goto(r, IF sleeping THEN "dozing" ELSE "register")
    /\ UNCHANGED <<queues, naps, answers, slotVars, received, spoils>>

NoneRegistered(r) == {}                                               \* variant
\* post_tasks: the ids wait for results before the tasks are posted
Registered(r) == Own(r)
Register(r) ==
    /\ pc[r] = "register"
    /\ waiting' = waiting \cup Registered(r)
    /\ Goto(r, "post")
    /\ UNCHANGED <<queues, naps, results, slotVars, received, spoils>>

Post(r) ==
    /\ pc[r] = "post"
    /\ queue' = queue \o [k \in 1..Len(Mine[r]) |-> Task("run", Mine[r][k])]
    /\ NotifyOne(r, "recv")
    /\ UNCHANGED <<deferred, naps, answers, slotVars, received, spoils>>

HasNext(r) == received[r] < Len(Mine[r])

\* next: an error stops the request, and so does the last result (the destructor)
Receive(r) ==
    /\ pc[r] = "recv"
    /\ \E res \in {x \in results : x.id \in Own(r)} :
          /\ results' = results \ {res}
          /\ received' = IF res.error THEN received ELSE [received EXCEPT ![r] = @ + 1]
          /\ Goto(r, IF res.error \/ received'[r] = Len(Mine[r]) THEN "stop" ELSE "recv")
    /\ UNCHANGED <<queues, naps, waiting, slotVars, spoils>>

\* should_stop after a timeout: the client went away
GiveUp(r) ==
    /\ pc[r] = "recv" /\ spoils < MaxSpoils
    /\ spoils' = spoils + 1
    /\ Goto(r, "stop")
    /\ UNCHANGED <<queues, naps, answers, slotVars, received>>

\* stop: remove_waiting_task_ids
Stop(r) ==
    /\ pc[r] = "stop"
    /\ waiting' = waiting \ Own(r)
    /\ Goto(r, IF HasNext(r) THEN "erase" ELSE "done")
    /\ UNCHANGED <<queues, naps, results, slotVars, received, spoils>>

ErasedWaiting(r) == {}                                                \* variant
\* remove_waiting_task_id: the results that were sent in between are erased
Erased(r) == {x \in results : x.id \in Own(r)}
Erase(r) ==
    /\ pc[r] = "erase"
    /\ results' = results \ Erased(r)
    /\ Goto(r, "cancel")
    /\ UNCHANGED <<queues, naps, waiting, slotVars, received, spoils>>

\* post of the cancel tasks: what is pending is dropped, the cancels go to the front
Cancel(r) ==
    /\ pc[r] = "cancel"
    /\ queue' = [k \in 1..Len(Mine[r]) |-> Task("cancel", Mine[r][k])]
                \o Kept(queue, {Task("run", i) : i \in Own(r)})
    /\ deferred' = Kept(deferred, Own(r))
    /\ NotifyOne(r, "done")
    /\ UNCHANGED <<naps, answers, slotVars, received, spoils>>

RequestStep(r) == WakeServer(r) \/ Roused(r) \/ Register(r) \/ Post(r) \/ Receive(r)
                  \/ Stop(r) \/ Erase(r) \/ Cancel(r)

-----------------------------------------------------------------------------
(***************************************************************************)
(* The loop: start_loop, process_single_task and update_slots.              *)
(***************************************************************************)
LoopLeaves == UNCHANGED <<naps, received>>
Busy == {s \in Slots : slot[s].id # 0}

\* send: only what somebody waits for is kept
Send(i, error) == results' = IF i \in waiting THEN results \cup {[id |-> i, error |-> error]} ELSE results

Take ==
    /\ pc["loop"] = "take"
    /\ \/ queue = <<>> /\ Goto("loop", "update") /\ UNCHANGED <<queue, hand>>
       \/ queue # <<>> /\ hand' = Head(queue) /\ queue' = Tail(queue) /\ Goto("loop", "process")
    /\ LoopLeaves /\ UNCHANGED <<deferred, answers, slot, visit, leaving, spoils>>

\* a task for the slot if there is one, otherwise the first
Asking(s) == {k \in 1..Len(deferred) : Jobs[deferred[k]].slot = s}
Popped(s) == IF Asking(s) # {} THEN Min(Asking(s)) ELSE IF deferred # <<>> THEN 1 ELSE 0

Unmoved(seq, k) == seq                                                \* variant
Moves(seq, k) == RemoveAt(seq, k)

\* slot.release and its callback pop_deferred_task; the loop goes on to place l
Release(s, l) ==
    /\ slot' = [slot EXCEPT ![s] = Idle]
    /\ LET k == Popped(s) IN
       IF k = 0 THEN UNCHANGED queues
       ELSE /\ queue' = <<Task("run", deferred[k])>> \o queue
            /\ deferred' = Moves(deferred, k)
    /\ NotifyOne("loop", l)

Suited(i) == {s \in Slots \ Busy : Jobs[i].slot \in {0, s}}
InHand(t) == pc["loop"] = "process" /\ hand.type = t
Completion == InHand("run") /\ Jobs[hand.id].acts = 0

Launch ==
    /\ Completion
    /\ \E s \in Suited(hand.id) : slot' = [slot EXCEPT ![s] = [id |-> hand.id, rounds |-> 0]]
    /\ hand' = NoTask
    /\ Goto("loop", "take")
    /\ LoopLeaves /\ UNCHANGED <<queues, answers, visit, leaving, spoils>>

\* launch_slot_with_task fails: an error is sent and the task dropped
LaunchFails ==
    /\ Completion /\ Suited(hand.id) # {} /\ spoils < MaxSpoils
    /\ Send(hand.id, TRUE)
    /\ spoils' = spoils + 1
    /\ hand' = NoTask
    /\ Goto("loop", "take")
    /\ LoopLeaves /\ UNCHANGED <<queues, waiting, slot, visit, leaving>>

Defer ==
    /\ InHand("run")
    /\ IF Completion THEN Suited(hand.id) = {} ELSE Jobs[hand.id].acts \in Busy
    /\ deferred' = Append(deferred, hand.id)
    /\ hand' = NoTask
    /\ NotifyOne("loop", "take")
    /\ LoopLeaves /\ UNCHANGED <<queue, answers, slot, visit, leaving, spoils>>

\* save, restore or erase a slot: done or refused at once, and no slot is released behind it
SlotAction ==
    /\ InHand("run") /\ ~Completion
    /\ \E error \in BOOLEAN :
          /\ IF error THEN spoils < MaxSpoils ELSE Jobs[hand.id].acts \notin Busy
          /\ Send(hand.id, error)
    /\ spoils' = spoils + 1
    /\ hand' = NoTask
    /\ Goto("loop", "take")
    /\ LoopLeaves /\ UNCHANGED <<queues, waiting, slot, visit, leaving>>

CancelTask ==
    /\ InHand("cancel")
    /\ LET held == {s \in Slots : slot[s].id = hand.id} IN
       IF held = {} THEN Goto("loop", "take") /\ UNCHANGED <<queues, slot>>
                    ELSE \E s \in held : Release(s, "take")
    /\ hand' = NoTask
    /\ LoopLeaves /\ UNCHANGED <<answers, visit, leaving, spoils>>

NextResponse ==
    /\ InHand("next")
    /\ hand' = NoTask
    /\ Goto("loop", "take")
    /\ LoopLeaves /\ UNCHANGED <<queues, answers, slot, visit, leaving, spoils>>

\* update_slots: a NEXT_RESPONSE task keeps the loop going while a slot is busy
Update ==
    /\ pc["loop"] = "update"
    /\ \/ Busy = {} /\ Goto("loop", "idle") /\ UNCHANGED <<queue, visit>>
       \/ /\ Busy # {}
          /\ queue' = Append(queue, Task("next", 0)) /\ visit' = Busy
          /\ NotifyOne("loop", "slots")
    /\ LoopLeaves /\ UNCHANGED <<deferred, answers, hand, slot, leaving, spoils>>

AtSlot(s) == pc["loop"] = "slots" /\ leaving = 0 /\ visit # {} /\ s = Min(visit)

SlotGoesOn(s) ==
    /\ AtSlot(s) /\ slot[s].rounds < MaxRounds
    /\ slot' = [slot EXCEPT ![s].rounds = @ + 1]
    /\ visit' = visit \ {s}
    /\ LoopLeaves /\ UNCHANGED <<queues, answers, pc, hand, leaving, spoils>>

\* the final response or an error is sent, then the slot released
SlotEnds(s, error) ==
    /\ AtSlot(s) /\ (error => spoils < MaxSpoils)
    /\ Send(slot[s].id, error)
    /\ spoils' = IF error THEN spoils + 1 ELSE spoils
    /\ leaving' = s /\ visit' = visit \ {s}
    /\ LoopLeaves /\ UNCHANGED <<queues, waiting, pc, hand, slot>>

SlotRelease ==
    /\ pc["loop"] = "slots" /\ leaving # 0
    /\ Release(leaving, "slots")
    /\ leaving' = 0
    /\ LoopLeaves /\ UNCHANGED <<answers, hand, visit, spoils>>

Updated ==
    /\ pc["loop"] = "slots" /\ leaving = 0 /\ visit = {}
    /\ Goto("loop", "idle")
    /\ LoopLeaves /\ UNCHANGED <<queues, answers, slotVars, spoils>>

IdleEnds ==
    /\ pc["loop"] = "idle" /\ queue # <<>>
    /\ Goto("loop", "take")
    /\ LoopLeaves /\ UNCHANGED <<queues, answers, slotVars, spoils>>

\* should_sleep after idle_sleep_ms; the model is unloaded under the mutex
FallAsleep ==
    /\ pc["loop"] = "idle" /\ queue = <<>> /\ sleeps < MaxSleeps
    /\ sleeping' = TRUE /\ reqStop' = FALSE /\ sleeps' = sleeps + 1
    /\ Goto("loop", "dozing")
    /\ UNCHANGED <<queues, answers, slotVars, received, spoils>>

\* roused: asked to stop sleeping, or only told of a new task
LoopRoused ==
    /\ pc["loop"] = "roused"
    /\ \/ reqStop /\ sleeping' = FALSE /\ reqStop' = FALSE /\ pc' = Moved("loop", "take", Requests)
       \/ ~reqStop /\ Goto("loop", "dozing") /\ UNCHANGED <<sleeping, reqStop>>
    /\ UNCHANGED <<queues, sleeps, answers, slotVars, received, spoils>>

LoopStep ==
    \/ Take \/ Launch \/ LaunchFails \/ Defer \/ SlotAction \/ CancelTask \/ NextResponse
    \/ Update \/ SlotRelease \/ Updated \/ IdleEnds \/ LoopRoused
    \/ \E s \in Slots : SlotGoesOn(s) \/ \E e \in BOOLEAN : SlotEnds(s, e)

-----------------------------------------------------------------------------
Next == LoopStep \/ FallAsleep \/ \E r \in Requests : RequestStep(r) \/ GiveUp(r)

Spec == Init /\ [][Next]_vars

\* the threads run; clients need not go away and the server need not sleep
FairSpec == Spec /\ WF_vars(LoopStep) /\ \A r \in Requests : WF_vars(RequestStep(r))

-----------------------------------------------------------------------------
(***************************************************************************)
(* Properties.                                                              *)
(***************************************************************************)
Queued == {k \in 1..Len(queue) : queue[k].type = "run"}

\* How many times task i is somewhere between post and its end.
Places(i) ==
    Cardinality({k \in Queued : queue[k].id = i}) + Cardinality({k \in 1..Len(deferred) : deferred[k] = i})
    + Cardinality({s \in Slots : slot[s].id = i}) + IF hand = Task("run", i) THEN 1 ELSE 0

\* Between the queue, the deferred ones, the loop's hand and the slots a task is in one
\* place: popping, deferring, cancelling and launching never copy it, so that none runs twice.
TasksOnce == \A i \in Ids : Places(i) <= 1 /\ ([id |-> i, error |-> FALSE] \in results =>
                                               \A s \in Slots : slot[s].id = i => leaving = s)

\* A request that is over leaves nothing in server_response, whatever was sent while it
\* stopped.
NothingLeft == \A r \in Requests : pc[r] = "done" =>
                   Own(r) \cap waiting = {} /\ \A x \in results : x.id \notin Own(r)

\* Tasks are deferred though no slot is busy and nothing is queued: nobody will release a
\* slot and so pop them.
Stranded == pc["loop"] \in {"idle", "dozing", "roused"} /\ queue = <<>> /\ deferred # <<>> /\ Busy = {}

\* "Add a new task, but defer until one slot is available" (server-queue.h).
DeferredRuns == ~Stranded

\* Requests that posted their tasks are answered or give up, unless the server sleeps (a
\* task that comes while it does wakes nobody) or tasks are stranded.
Answered == (\E r \in Requests : pc[r] = "recv")
                ~> (\A r \in Requests : pc[r] # "recv") \/ sleeping \/ Stranded

\* Requests that wait for the server to wake up go on; one that was told so only when the
\* server was asleep again may not.
WakersReturn == Dozing \cap Requests # {} ~> Dozing \cap Requests = {} \/ sleeps > 1
=============================================================================
