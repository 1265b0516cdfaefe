--------------------------- MODULE RequestService ---------------------------
(***************************************************************************)
(* The request/response layer of the server                                *)
(* (symbolicator/src/service.rs and the endpoints that use it): an         *)
(* endpoint creates a request, which runs as a task of its own, and polls  *)
(* it; other clients may poll it by its id.  The result goes through a     *)
(* shared channel.  A request holds a slot of max_concurrent_requests      *)
(* until its result is sent and stays in the map of requests for           *)
(* MAX_POLL_DELAY after that.                                              *)
(*                                                                         *)
(* Timers count down: a deadline `left` ticks away.  A timer that has run  *)
(* out fires some time later, as on a loaded runtime.                      *)
(***************************************************************************)
EXTENDS Integers, FiniteSets

CONSTANTS
    Requests,      \* request ids, each used once
    NoRequest,     \* no request
    Clients,       \* connections to the HTTP endpoints
    MaxRequests,   \* max_concurrent_requests
    TimeLimit,     \* the hard timeout of a request, 15 minutes
    MaxPollDelay,  \* MAX_POLL_DELAY, 90 seconds
    Timeouts       \* the values of the timeout query parameter

ASSUME RequestConstants ==
    /\ NoRequest \notin Requests
    /\ MaxRequests \in Nat
    /\ TimeLimit \in Nat
    /\ MaxPollDelay \in Nat \ {0}
    /\ Timeouts \subseteq Nat

VARIABLES
    requests,    \* RequestServiceInner::requests, the ids in the map
    inflight,    \* RequestServiceInner::current_requests
    channel,     \* the shared oneshot channel of each request
    task,        \* the task of each request
    client,      \* the state of each connection
    pendingAgo   \* ticks since a Pending reply for the request (history)

vars == <<requests, inflight, channel, task, client, pendingAgo>>

-----------------------------------------------------------------------------
Responses == {"completed", "failed", "timeout"}
Guards    == {"sender", "slot", "token"}

Replies == Responses \union {"none", "rejected", "not_started", "not_found",
                             "pending", "internal_error"}

TaskSet == [pc : {"new", "spawned", "running", "send", "release", "sleep",
                  "unwind", "done"},
            left : Nat, response : Responses \union {"none"}, guards : SUBSET Guards]

ClientSet == [pc : {"idle", "lookup", "wait"}, id : Requests \union {NoRequest},
              created : BOOLEAN, timed : BOOLEAN, left : Nat, reply : Replies]

\* The type of every variable.
TypeOK ==
    /\ requests \in SUBSET Requests
    /\ inflight \in Nat
    /\ channel \in [Requests -> Responses \union {"empty", "canceled"}]
    /\ task \in [Requests -> TaskSet]
    /\ client \in [Clients -> ClientSet]
    /\ pendingAgo \in [Requests -> 0..MaxPollDelay]

NewTask    == [pc |-> "new", left |-> 0, response |-> "none", guards |-> {}]
IdleClient == [pc |-> "idle", id |-> NoRequest, created |-> FALSE, timed |-> FALSE,
               left |-> 0, reply |-> "none"]

Init ==
    /\ requests = {}
    /\ inflight = 0
    /\ channel = [id \in Requests |-> "empty"]
    /\ task = [id \in Requests |-> NewTask]
    /\ client = [c \in Clients |-> IdleClient]
    /\ pendingAgo = [id \in Requests |-> MaxPollDelay]
-----------------------------------------------------------------------------
(* The endpoints. *)

\* The handler of c replies with r.
Replied(c, r) == client' = [client EXCEPT ![c] = [IdleClient EXCEPT !.reply = r]]

\* The handler of c goes on to get_response for id.
Polls(c, id, created) ==
    \E timed \in BOOLEAN, timeout \in Timeouts :
        client' = [client EXCEPT ![c] =
                     [IdleClient EXCEPT !.pc = "lookup", !.id = id, !.created = created,
                                        !.timed = timed,
                                        !.left = IF timed THEN timeout ELSE 0]]

(***************************************************************************)
(* create_symbolication_request, called by the symbolication endpoints: at *)
(* the limit the request is refused, otherwise it takes a slot, enters the *)
(* map and is spawned; the handler then polls it.                          *)
(***************************************************************************)
CreateRequest(c, id) ==
    /\ client[c].pc = "idle"
    /\ task[id].pc = "new"
    /\ IF inflight < MaxRequests
       THEN /\ inflight' = inflight + 1
            /\ requests' = requests \union {id}
            /\ task' = [task EXCEPT ![id] = [@ EXCEPT !.pc = "spawned", !.guards = Guards]]
            /\ Polls(c, id, TRUE)
       ELSE /\ Replied(c, "rejected")
            /\ UNCHANGED <<requests, inflight, task>>
    /\ UNCHANGED <<channel, pendingAgo>>

\* GET /requests/<id>
PollRequest(c, id) ==
    /\ client[c].pc = "idle"
    /\ Polls(c, id, FALSE)
    /\ UNCHANGED <<requests, inflight, channel, task, pendingAgo>>

\* get_response: take a clone of the channel from the map, or report the miss.
LookupChannel(c) ==
    /\ client[c].pc = "lookup"
    /\ IF client[c].id \in requests
       THEN client' = [client EXCEPT ![c] = [@ EXCEPT !.pc = "wait"]]
       ELSE Replied(c, IF client[c].created THEN "not_started" ELSE "not_found")
    /\ UNCHANGED <<requests, inflight, channel, task, pendingAgo>>

\* wrap_response_channel: the channel resolves ...
Respond(c) ==
    LET id == client[c].id
    IN  /\ client[c].pc = "wait"
        /\ channel[id] # "empty"
        /\ Replied(c, IF channel[id] = "canceled" THEN "internal_error" ELSE channel[id])
        /\ UNCHANGED <<requests, inflight, channel, task, pendingAgo>>

\* ... or the timeout of the poll elapses while it is empty.
PollTimesOut(c) ==
    LET id == client[c].id
    IN  /\ client[c].pc = "wait" /\ client[c].timed /\ client[c].left = 0
        /\ channel[id] = "empty"
        /\ Replied(c, "pending")
        /\ pendingAgo' = [pendingAgo EXCEPT ![id] = 0]
        /\ UNCHANGED <<requests, inflight, channel, task>>

\* The connection is closed and its handler dropped.
Disconnect(c) ==
    /\ client[c].pc # "idle"
    /\ client' = [client EXCEPT ![c] = IdleClient]
    /\ UNCHANGED <<requests, inflight, channel, task, pendingAgo>>
-----------------------------------------------------------------------------
(* The task of a request. *)

\* The first poll, which starts the timeout.
StartTask(id) ==
    /\ task[id].pc = "spawned"
    /\ task' = [task EXCEPT ![id] = [@ EXCEPT !.pc = "running", !.left = TimeLimit]]
    /\ UNCHANGED <<requests, inflight, channel, client, pendingAgo>>

Answers(id, response) ==
    /\ task' = [task EXCEPT ![id] = [@ EXCEPT !.pc = "send", !.left = 0,
                                              !.response = response]]
    /\ UNCHANGED <<requests, inflight, channel, client, pendingAgo>>

\* The symbolication ends, with a result or an error.
Symbolicated(id) ==
    /\ task[id].pc = "running"
    /\ Answers(id, "completed") \/ Answers(id, "failed")

TimeLimitReached_Never(id) ==
    /\ task[id].pc = "running" /\ task[id].left < 0
    /\ Answers(id, "timeout")

TimeLimitReached(id) ==
    /\ task[id].pc = "running" /\ task[id].left = 0
    /\ Answers(id, "timeout")

\* sender.send
SendResponse(id) ==
    /\ task[id].pc = "send"
    /\ channel' = [channel EXCEPT ![id] = task[id].response]
    /\ task' = [task EXCEPT ![id] = [@ EXCEPT !.pc = "release"]]
    /\ UNCHANGED <<requests, inflight, client, pendingAgo>>

ReleaseSlot_NoSleep(id) ==
    /\ task[id].pc = "release"
    /\ inflight' = inflight - 1
    /\ task' = [task EXCEPT ![id] = [@ EXCEPT !.pc = "sleep", !.left = 0]]
    /\ UNCHANGED <<requests, channel, client, pendingAgo>>

\* drop(current_request), then sleep(MAX_POLL_DELAY)
ReleaseSlot(id) ==
    /\ task[id].pc = "release"
    /\ inflight' = inflight - 1
    /\ task' = [task EXCEPT ![id] = [@ EXCEPT !.pc = "sleep", !.left = MaxPollDelay]]
    /\ UNCHANGED <<requests, channel, client, pendingAgo>>

\* drop(token)
ForgetRequest(id) ==
    /\ task[id].pc = "sleep" /\ task[id].left = 0
    /\ requests' = requests \ {id}
    /\ task' = [task EXCEPT ![id] = [@ EXCEPT !.pc = "done", !.guards = {}]]
    /\ UNCHANGED <<inflight, channel, client, pendingAgo>>

\* Symbolication panics: what the task owns is dropped, in any order.
TaskPanics(id) ==
    /\ task[id].pc = "running"
    /\ task' = [task EXCEPT ![id] = [@ EXCEPT !.pc = "unwind", !.left = 0]]
    /\ UNCHANGED <<requests, inflight, channel, client, pendingAgo>>

\* The task when guard g has been dropped.
Unwound(t, g) ==
    [t EXCEPT !.guards = t.guards \ {g},
              !.pc = IF t.guards = {g} THEN "done" ELSE t.pc]

DropGuard_LeaksSlot(id) ==
    \E g \in task[id].guards :
        /\ task[id].pc = "unwind"
        /\ channel' = IF g = "sender" THEN [channel EXCEPT ![id] = "canceled"] ELSE channel
        /\ requests' = IF g = "token" THEN requests \ {id} ELSE requests
        /\ task' = [task EXCEPT ![id] = Unwound(task[id], g)]
        /\ UNCHANGED <<inflight, client, pendingAgo>>

DropGuard_LeaksRequest(id) ==
    \E g \in task[id].guards :
        /\ task[id].pc = "unwind"
        /\ channel' = IF g = "sender" THEN [channel EXCEPT ![id] = "canceled"] ELSE channel
        /\ inflight' = IF g = "slot" THEN inflight - 1 ELSE inflight
        /\ task' = [task EXCEPT ![id] = Unwound(task[id], g)]
        /\ UNCHANGED <<requests, client, pendingAgo>>

DropGuard(id) ==
    \E g \in task[id].guards :
        /\ task[id].pc = "unwind"
        /\ channel' = IF g = "sender" THEN [channel EXCEPT ![id] = "canceled"] ELSE channel
        /\ inflight' = IF g = "slot" THEN inflight - 1 ELSE inflight
        /\ requests' = IF g = "token" THEN requests \ {id} ELSE requests
        /\ task' = [task EXCEPT ![id] = Unwound(task[id], g)]
        /\ UNCHANGED <<client, pendingAgo>>
-----------------------------------------------------------------------------
Down(t) == IF t > 0 THEN t - 1 ELSE 0

\* One tick of the clock: all timers advance.
Tick ==
    /\ task' = [id \in Requests |-> [task[id] EXCEPT !.left = Down(@)]]
    /\ client' = [c \in Clients |-> [client[c] EXCEPT !.left = Down(@)]]
    /\ pendingAgo' = [id \in Requests |->
                        IF pendingAgo[id] < MaxPollDelay THEN pendingAgo[id] + 1
                                                         ELSE pendingAgo[id]]
    /\ UNCHANGED <<requests, inflight, channel>>

ClientStep(c) == LookupChannel(c) \/ Respond(c) \/ PollTimesOut(c)

\* The steps of a task that need nothing but the runtime and its timers.
TaskStep(id) ==
    \/ StartTask(id) \/ TimeLimitReached(id) \/ SendResponse(id)
    \/ ReleaseSlot(id) \/ ForgetRequest(id) \/ DropGuard(id)

Next ==
    \/ \E c \in Clients :
          \/ \E id \in Requests : CreateRequest(c, id) \/ PollRequest(c, id)
          \/ ClientStep(c) \/ Disconnect(c)
    \/ \E id \in Requests : TaskStep(id) \/ Symbolicated(id) \/ TaskPanics(id)
    \/ Tick

Spec == Init /\ [][Next]_vars

(***************************************************************************)
(* The runtime runs ready tasks and handlers and time advances.  Nothing   *)
(* is assumed of symbolication itself: it may never end.                   *)
(***************************************************************************)
Fairness ==
    /\ WF_vars(Tick)
    /\ \A id \in Requests : WF_vars(TaskStep(id))
    /\ \A c \in Clients : WF_vars(ClientStep(c))

FairSpec == Spec /\ Fairness
-----------------------------------------------------------------------------
(* Properties.  (Definitions named X_Y are variants of X with a bug, which *)
(* the properties are checked to catch; they are not part of Next.)        *)

HoldsSlot(id) ==
    \/ task[id].pc \in {"spawned", "running", "send", "release"}
    \/ task[id].pc = "unwind" /\ "slot" \in task[id].guards

(***************************************************************************)
(* The counter is the number of requests holding a slot, on every way a    *)
(* request can end, and never above max_concurrent_requests (create_-      *)
(* symbolication_request, DeferCounterToken).                              *)
(***************************************************************************)
SlotsBounded ==
    /\ inflight = Cardinality({id \in Requests : HoldsSlot(id)})
    /\ inflight <= MaxRequests

(***************************************************************************)
(* A client told that its request is pending, and that polls again within  *)
(* MAX_POLL_DELAY, is not told that the request is unknown, unless the     *)
(* symbolication panicked (the map outlives the result by MAX_POLL_DELAY). *)
(***************************************************************************)
Panicked(id) == channel[id] = "canceled" \/ task[id].pc = "unwind"

PendingFollowedUp ==
    \A id \in Requests :
        pendingAgo[id] < MaxPollDelay /\ ~ Panicked(id) => id \in requests

\* Every poll is answered, with or without a timeout: the channel is resolved by
\* a result, the hard timeout or the drop of the sender.
PollsAnswered == \A c \in Clients : client[c].pc = "wait" ~> client[c].pc # "wait"

\* Every request gives its slot back, even one whose symbolication never ends.
SlotsReturned == \A id \in Requests : HoldsSlot(id) ~> ~ HoldsSlot(id)

\* No request stays in the map for ever.
RequestsForgotten == \A id \in Requests : id \in requests ~> id \notin requests
=============================================================================
