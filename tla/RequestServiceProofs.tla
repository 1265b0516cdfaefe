------------------------ MODULE RequestServiceProofs ------------------------
(***************************************************************************)
(* Theorems about RequestService, for any requests, connections, limits    *)
(* and delays.                                                             *)
(***************************************************************************)
EXTENDS RequestService, FiniteSetTheorems, TLAPS

Holders == {id \in Requests : HoldsSlot(id)}

\* The slots: SlotsBounded, and that there is a number of holders to count.
SlotInv ==
    /\ IsFiniteSet(Holders)
    /\ inflight = Cardinality(Holders)
    /\ inflight <= MaxRequests

\* The places of a task that owns its token.
Alive == {"spawned", "running", "send", "release", "sleep"}

(***************************************************************************)
(* What the place of the task says about the map, the channel and the last *)
(* Pending reply.  A sleeping task outlasts the MAX_POLL_DELAY after the   *)
(* last Pending reply, since none is given once the channel is filled.     *)
(***************************************************************************)
TaskInv(id) ==
    /\ task[id].pc = "new" => /\ id \notin requests /\ channel[id] = "empty"
                              /\ pendingAgo[id] = MaxPollDelay
    /\ task[id].pc \in Alive => task[id].guards = Guards /\ id \in requests
    /\ task[id].pc = "send" => task[id].response \in Responses
    /\ task[id].pc = "release" => channel[id] # "empty"
    /\ task[id].pc = "sleep" => /\ channel[id] # "empty"
                                /\ task[id].left + pendingAgo[id] >= MaxPollDelay
    /\ task[id].pc = "unwind" => "sender" \in task[id].guards \/ channel[id] = "canceled"
    /\ task[id].pc = "done" => /\ channel[id] # "empty"
                               /\ channel[id] = "canceled" \/ pendingAgo[id] = MaxPollDelay

\* Who waits for a request found it in the map, where it came to with its task.
ClientInv ==
    \A c \in Clients :
        /\ client[c].pc # "idle" => client[c].id \in Requests
        /\ client[c].pc = "wait" => task[client[c].id].pc # "new"

Inv == TypeOK /\ SlotInv /\ (\A id \in Requests : TaskInv(id)) /\ ClientInv

-----------------------------------------------------------------------------
(* Lemmas *)

\* The invariant says what the runs check.
LEMMA InvImplies == Inv => SlotsBounded /\ PendingFollowedUp
  <1> SUFFICES ASSUME Inv PROVE SlotsBounded /\ PendingFollowedUp
    OBVIOUS
  <1>1. SlotsBounded
    BY DEF Inv, SlotInv, SlotsBounded, Holders
  <1>2. ASSUME NEW id \in Requests, pendingAgo[id] < MaxPollDelay, ~ Panicked(id)
        PROVE  id \in requests
    <2>1. task[id].pc \in {"new", "unwind", "done"} \union Alive
      BY DEF Inv, TypeOK, TaskSet, Alive
    <2>2. pendingAgo[id] # MaxPollDelay
      BY <1>2, RequestConstants
    <2> QED
      BY <1>2, <2>1, <2>2 DEF Inv, TaskInv, Panicked
  <1> QED
    BY <1>1, <1>2 DEF PendingFollowedUp

\* The service begins with an empty map and all of its slots.
LEMMA InitInv == Init => Inv
  <1> SUFFICES ASSUME Init PROVE Inv
    OBVIOUS
  <1>1. NewTask \in TaskSet /\ IdleClient \in ClientSet
    BY DEF NewTask, IdleClient, TaskSet, ClientSet, Replies
  <1>2. TypeOK
    BY <1>1, RequestConstants DEF Init, TypeOK
  <1>3. Holders = {}
    BY DEF Init, Holders, HoldsSlot, NewTask
  <1>4. SlotInv
    BY <1>3, FS_EmptySet, RequestConstants DEF Init, SlotInv
  <1>5. ASSUME NEW id \in Requests PROVE TaskInv(id)
    BY DEF Init, TaskInv, NewTask, Alive
  <1>6. ClientInv
    BY DEF Init, ClientInv, IdleClient
  <1> QED
    BY <1>2, <1>4, <1>5, <1>6 DEF Inv

(***************************************************************************)
(* The frame of a step of one task: the requests of the others, and the    *)
(* connections, keep what the invariant says of them.                      *)
(***************************************************************************)
LEMMA TaskFrame ==
    ASSUME Inv, NEW id \in Requests, NEW t \in TaskSet,
           task' = [task EXCEPT ![id] = t], t.pc # "new",
           TypeOK', SlotInv', TaskInv(id)',
           UNCHANGED <<client, pendingAgo>>,
           \A j \in Requests \ {id} : /\ channel'[j] = channel[j]
                                      /\ j \in requests' <=> j \in requests
    PROVE  Inv'
  <1>1. \A j \in Requests \ {id} : task'[j] = task[j]
    BY DEF Inv, TypeOK
  <1>2. ASSUME NEW j \in Requests \ {id} PROVE TaskInv(j)'
    BY <1>1, <1>2 DEF Inv, TaskInv
  <1>3. task'[id].pc # "new"
    BY DEF Inv, TypeOK
  <1>4. ClientInv'
    BY <1>1, <1>3 DEF Inv, ClientInv
  <1> QED
    BY <1>2, <1>4 DEF Inv

\* A step that moves one task and keeps its hold on a slot keeps the count.
LEMMA SlotKept ==
    ASSUME Inv, NEW id \in Requests, NEW t \in TaskSet,
           task' = [task EXCEPT ![id] = t], inflight' = inflight,
           HoldsSlot(id)' <=> HoldsSlot(id)
    PROVE  SlotInv'
  <1>1. \A j \in Requests \ {id} : task'[j] = task[j]
    BY DEF Inv, TypeOK
  <1>2. Holders' = Holders
    BY <1>1 DEF Holders, HoldsSlot
  <1> QED
    BY <1>2 DEF Inv, SlotInv

\* A step that lets go of a slot counts down by one.
LEMMA SlotGiven ==
    ASSUME Inv, NEW id \in Requests, NEW t \in TaskSet,
           task' = [task EXCEPT ![id] = t], inflight' = inflight - 1,
           HoldsSlot(id), ~ HoldsSlot(id)'
    PROVE  SlotInv' /\ inflight' \in Nat
  <1>1. \A j \in Requests \ {id} : task'[j] = task[j]
    BY DEF Inv, TypeOK
  <1>2. id \in Holders /\ Holders' = Holders \ {id}
    BY <1>1 DEF Holders, HoldsSlot
  <1>3. /\ IsFiniteSet(Holders') /\ Cardinality(Holders') = Cardinality(Holders) - 1
        /\ Cardinality(Holders) \in Nat /\ Cardinality(Holders') \in Nat
    BY <1>2, FS_RemoveElement, FS_CardinalityType DEF Inv, SlotInv
  <1> QED
    BY <1>3, RequestConstants DEF Inv, TypeOK, SlotInv

-----------------------------------------------------------------------------
(* The steps. *)

\* What a handler does between its requests of the service touches only itself.
LEMMA ClientFrame ==
    ASSUME Inv, NEW c \in Clients, NEW r \in ClientSet,
           client' = [client EXCEPT ![c] = r],
           r.pc # "idle" => r.id \in Requests,
           r.pc = "wait" => task[r.id].pc # "new",
           UNCHANGED <<requests, inflight, channel, task, pendingAgo>>
    PROVE  Inv'
  <1>1. /\ client' \in [Clients -> ClientSet] /\ client'[c] = r
        /\ \A d \in Clients \ {c} : client'[d] = client[d]
    BY DEF Inv, TypeOK
  <1>2. TypeOK'
    BY <1>1 DEF Inv, TypeOK
  <1>3. Holders' = Holders /\ SlotInv'
    BY DEF Inv, SlotInv, Holders, HoldsSlot
  <1>4. \A id \in Requests : TaskInv(id)'
    BY DEF Inv, TaskInv
  <1>5. ClientInv'
    BY <1>1 DEF Inv, ClientInv
  <1> QED
    BY <1>2, <1>3, <1>4, <1>5 DEF Inv

\* A reply ends the handler.
LEMMA RepliedState ==
    ASSUME NEW r \in Replies
    PROVE  /\ [IdleClient EXCEPT !.reply = r] \in ClientSet
           /\ [IdleClient EXCEPT !.reply = r].pc = "idle"
  BY DEF IdleClient, ClientSet, Replies

\* A handler that goes on to poll looks the request up.
LEMMA PollsState ==
    ASSUME NEW c, NEW id \in Requests, NEW created \in BOOLEAN, Polls(c, id, created)
    PROVE  \E s \in ClientSet : /\ client' = [client EXCEPT ![c] = s]
                                /\ s.pc = "lookup" /\ s.id = id
  <1>1. PICK timed \in BOOLEAN, timeout \in Timeouts :
            client' = [client EXCEPT ![c] =
                         [IdleClient EXCEPT !.pc = "lookup", !.id = id, !.created = created,
                                            !.timed = timed,
                                            !.left = IF timed THEN timeout ELSE 0]]
    BY DEF Polls
  <1>2. PICK left \in Nat : left = IF timed THEN timeout ELSE 0
    BY RequestConstants
  <1> DEFINE s == [IdleClient EXCEPT !.pc = "lookup", !.id = id, !.created = created,
                                     !.timed = timed, !.left = left]
  <1>3. s \in ClientSet /\ s.pc = "lookup" /\ s.id = id
    BY DEF IdleClient, ClientSet, Replies
  <1>4. client' = [client EXCEPT ![c] = s]
    BY <1>1, <1>2
  <1> HIDE DEF s
  <1> QED
    BY <1>3, <1>4

\* A handler that only replies keeps the invariant.
LEMMA RepliedInv ==
    ASSUME Inv, NEW c \in Clients, NEW r \in Replies, Replied(c, r),
           UNCHANGED <<requests, inflight, channel, task, pendingAgo>>
    PROVE  Inv'
  BY RepliedState, ClientFrame DEF Replied

\* create_symbolication_request takes a slot only while one is free.
LEMMA CreateInv ==
    ASSUME Inv, NEW c \in Clients, NEW id \in Requests, CreateRequest(c, id)
    PROVE  Inv'
  <1> DEFINE t == [task[id] EXCEPT !.pc = "spawned", !.guards = Guards]
  <1>1. task[id].pc = "new" /\ UNCHANGED <<channel, pendingAgo>>
    BY DEF CreateRequest
  <1>2. CASE inflight < MaxRequests
    <2>1. /\ inflight' = inflight + 1 /\ requests' = requests \union {id}
          /\ task' = [task EXCEPT ![id] = t] /\ Polls(c, id, TRUE)
      BY <1>2 DEF CreateRequest
    <2>2. PICK s \in ClientSet : /\ client' = [client EXCEPT ![c] = s]
                                 /\ s.pc = "lookup" /\ s.id = id
      BY <2>1, PollsState
    <2>3. t \in TaskSet /\ t.pc = "spawned" /\ t.guards = Guards
      BY DEF Inv, TypeOK, TaskSet
    <2> HIDE DEF t
    <2>4. /\ task' \in [Requests -> TaskSet] /\ task'[id] = t
          /\ \A j \in Requests \ {id} : task'[j] = task[j]
          /\ client' \in [Clients -> ClientSet] /\ client'[c] = s
          /\ \A d \in Clients \ {c} : client'[d] = client[d]
      BY <2>1, <2>2, <2>3 DEF Inv, TypeOK
    <2>5. TypeOK'
      BY <1>1, <2>1, <2>4 DEF Inv, TypeOK
    <2>6. SlotInv'
      <3>1. id \notin Holders /\ Holders' = Holders \union {id}
        BY <1>1, <2>3, <2>4 DEF Holders, HoldsSlot
      <3>2. /\ IsFiniteSet(Holders') /\ Cardinality(Holders') = Cardinality(Holders) + 1
        BY <3>1, FS_AddElement DEF Inv, SlotInv
      <3> QED
        BY <1>2, <2>1, <3>2, RequestConstants DEF Inv, SlotInv, TypeOK
    <2>7. ASSUME NEW j \in Requests PROVE TaskInv(j)'
      <3>1. CASE j = id
        BY <2>1, <2>3, <2>4, <3>1 DEF TaskInv
      <3>2. CASE j # id
        BY <1>1, <2>1, <2>4, <3>2 DEF Inv, TaskInv
      <3> QED
        BY <3>1, <3>2
    <2>8. ClientInv'
      BY <2>2, <2>3, <2>4 DEF Inv, ClientInv
    <2> QED
      BY <2>5, <2>6, <2>7, <2>8 DEF Inv
  <1>3. CASE ~ (inflight < MaxRequests)
    <2>1. Replied(c, "rejected") /\ UNCHANGED <<requests, inflight, task>>
      BY <1>3 DEF CreateRequest
    <2> QED
      BY <1>1, <2>1, RepliedInv DEF Replies
  <1> QED
    BY <1>2, <1>3

\* The steps of a connection other than creating a request.
LEMMA ClientInvStep ==
    ASSUME Inv, NEW c \in Clients,
           \/ \E id \in Requests : PollRequest(c, id)
           \/ LookupChannel(c) \/ Respond(c) \/ Disconnect(c)
    PROVE  Inv'
  <1>1. ASSUME NEW id \in Requests, PollRequest(c, id) PROVE Inv'
    <2>1. Polls(c, id, FALSE) /\ UNCHANGED <<requests, inflight, channel, task, pendingAgo>>
      BY <1>1 DEF PollRequest
    <2>2. PICK s \in ClientSet : /\ client' = [client EXCEPT ![c] = s]
                                 /\ s.pc = "lookup" /\ s.id = id
      BY <2>1, PollsState
    <2> QED
      BY <2>1, <2>2, ClientFrame
  <1>2. CASE LookupChannel(c)
    <2>1. client[c] \in ClientSet /\ client[c].id \in Requests
      BY <1>2 DEF LookupChannel, Inv, TypeOK, ClientInv
    <2>2. CASE client[c].id \in requests
      <3> DEFINE w == [client[c] EXCEPT !.pc = "wait"]
      <3>1. w \in ClientSet /\ w.pc = "wait" /\ w.id = client[c].id
        BY <2>1 DEF ClientSet
      <3>2. client' = [client EXCEPT ![c] = w]
            /\ UNCHANGED <<requests, inflight, channel, task, pendingAgo>>
        BY <1>2, <2>2 DEF LookupChannel
      <3>3. task[w.id].pc # "new"
        BY <2>1, <2>2, <3>1 DEF Inv, TaskInv
      <3> HIDE DEF w
      <3> QED
        BY <2>1, <3>1, <3>2, <3>3, ClientFrame
    <2>3. CASE client[c].id \notin requests
      <3>1. PICK r \in {"not_started", "not_found"} : Replied(c, r)
        BY <1>2, <2>3 DEF LookupChannel
      <3>2. r \in Replies /\ UNCHANGED <<requests, inflight, channel, task, pendingAgo>>
        BY <1>2 DEF LookupChannel, Replies
      <3> QED
        BY <3>1, <3>2, RepliedInv
    <2> QED
      BY <2>2, <2>3
  <1>3. CASE Respond(c)
    <2>1. client[c].id \in Requests
      BY <1>3 DEF Respond, Inv, ClientInv
    <2>2. PICK r \in Replies : Replied(c, r)
      BY <1>3, <2>1 DEF Respond, Inv, TypeOK, Replies
    <2>3. UNCHANGED <<requests, inflight, channel, task, pendingAgo>>
      BY <1>3 DEF Respond
    <2> QED
      BY <2>2, <2>3, RepliedInv
  <1>4. CASE Disconnect(c)
    <2>1. IdleClient \in ClientSet /\ IdleClient.pc = "idle"
      BY DEF IdleClient, ClientSet, Replies
    <2> QED
      BY <1>4, <2>1, ClientFrame DEF Disconnect
  <1> QED
    BY <1>1, <1>2, <1>3, <1>4

(***************************************************************************)
(* A Pending reply is given while the channel is empty, so to a request    *)
(* whose task has not sent its answer yet.                                 *)
(***************************************************************************)
LEMMA PendingInv == ASSUME Inv, NEW c \in Clients, PollTimesOut(c) PROVE Inv'
  <1> DEFINE id == client[c].id
  <1>1. /\ client[c].pc = "wait" /\ channel[id] = "empty" /\ Replied(c, "pending")
        /\ pendingAgo' = [pendingAgo EXCEPT ![id] = 0]
        /\ UNCHANGED <<requests, inflight, channel, task>>
    BY DEF PollTimesOut
  <1>2. id \in Requests /\ task[id].pc # "new"
    BY <1>1 DEF Inv, ClientInv
  <1>3. /\ client' \in [Clients -> ClientSet] /\ client'[c].pc = "idle"
        /\ \A d \in Clients \ {c} : client'[d] = client[d]
    <2>1. [IdleClient EXCEPT !.reply = "pending"] \in ClientSet
          /\ [IdleClient EXCEPT !.reply = "pending"].pc = "idle"
      BY RepliedState DEF Replies
    <2> QED
      BY <1>1, <2>1 DEF Replied, Inv, TypeOK
  <1> HIDE DEF id
  <1>4. TypeOK'
    BY <1>1, <1>2, <1>3, RequestConstants DEF Inv, TypeOK
  <1>5. Holders' = Holders /\ SlotInv'
    BY <1>1 DEF Inv, SlotInv, Holders, HoldsSlot
  <1>6. ASSUME NEW j \in Requests PROVE TaskInv(j)'
    <2>1. j # id => pendingAgo'[j] = pendingAgo[j]
      BY <1>1 DEF Inv, TypeOK
    <2> QED
      BY <1>1, <1>2, <2>1 DEF Inv, TaskInv
  <1>7. ClientInv'
    BY <1>1, <1>3 DEF Inv, ClientInv
  <1> QED
    BY <1>4, <1>5, <1>6, <1>7 DEF Inv

\* The steps of the task of a request, from its first poll to its end.
LEMMA TaskStepInv ==
    ASSUME Inv, NEW id \in Requests, TaskStep(id) \/ Symbolicated(id) \/ TaskPanics(id)
    PROVE  Inv'
  <1>1. /\ task[id] \in TaskSet /\ TaskInv(id) /\ TypeOK
        /\ task[id].guards \subseteq Guards
    BY DEF Inv, TypeOK, TaskSet
  <1>2. ASSUME NEW t \in TaskSet, task' = [task EXCEPT ![id] = t]
        PROVE  task' \in [Requests -> TaskSet] /\ task'[id] = t
    BY <1>1, <1>2 DEF TypeOK
  <1>3. CASE StartTask(id)
    <2> DEFINE t == [task[id] EXCEPT !.pc = "running", !.left = TimeLimit]
    <2>1. /\ task[id].pc = "spawned" /\ task' = [task EXCEPT ![id] = t]
          /\ UNCHANGED <<requests, inflight, channel, client, pendingAgo>>
      BY <1>3 DEF StartTask
    <2>2. t \in TaskSet /\ t.pc = "running" /\ t.guards = task[id].guards
      BY <1>1, RequestConstants DEF TaskSet
    <2> HIDE DEF t
    <2>3. TypeOK' /\ TaskInv(id)'
      BY <1>1, <1>2, <2>1, <2>2 DEF TypeOK, TaskInv, Alive
    <2>4. SlotInv'
      BY <1>2, <2>1, <2>2, SlotKept DEF HoldsSlot
    <2> QED
      BY <2>1, <2>2, <2>3, <2>4, TaskFrame
  <1>4. CASE \/ Symbolicated(id) \/ TimeLimitReached(id)
    <2>1. PICK r \in Responses : Answers(id, r)
      BY <1>4 DEF Symbolicated, TimeLimitReached, Responses
    <2> DEFINE t == [task[id] EXCEPT !.pc = "send", !.left = 0, !.response = r]
    <2>2. /\ task[id].pc = "running" /\ task' = [task EXCEPT ![id] = t]
          /\ UNCHANGED <<requests, inflight, channel, client, pendingAgo>>
      BY <1>4, <2>1 DEF Symbolicated, TimeLimitReached, Answers
    <2>3. t \in TaskSet /\ t.pc = "send" /\ t.guards = task[id].guards /\ t.response = r
      BY <1>1 DEF TaskSet
    <2> HIDE DEF t
    <2>4. TypeOK' /\ TaskInv(id)'
      BY <1>1, <1>2, <2>2, <2>3 DEF TypeOK, TaskInv, Alive
    <2>5. SlotInv'
      BY <1>2, <2>2, <2>3, SlotKept DEF HoldsSlot
    <2> QED
      BY <2>2, <2>3, <2>4, <2>5, TaskFrame
  <1>5. CASE SendResponse(id)
    <2> DEFINE t == [task[id] EXCEPT !.pc = "release"]
    <2>1. /\ task[id].pc = "send" /\ task' = [task EXCEPT ![id] = t]
          /\ channel' = [channel EXCEPT ![id] = task[id].response]
          /\ UNCHANGED <<requests, inflight, client, pendingAgo>>
      BY <1>5 DEF SendResponse
    <2>2. t \in TaskSet /\ t.pc = "release" /\ t.guards = task[id].guards
      BY <1>1 DEF TaskSet
    <2> HIDE DEF t
    <2>3. /\ channel' \in [Requests -> Responses \union {"empty", "canceled"}]
          /\ channel'[id] # "empty"
          /\ \A j \in Requests \ {id} : channel'[j] = channel[j]
      BY <1>1, <2>1 DEF TypeOK, TaskInv, Responses
    <2>4. TypeOK' /\ TaskInv(id)'
      BY <1>1, <1>2, <2>1, <2>2, <2>3 DEF TypeOK, TaskInv, Alive
    <2>5. SlotInv'
      BY <1>2, <2>1, <2>2, SlotKept DEF HoldsSlot
    <2> QED
      BY <2>1, <2>2, <2>3, <2>4, <2>5, TaskFrame
  <1>6. CASE ReleaseSlot(id)
    <2> DEFINE t == [task[id] EXCEPT !.pc = "sleep", !.left = MaxPollDelay]
    <2>1. /\ task[id].pc = "release" /\ task' = [task EXCEPT ![id] = t]
          /\ inflight' = inflight - 1
          /\ UNCHANGED <<requests, channel, client, pendingAgo>>
      BY <1>6 DEF ReleaseSlot
    <2>2. /\ t \in TaskSet /\ t.pc = "sleep" /\ t.guards = task[id].guards
          /\ t.left = MaxPollDelay
      BY <1>1, RequestConstants DEF TaskSet
    <2> HIDE DEF t
    <2>3. SlotInv' /\ inflight' \in Nat
      BY <1>2, <2>1, <2>2, SlotGiven DEF HoldsSlot
    <2>4. TypeOK'
      BY <1>1, <1>2, <2>1, <2>2, <2>3 DEF TypeOK
    <2>5. pendingAgo[id] \in Nat /\ MaxPollDelay + pendingAgo[id] >= MaxPollDelay
      BY <1>1, RequestConstants DEF TypeOK
    <2>6. TaskInv(id)'
      BY <1>1, <1>2, <2>1, <2>2, <2>5 DEF TaskInv, Alive
    <2> QED
      BY <2>1, <2>2, <2>3, <2>4, <2>6, TaskFrame
  <1>7. CASE ForgetRequest(id)
    <2> DEFINE t == [task[id] EXCEPT !.pc = "done", !.guards = {}]
    <2>1. /\ task[id].pc = "sleep" /\ task[id].left = 0 /\ task' = [task EXCEPT ![id] = t]
          /\ requests' = requests \ {id}
          /\ UNCHANGED <<inflight, channel, client, pendingAgo>>
      BY <1>7 DEF ForgetRequest
    <2>2. t \in TaskSet /\ t.pc = "done"
      BY <1>1 DEF TaskSet
    <2> HIDE DEF t
    <2>3. TypeOK'
      BY <1>1, <1>2, <2>1, <2>2 DEF TypeOK
    <2>4. pendingAgo[id] = MaxPollDelay
      BY <1>1, <2>1, RequestConstants DEF TypeOK, TaskInv
    <2>5. TaskInv(id)'
      BY <1>1, <1>2, <2>1, <2>2, <2>4 DEF TaskInv, Alive
    <2>6. SlotInv'
      BY <1>2, <2>1, <2>2, SlotKept DEF HoldsSlot
    <2> QED
      BY <2>1, <2>2, <2>3, <2>5, <2>6, TaskFrame
  <1>8. CASE TaskPanics(id)
    <2> DEFINE t == [task[id] EXCEPT !.pc = "unwind", !.left = 0]
    <2>1. /\ task[id].pc = "running" /\ task' = [task EXCEPT ![id] = t]
          /\ UNCHANGED <<requests, inflight, channel, client, pendingAgo>>
      BY <1>8 DEF TaskPanics
    <2>2. t \in TaskSet /\ t.pc = "unwind" /\ t.guards = Guards
      BY <1>1, <2>1 DEF TaskSet, TaskInv, Alive
    <2> HIDE DEF t
    <2>3. TypeOK' /\ TaskInv(id)'
      BY <1>1, <1>2, <2>1, <2>2 DEF TypeOK, TaskInv, Alive, Guards
    <2>4. SlotInv'
      BY <1>2, <2>1, <2>2, SlotKept DEF HoldsSlot, Guards
    <2> QED
      BY <2>1, <2>2, <2>3, <2>4, TaskFrame
  <1>9. CASE DropGuard(id)
    <2>1. PICK g \in task[id].guards :
              /\ task[id].pc = "unwind"
              /\ channel' = IF g = "sender" THEN [channel EXCEPT ![id] = "canceled"] ELSE channel
              /\ inflight' = IF g = "slot" THEN inflight - 1 ELSE inflight
              /\ requests' = IF g = "token" THEN requests \ {id} ELSE requests
              /\ task' = [task EXCEPT ![id] = Unwound(task[id], g)]
              /\ UNCHANGED <<client, pendingAgo>>
      BY <1>9 DEF DropGuard
    <2> DEFINE t == Unwound(task[id], g)
               pc == t.pc
    <2>2. pc \in {"done", "unwind"} /\ (pc = "done" <=> task[id].guards = {g})
      BY <1>1, <2>1 DEF Unwound, TaskSet
    <2>3. /\ t \in TaskSet /\ t.pc = pc /\ t.guards = task[id].guards \ {g}
          /\ task' = [task EXCEPT ![id] = t]
      <3>1. task[id].guards \ {g} \in SUBSET Guards
        BY <1>1
      <3>2. t \in TaskSet /\ t.guards = task[id].guards \ {g}
        BY <1>1, <2>1, <3>1 DEF Unwound, TaskSet
      <3> QED
        BY <2>1, <3>2
    <2> HIDE DEF t, pc
    <2>4. /\ channel' \in [Requests -> Responses \union {"empty", "canceled"}]
          /\ channel'[id] = IF g = "sender" THEN "canceled" ELSE channel[id]
          /\ \A j \in Requests \ {id} : channel'[j] = channel[j]
      BY <1>1, <2>1 DEF TypeOK
    <2>5. SlotInv' /\ inflight' \in Nat
      <3>1. task'[id].pc = pc /\ task'[id].guards = task[id].guards \ {g}
        BY <1>2, <2>3
      <3>2. HoldsSlot(id) <=> "slot" \in task[id].guards
        BY <2>1 DEF HoldsSlot
      <3>3. HoldsSlot(id)' <=> pc = "unwind" /\ "slot" \in task[id].guards \ {g}
        BY <2>2, <3>1 DEF HoldsSlot
      <3>4. CASE g = "slot"
        BY <1>2, <2>1, <2>3, <3>2, <3>3, <3>4, SlotGiven
      <3>5. CASE g # "slot"
        <4>1. HoldsSlot(id)' <=> HoldsSlot(id)
          BY <2>2, <3>2, <3>3, <3>5
        <4> QED
          BY <1>1, <2>1, <2>3, <3>5, <4>1, SlotKept DEF TypeOK
      <3> QED
        BY <3>4, <3>5
    <2>6. TypeOK'
      BY <1>1, <1>2, <2>1, <2>3, <2>4, <2>5 DEF TypeOK
    <2>7. "sender" \in t.guards \/ channel'[id] = "canceled"
      BY <1>1, <2>1, <2>3, <2>4 DEF TaskInv
    <2>8. pc = "done" => channel'[id] = "canceled"
      BY <2>2, <2>3, <2>7
    <2>9. TaskInv(id)'
      BY <1>2, <2>2, <2>3, <2>7, <2>8 DEF TaskInv, Alive
    <2> QED
      BY <2>1, <2>2, <2>3, <2>4, <2>5, <2>6, <2>9, TaskFrame
  <1> QED
    BY <1>3, <1>4, <1>5, <1>6, <1>7, <1>8, <1>9 DEF TaskStep

\* A tick takes as much from the sleep of a task as it adds to the age of a reply.
LEMMA TickInv == ASSUME Inv, Tick PROVE Inv'
  <1>1. \A n \in Nat : Down(n) \in Nat /\ (Down(n) = n - 1 \/ n = 0)
    BY DEF Down
  <1>2. ASSUME NEW id \in Requests
        PROVE  /\ task'[id] \in TaskSet /\ task'[id].pc = task[id].pc
               /\ task'[id].guards = task[id].guards /\ task'[id].response = task[id].response
               /\ task'[id].left = Down(task[id].left)
               /\ task[id].left \in Nat /\ pendingAgo[id] \in 0 .. MaxPollDelay
               /\ pendingAgo'[id] \in 0 .. MaxPollDelay
               /\ pendingAgo'[id] = pendingAgo[id] + 1 \/ pendingAgo[id] = MaxPollDelay
               /\ pendingAgo[id] = MaxPollDelay => pendingAgo'[id] = MaxPollDelay
    <2>1. task[id] \in TaskSet /\ pendingAgo[id] \in 0 .. MaxPollDelay
      BY DEF Inv, TypeOK
    <2>2. task'[id] = [task[id] EXCEPT !.left = Down(task[id].left)]
      BY DEF Tick
    <2>3. pendingAgo'[id] = IF pendingAgo[id] < MaxPollDelay THEN pendingAgo[id] + 1
                                                             ELSE pendingAgo[id]
      BY DEF Tick
    <2>4. task[id].left \in Nat /\ Down(task[id].left) \in Nat
      BY <1>1, <2>1 DEF TaskSet
    <2>5. /\ task'[id] \in TaskSet /\ task'[id].pc = task[id].pc
          /\ task'[id].guards = task[id].guards /\ task'[id].response = task[id].response
          /\ task'[id].left = Down(task[id].left)
      BY <2>1, <2>2, <2>4 DEF TaskSet
    <2> QED
      BY <2>1, <2>3, <2>4, <2>5, RequestConstants
  <1>3. ASSUME NEW c \in Clients
        PROVE  /\ client'[c] \in ClientSet
               /\ client'[c].pc = client[c].pc /\ client'[c].id = client[c].id
    <2>1. client[c] \in ClientSet /\ client[c].left \in Nat
      BY DEF Inv, TypeOK, ClientSet
    <2>2. client'[c] = [client[c] EXCEPT !.left = Down(client[c].left)]
      BY DEF Tick
    <2> QED
      BY <1>1, <2>1, <2>2 DEF ClientSet
  <1>4. UNCHANGED <<requests, inflight, channel>>
    BY DEF Tick
  <1>5. TypeOK'
    <2>1. task' \in [Requests -> TaskSet]
      BY <1>2 DEF Tick
    <2>2. client' \in [Clients -> ClientSet]
      BY <1>3 DEF Tick
    <2>3. pendingAgo' \in [Requests -> 0 .. MaxPollDelay]
      BY <1>2 DEF Tick
    <2> QED
      BY <1>4, <2>1, <2>2, <2>3 DEF Inv, TypeOK
  <1>6. Holders' = Holders
    BY <1>2 DEF Holders, HoldsSlot
  <1>7. SlotInv'
    BY <1>4, <1>6 DEF Inv, SlotInv
  <1>8. ASSUME NEW id \in Requests PROVE TaskInv(id)'
    <2>1. task[id].pc = "sleep" => task'[id].left + pendingAgo'[id] >= MaxPollDelay
      <3>1. ASSUME task[id].left + pendingAgo[id] >= MaxPollDelay
            PROVE  task'[id].left + pendingAgo'[id] >= MaxPollDelay
        BY <1>1, <1>2, <3>1, RequestConstants
      <3> QED
        BY <3>1 DEF Inv, TaskInv
    <2> QED
      BY <1>2, <1>4, <2>1 DEF Inv, TaskInv
  <1>9. ClientInv'
    BY <1>2, <1>3 DEF Inv, ClientInv
  <1> QED
    BY <1>5, <1>7, <1>8, <1>9 DEF Inv

\* Inv is inductive.
LEMMA NextInv == Inv /\ [Next]_vars => Inv'
  <1> SUFFICES ASSUME Inv, [Next]_vars PROVE Inv'
    OBVIOUS
  <1>1. ASSUME NEW c \in Clients, NEW id \in Requests, CreateRequest(c, id) PROVE Inv'
    BY <1>1, CreateInv
  <1>2. ASSUME NEW c \in Clients, \/ \E id \in Requests : PollRequest(c, id)
                                  \/ ClientStep(c) \/ Disconnect(c)
        PROVE  Inv'
    BY <1>2, ClientInvStep, PendingInv DEF ClientStep
  <1>3. ASSUME NEW id \in Requests, TaskStep(id) \/ Symbolicated(id) \/ TaskPanics(id)
        PROVE  Inv'
    BY <1>3, TaskStepInv
  <1>4. CASE Tick
    BY <1>4, TickInv
  <1>5. CASE UNCHANGED vars
    BY <1>5 DEF vars, Inv, TypeOK, SlotInv, Holders, HoldsSlot, TaskInv, ClientInv
  <1> QED
    BY <1>1, <1>2, <1>3, <1>4, <1>5 DEF Next

\* The invariant holds of every behaviour of the service.
LEMMA AlwaysInv == Spec => []Inv
  BY InitInv, NextInv, PTL DEF Spec

-----------------------------------------------------------------------------
(* Theorems *)

\* Every variable keeps its type: the counter of requests never wraps below zero.
THEOREM TypeCorrect == Spec => []TypeOK
  <1>1. Inv => TypeOK
    BY DEF Inv
  <1> QED
    BY <1>1, AlwaysInv, PTL

\* current_requests counts the requests that hold a slot, however they end, and
\* create_symbolication_request never lets in more than max_concurrent_requests.
THEOREM SlotsCounted == Spec => []SlotsBounded
  BY AlwaysInv, InvImplies, PTL

\* A request reported as pending stays known for MAX_POLL_DELAY.
THEOREM PendingStaysKnown == Spec => []PendingFollowedUp
  BY AlwaysInv, InvImplies, PTL
=============================================================================
