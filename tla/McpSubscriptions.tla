--------------------------- MODULE McpSubscriptions ---------------------------
(***************************************************************************)
(* Resource subscriptions of one legacy connection of rpi-mcp-core's       *)
(* runtime.rs: the local subscription lifetimes (tokens), what the server  *)
(* has subscribed on its current transport, the pushed notifications, the  *)
(* dispatcher that turns them into reads, and the pending updates with the *)
(* batches that deliver or retry them.  Callers are serialized by the      *)
(* connection lock; the dispatcher and the consumers are not.              *)
(***************************************************************************)
EXTENDS Naturals, Sequences, SequencesExt

CONSTANTS
  User,         \* threads that call mcp_resource and mcp_list
  Uri,
  SubBatch,        \* consumers that hold a taken batch
  MaxPending,   \* MAX_PENDING
  MaxTokens,    \* bound on subscription lifetimes
  MaxReads,     \* bound on reads per lifetime
  MaxSubWork    \* bound on lifetimes and reads together

ASSUME McpSubscriptionConstants ==
  MaxPending \in Nat \ {0} /\ {MaxTokens, MaxReads, MaxSubWork} \subseteq Nat

VARIABLES
  subs,       \* per URI: the token of its subscription, 0 for none
  tokens,     \* tokens made so far
  reads,      \* per token: its read counter
  subPending,    \* queued updates: URI, token, revision
  remote,     \* URIs the server has subscribed on the current transport
  connected,  \* the entry holds a session
  subClosing,    \* the entry is stopped and not yet removed
  lockedBy,   \* who holds the connection lock
  user,       \* per thread: operation, URI, step, observed token, restored URIs left
  notes,      \* URIs whose notification waits in the entry's queue
  reading,    \* the dispatcher: step, URI, observed token
  batch,      \* per consumer: the updates it has taken
  delivered   \* per token: newest revision a consumer has delivered

subVars == <<subs, tokens, reads, subPending, remote, connected, subClosing, lockedBy, user, notes,
             reading, batch, delivered>>
localVars == <<subs, tokens, reads, subPending>>
remoteVars == <<remote, connected>>
consumerVars == <<batch, delivered>>

IdleUser == [op |-> "none", u |-> "", step |-> "idle", seen |-> 0, todo |-> {}, fresh |-> FALSE]
UserAt(k, step) == user[k].step = step
NotReading == [step |-> "idle", u |-> "", tok |-> 0]
UserEnds(k) == user' = [user EXCEPT ![k] = IdleUser] /\ lockedBy' = IF lockedBy = k THEN "free" ELSE lockedBy

Without(q, gone) == SelectSeq(q, LAMBDA x : x.u \notin gone)

\* The reads of every lifetime so far.
AllReads == FoldLeft(LAMBDA sum, n : sum + n, 0, reads)

\* clear_subscriptions
Cleared == subs' = [u \in Uri |-> 0] /\ subPending' = <<>>

\* A transport that is dropped takes its remote subscriptions with it.
Connection(up, subscribed) == connected' = up /\ remote' = IF up THEN subscribed ELSE {}

\* remove_subscription of a lifetime: nothing when another one is current.
Removed(u, tok) ==
  IF subs[u] = tok
  THEN subs' = [subs EXCEPT ![u] = 0] /\ subPending' = Without(subPending, {u})
  ELSE UNCHANGED <<subs, subPending>>

-----------------------------------------------------------------------------
(* Callers.                                                                 *)

\* unsubscribe observes the lifetime before it waits for the connection.
UserBegins(k, op, u) ==
  /\ UserAt(k, "idle")
  /\ user' = [user EXCEPT ![k] = [IdleUser EXCEPT !.op = op, !.u = u, !.step = "wait",
                                  !.seen = IF op = "unsubscribe" THEN subs[u] ELSE 0]]
  /\ UNCHANGED <<localVars, remoteVars, subClosing, lockedBy, notes, reading, consumerVars>>

\* A mutated form of GivenUp: whatever lifetime is current is retired.
GivenUpAny(k) ==
  IF user[k].op = "unsubscribe" THEN Removed(user[k].u, subs[user[k].u])
  ELSE UNCHANGED <<subs, subPending>>

\* The callback was not reached: unsubscribe retires only what it observed.
GivenUp(k) ==
  IF user[k].op = "unsubscribe" /\ user[k].seen # 0 THEN Removed(user[k].u, user[k].seen)
  ELSE UNCHANGED <<subs, subPending>>

\* Deadline, cancellation or a stopped entry while waiting for the lock.
UserGivesUp(k) ==
  /\ UserAt(k, "wait") /\ GivenUp(k) /\ UserEnds(k)
  /\ UNCHANGED <<tokens, reads, remoteVars, subClosing, notes, reading, consumerVars>>

\* The connection lock; a changed configuration retires session and
\* subscriptions before the new server sees any of them.
UserLocks(k, edited) ==
  /\ UserAt(k, "wait") /\ lockedBy = "free" /\ ~subClosing
  /\ lockedBy' = k
  /\ IF edited THEN Cleared ELSE UNCHANGED <<subs, subPending>>
  /\ Connection(connected /\ ~edited, remote)
  /\ user' = [user EXCEPT ![k].step = IF connected' THEN "run" ELSE "connect"]
  /\ UNCHANGED <<tokens, reads, subClosing, notes, reading, consumerVars>>

ConnectFails(k) ==
  /\ UserAt(k, "connect") /\ GivenUp(k) /\ UserEnds(k)
  /\ UNCHANGED <<tokens, reads, remoteVars, subClosing, notes, reading, consumerVars>>

\* Session::start, then restore_subscriptions: every lifetime but that of the
\* URI the caller itself handles is rotated, pending updates of the key go.
Connects(k) ==
  LET restored == {u \in Uri : subs[u] # 0 /\ ~(user[k].op \in {"subscribe", "unsubscribe"} /\ u = user[k].u)}
      order == SetToSeq(restored)
      fresh(u) == tokens + CHOOSE i \in 1..Len(order) : order[i] = u IN
  /\ UserAt(k, "connect") /\ tokens + Len(order) <= MaxTokens
  /\ tokens' = tokens + Len(order)
  /\ subs' = [u \in Uri |-> IF u \in restored THEN fresh(u) ELSE subs[u]]
  /\ subPending' = <<>> /\ remote' = {}
  /\ user' = [user EXCEPT ![k].step = "restore", ![k].todo = restored, ![k].fresh = TRUE]
  /\ UNCHANGED <<reads, connected, subClosing, lockedBy, notes, reading, consumerVars>>

RestoreNext(k, u) ==
  /\ UserAt(k, "restore") /\ u \in user[k].todo
  /\ remote' = remote \cup {u} /\ user' = [user EXCEPT ![k].todo = @ \ {u}]
  /\ UNCHANGED <<localVars, connected, subClosing, lockedBy, notes, reading, consumerVars>>

\* Interrupted: the session is dropped and the next caller restores again.
\* Rejected: the subscriptions are cleared.
RestoreFails(k, rejected) ==
  /\ UserAt(k, "restore") /\ user[k].todo # {}
  /\ IF rejected THEN Cleared ELSE GivenUp(k)
  /\ Connection(FALSE, remote) /\ UserEnds(k)
  /\ UNCHANGED <<tokens, reads, subClosing, notes, reading, consumerVars>>

Restored(k) ==
  /\ UserAt(k, "restore") /\ user[k].todo = {}
  /\ connected' = TRUE /\ user' = [user EXCEPT ![k].step = "run"]
  /\ UNCHANGED <<localVars, remote, subClosing, lockedBy, notes, reading, consumerVars>>

\* list, read and call: served or failed.
Uses(k, failed) ==
  /\ UserAt(k, "run") /\ user[k].op = "use" /\ UserEnds(k)
  /\ Connection(~failed, remote)
  /\ UNCHANGED <<localVars, subClosing, notes, reading, consumerVars>>

\* On an existing transport a mark means the server is subscribed.
AlreadySubscribed(k) == ~user[k].fresh /\ subs[user[k].u] # 0

\* The new lifetime is installed before the request, so that an early
\* notification is accepted.
Subscribes(k) ==
  LET u == user[k].u IN
  /\ UserAt(k, "run") /\ user[k].op = "subscribe" /\ tokens < MaxTokens
  /\ tokens + AllReads < MaxSubWork
  /\ tokens' = tokens + 1 /\ subs' = [subs EXCEPT ![u] = tokens']
  /\ subPending' = Without(subPending, {u})
  /\ IF AlreadySubscribed(k) THEN UserEnds(k)
     ELSE user' = [user EXCEPT ![k].step = "rpc", ![k].seen = tokens'] /\ UNCHANGED lockedBy
  /\ UNCHANGED <<reads, remoteVars, subClosing, notes, reading, consumerVars>>

\* Local delivery ends before the request is sent.
Unsubscribes(k) ==
  /\ UserAt(k, "run") /\ user[k].op = "unsubscribe"
  /\ Removed(user[k].u, subs[user[k].u])
  /\ user' = [user EXCEPT ![k].step = "rpc"]
  /\ UNCHANGED <<tokens, reads, remoteVars, subClosing, lockedBy, notes, reading, consumerVars>>

\* resources/subscribe: "ok", a decoded "rejected", or the transport "failed".
SubscribeAnswered(k, answer) ==
  /\ UserAt(k, "rpc") /\ user[k].op = "subscribe" /\ UserEnds(k)
  /\ IF answer = "ok" THEN UNCHANGED <<subs, subPending>> ELSE Removed(user[k].u, user[k].seen)
  /\ Connection(answer # "failed", IF answer = "ok" THEN remote \cup {user[k].u} ELSE remote)
  /\ UNCHANGED <<tokens, reads, subClosing, notes, reading, consumerVars>>

\* A rejected unsubscribe may leave the server subscribed: reconnect.
UnsubscribeAnswered(k, ok) ==
  /\ UserAt(k, "rpc") /\ user[k].op = "unsubscribe" /\ UserEnds(k)
  /\ Connection(ok, remote \ {user[k].u})
  /\ UNCHANGED <<localVars, subClosing, notes, reading, consumerVars>>

\* close_key: stop and take the session, join the dispatcher, clear.
CloseTakes ==
  /\ ~subClosing /\ lockedBy = "free"
  /\ subClosing' = TRUE /\ Connection(FALSE, {})
  /\ UNCHANGED <<localVars, lockedBy, user, notes, reading, consumerVars>>
CloseClears ==
  /\ subClosing /\ reading = NotReading /\ subClosing' = FALSE /\ Cleared /\ notes' = {}
  /\ UNCHANGED <<tokens, reads, remoteVars, lockedBy, user, reading, consumerVars>>

-----------------------------------------------------------------------------
(* Server, dispatcher and consumers.                                        *)

\* A full notification queue drops the notification (one per URI waits here).
ServerPushes(u) ==
  /\ connected /\ u \in remote /\ u \notin notes /\ notes' = notes \cup {u}
  /\ UNCHANGED <<localVars, remoteVars, subClosing, lockedBy, user, reading, consumerVars>>

DispatchBegins(u) ==
  /\ reading = NotReading /\ u \in notes /\ ~subClosing /\ notes' = notes \ {u}
  /\ reading' = IF subs[u] = 0 THEN NotReading ELSE [step |-> "read", u |-> u, tok |-> subs[u]]
  /\ UNCHANGED <<localVars, remoteVars, subClosing, lockedBy, user, consumerVars>>

\* read_resource_by_key under the connection lock.
DispatchReads(failed) ==
  /\ reading.step = "read" /\ lockedBy = "free" /\ connected
  /\ Connection(~failed, remote)
  /\ reading' = IF failed THEN NotReading ELSE [reading EXCEPT !.step = "enqueue"]
  /\ UNCHANGED <<localVars, subClosing, lockedBy, user, notes, consumerVars>>
DispatchRefused ==
  /\ reading.step = "read" /\ reading' = NotReading
  /\ UNCHANGED <<localVars, remoteVars, subClosing, lockedBy, user, notes, consumerVars>>

\* A mutated form of StillCurrent: the URI has a subscription.
StillCurrentAny == subs[reading.u] # 0

\* The lifetime observed before the read is still the current one.
StillCurrent == subs[reading.u] = reading.tok

DispatchEnqueues ==
  /\ reading.step = "enqueue" /\ reading' = NotReading
  /\ IF StillCurrent /\ Len(subPending) < MaxPending
     THEN /\ reads[reading.tok] < MaxReads /\ tokens + AllReads < MaxSubWork
          /\ reads' = [reads EXCEPT ![reading.tok] = @ + 1]
          /\ subPending' = Append(subPending, [u |-> reading.u, tok |-> reading.tok, rev |-> reads'[reading.tok]])
     ELSE UNCHANGED <<reads, subPending>>
  /\ UNCHANGED <<subs, tokens, remoteVars, subClosing, lockedBy, user, notes, consumerVars>>

\* take_pending_batch drains the queue; updates of another scope are dropped.
TakeBatch(b, ours) ==
  /\ batch[b] = <<>> /\ subPending # <<>>
  /\ batch' = [batch EXCEPT ![b] = IF ours THEN subPending ELSE <<>>] /\ subPending' = <<>>
  /\ UNCHANGED <<subs, tokens, reads, remoteVars, subClosing, lockedBy, user, notes, reading, delivered>>

Deliver(b) ==
  /\ batch[b] # <<>>
  /\ delivered' = [t \in DOMAIN delivered |->
                     LET revs == {x.rev : x \in {y \in ToSet(batch[b]) : y.tok = t}}
                     IN IF \E r \in revs : r > delivered[t]
                        THEN CHOOSE r \in revs : \A s \in revs : s <= r ELSE delivered[t]]
  /\ batch' = [batch EXCEPT ![b] = <<>>]
  /\ UNCHANGED <<localVars, remoteVars, subClosing, lockedBy, user, notes, reading>>

\* The same lifetime, and no newer read of it.
Retriable(x) == subs[x.u] = x.tok /\ reads[x.tok] = x.rev

\* restore_pending_batch: what may be retried, in front of what is queued,
\* within the limit.
RetryBatch(b) ==
  LET kept == SelectSeq(batch[b], Retriable)
      room == MaxPending - Len(subPending) IN
  /\ batch[b] # <<>>
  /\ subPending' = SubSeq(kept, 1, IF Len(kept) < room THEN Len(kept) ELSE room) \o subPending
  /\ batch' = [batch EXCEPT ![b] = <<>>]
  /\ UNCHANGED <<subs, tokens, reads, remoteVars, subClosing, lockedBy, user, notes, reading, delivered>>

-----------------------------------------------------------------------------
SubsInit ==
  /\ subs = [u \in Uri |-> 0] /\ tokens = 0 /\ reads = [t \in 1..MaxTokens |-> 0]
  /\ subPending = <<>> /\ remote = {} /\ connected = FALSE /\ subClosing = FALSE /\ lockedBy = "free"
  /\ user = [k \in User |-> IdleUser] /\ notes = {} /\ reading = NotReading
  /\ batch = [b \in SubBatch |-> <<>>] /\ delivered = [t \in 1..MaxTokens |-> 0]

UserSteps(k) ==
  \/ \E op \in {"subscribe", "unsubscribe", "use"}, u \in Uri : UserBegins(k, op, u)
  \/ UserGivesUp(k) \/ ConnectFails(k) \/ Connects(k) \/ Restored(k)
  \/ Subscribes(k) \/ Unsubscribes(k)
  \/ \E b \in BOOLEAN : UserLocks(k, b) \/ RestoreFails(k, b) \/ Uses(k, b) \/ UnsubscribeAnswered(k, b)
  \/ \E u \in Uri : RestoreNext(k, u)
  \/ \E answer \in {"ok", "rejected", "failed"} : SubscribeAnswered(k, answer)

SubsNext ==
  \/ \E k \in User : UserSteps(k)
  \/ CloseTakes \/ CloseClears
  \/ \E u \in Uri : ServerPushes(u) \/ DispatchBegins(u)
  \/ \E failed \in BOOLEAN : DispatchReads(failed)
  \/ DispatchRefused \/ DispatchEnqueues
  \/ \E b \in SubBatch : Deliver(b) \/ RetryBatch(b) \/ \E ours \in BOOLEAN : TakeBatch(b, ours)

-----------------------------------------------------------------------------
\* "A failed append must never resurrect an unsubscribed URI, a closed
\* connection or an older subscription lifetime": every queued update belongs
\* to the subscription that is current, whatever read, retry, reconnect,
\* unsubscribe or close it met on its way.
PendingCurrent == \A i \in DOMAIN subPending : subs[subPending[i].u] = subPending[i].tok

\* "A newer read supersedes an older failed delivery, even if another flush
\* has already drained and delivered that newer read."
NewestRetried ==
  \A i \in DOMAIN subPending :
    /\ subPending[i].rev > delivered[subPending[i].tok]
    /\ \A j \in DOMAIN subPending : j < i /\ subPending[j].tok = subPending[i].tok => subPending[j].rev < subPending[i].rev

\* Whenever the connection is idle, what is marked as subscribed is subscribed
\* at the server the session talks to: no silent loss of updates after a
\* reconnect, a rejection or a half-done unsubscribe.
MarkedIsSubscribed ==
  lockedBy = "free" /\ connected => \A u \in Uri : subs[u] # 0 => u \in remote

\* An unsubscribe that did not reach the server never takes away a newer
\* subscription of the same URI.
FreshSurvives ==
  [][\A k \in User : user[k].op = "unsubscribe" /\ user[k].step \in {"wait", "connect"}
       /\ user'[k].step = "idle" => \A u \in Uri : subs[u] # user[k].seen => subs'[u] = subs[u]]_subVars
===============================================================================
