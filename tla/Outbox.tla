------------------------------- MODULE Outbox -------------------------------
(***************************************************************************)
(* MESSAGE_QUEUES (src/src/config/mod.rs) and the job that empties them,   *)
(* job_flush_messages_queue of src/src/scheduler.rs.  Handlers, jobs and   *)
(* subscribers push at the end under a write lock; one task takes the      *)
(* queues in turn, sends a copy of the head of each and only then removes  *)
(* it.  The lock is not held while sending.                                *)
(***************************************************************************)
EXTENDS Integers, Sequences, Functions

CONSTANTS
  Queues,    \* queue_order_msg, queue_order_cantdo, queue_restore_session_msg
  Messages,  \* messages of this instance
  MaxFailures, \* bound: failed sends
  MaxRetries \* the 3 of `*retries > 3`

VARIABLES
  queue,    \* what each queue holds
  retries,  \* the flushing task's counter for each queue
  turn,     \* the queue the task is at, the head it has copied
  pushed,   \* history: each queue's messages in the order of their pushes
  failures, \* history: failed sends of each message
  sent,     \* messages a send succeeded for
  lost      \* messages a restart dropped

vars == <<queue, retries, turn, pushed, failures, sent, lost>>

NoHead == "none"
Total(f) == FoldFunction(+, 0, f)
EndOf(s, t) == Len(s) <= Len(t) /\ s = SubSeq(t, Len(t) - Len(s) + 1, Len(t))
Pushed == UNION {Range(pushed[q]) : q \in Queues}
Waiting == UNION {Range(queue[q]) : q \in Queues}

(* The state has its shape.                                                 *)
TypeOK ==
  /\ queue \in [Queues -> Seq(Messages)]
  /\ retries \in [Queues -> 0..MaxRetries]
  /\ turn \in [queue : Queues, head : Messages \cup {NoHead}]
  /\ pushed \in [Queues -> Seq(Messages)]
  /\ failures \in [Messages -> 0..MaxRetries + 1]
  /\ sent \in SUBSET Messages
  /\ lost \in SUBSET Messages

Init ==
  /\ queue = [q \in Queues |-> <<>>]
  /\ retries = [q \in Queues |-> 0]
  /\ turn \in [queue : Queues, head : {NoHead}]
  /\ pushed = [q \in Queues |-> <<>>]
  /\ failures = [m \in Messages |-> 0]
  /\ sent = {}
  /\ lost = {}

enqueue_order_msg(q, m) ==
  /\ m \notin Pushed
  /\ queue' = [queue EXCEPT ![q] = Append(@, m)]
  /\ pushed' = [pushed EXCEPT ![q] = Append(@, m)]
  /\ UNCHANGED <<retries, turn, failures, sent, lost>>

NextTurn == \E q \in Queues \ {turn.queue} : turn' = [queue |-> q, head |-> NoHead]

(* An empty queue is passed over; else its head is copied.                  *)
read_head ==
  /\ turn.head = NoHead
  /\ IF queue[turn.queue] = <<>> THEN NextTurn
     ELSE turn' = [turn EXCEPT !.head = Head(queue[turn.queue])]
  /\ UNCHANGED <<queue, retries, pushed, failures, sent, lost>>

RemoveHead == queue' = [queue EXCEPT ![turn.queue] = Tail(@)]

\* mutant: a success keeps the failures of the message before it
SuccessKeepsRetries ==
  /\ turn.head # NoHead
  /\ sent' = sent \cup {turn.head}
  /\ RemoveHead
  /\ NextTurn
  /\ UNCHANGED <<retries, pushed, failures, lost>>

send_messages_ok ==
  /\ turn.head # NoHead
  /\ sent' = sent \cup {turn.head}
  /\ retries' = [retries EXCEPT ![turn.queue] = 0]
  /\ RemoveHead
  /\ NextTurn
  /\ UNCHANGED <<pushed, failures, lost>>

(* After the failure that exceeds the limit the message is removed unsent.  *)
send_messages_failed ==
  LET tries == retries[turn.queue] + 1 IN
  /\ turn.head # NoHead
  /\ Total(failures) < MaxFailures
  /\ failures' = [failures EXCEPT ![turn.head] = @ + 1]
  /\ IF tries > MaxRetries
     THEN retries' = [retries EXCEPT ![turn.queue] = 0] /\ RemoveHead
     ELSE retries' = [retries EXCEPT ![turn.queue] = tries] /\ UNCHANGED queue
  /\ NextTurn
  /\ UNCHANGED <<pushed, sent, lost>>

(* The queues are only in memory.                                           *)
restart ==
  /\ lost = {} /\ Waiting # {}
  /\ lost' = Waiting
  /\ queue' = [q \in Queues |-> <<>>]
  /\ retries' = [q \in Queues |-> 0]
  /\ turn' = [turn EXCEPT !.head = NoHead]
  /\ UNCHANGED <<pushed, failures, sent>>

send_messages == read_head \/ send_messages_ok \/ send_messages_failed

Next ==
  \/ \E q \in Queues, m \in Messages : enqueue_order_msg(q, m)
  \/ send_messages \/ restart

Spec == Init /\ [][Next]_vars

-----------------------------------------------------------------------------
(* Each queue is first in, first out, whatever is pushed while the head is  *)
(* being sent: what remains is the end of what was pushed.  And a message   *)
(* that has left was sent, dropped by a restart, or given up after its own  *)
(* four failed sends: failures of an earlier message of the queue, or of    *)
(* another queue, are not counted against it (scheduler.rs:118-121).        *)
GivenUpAfterFour ==
  \A q \in Queues :
    /\ EndOf(queue[q], pushed[q])
    /\ \A m \in Range(pushed[q]) \ Range(queue[q]) :
         m \in sent \cup lost \/ failures[m] = MaxRetries + 1
=============================================================================
