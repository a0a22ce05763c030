----------------------- MODULE ConversationLifecycle -----------------------
(***************************************************************************)
(* One conversation row and the requests that change it, at the level of   *)
(* single database statements.                                             *)
(*                                                                         *)
(* ConversationService (customer API, resolve button), WebhookService      *)
(* (webhook view, Roam poller) and the idle check all work the same way:   *)
(* they read the row, decide on that snapshot, and write a few columns     *)
(* back with save(update_fields=...), with no lock in between.  Only the   *)
(* analyst reply writes message, row and event in one transaction.         *)
(*                                                                         *)
(* Abstracted: last_message_at and ages (see IdleCheck), Roam and SSE,     *)
(* requests of a user who does not own the conversation (they write        *)
(* nothing), and idempotency keys (see CustomerRequests and                *)
(* WebhookIngestion: here every request is a fresh one).  The idle check   *)
(* may find any age, since any time may pass between two steps.            *)
(* Names ending in Mutant are deliberate slips, see ConversationRow.       *)
(***************************************************************************)
EXTENDS FiniteSets, ConversationRow

CONSTANTS
  Workers,       \* request threads and Celery processes that share the row
  MaxRequests,   \* bound: requests begun in a behaviour
  MaxCrashes     \* bound: requests cut off between two statements

ASSUME LifecycleAssumption == MaxRequests \in Nat /\ MaxCrashes \in Nat

VARIABLES
  row,        \* the Conversation row; 0 stands for a null time
  messages,   \* messages[k]: Message rows of kind k written since creation
  newest,     \* who wrote the newest human message
  events,     \* events[k]: EventLog rows of kind k
  req,        \* req[w]: the request worker w executes
  clock,      \* requests begun so far; a request stamps with its own number
  crashes,    \* requests cut off so far
  stale,      \* history: the latest save was decided on a status that had changed
  heard       \* history: the clock when the first reply was stored, 0 before

history == <<stale, heard>>

vars == <<row, messages, newest, events, req, clock, crashes, stale, heard>>

-----------------------------------------------------------------------------
MessageKinds == {"send", "reply", "resolve", "close", "reopen",
                 "autoresolve", "autoclose"}
EventKinds == {"send", "reply", "resolve", "close", "reopen"}

Ops   == MessageKinds \cup {"none"}
Steps == {"idle", "check", "message", "save", "note", "event", "txn"}

Requests == [op : Ops, step : Steps, seen : Rows, now : Times]

NoRequest == [op |-> "none", step |-> "idle", seen |-> NewRow, now |-> 0]

TypeOK ==
  /\ row \in Rows
  /\ messages \in [MessageKinds -> Nat]
  /\ newest \in {"customer", "analyst"}
  /\ events \in [EventKinds -> Nat]
  /\ req \in [Workers -> Requests]
  /\ clock \in Nat
  /\ crashes \in Nat
  /\ stale \in BOOLEAN
  /\ heard \in Nat

Init ==
  /\ row = NewRow
  /\ messages = [k \in MessageKinds |-> 0]
  /\ newest = "customer"
  /\ events = [k \in EventKinds |-> 0]
  /\ req = [w \in Workers |-> NoRequest]
  /\ clock = 0
  /\ crashes = 0
  /\ stale = FALSE
  /\ heard = 0

-----------------------------------------------------------------------------
(* Shared forms of a step. *)

At(w, op, step) == req[w].op = op /\ req[w].step = step

\* Read the row into the request's snapshot and take the request's time.
Begin(w, op, step) ==
  /\ req[w].op = "none"
  /\ clock < MaxRequests
  /\ clock' = clock + 1
  /\ req' = [req EXCEPT ![w] = [op |-> op, step |-> step, seen |-> row, now |-> clock + 1]]
  /\ UNCHANGED <<row, messages, newest, events, crashes, history>>

Goto(w, step) == req' = [req EXCEPT ![w].step = step]
Finish(w)     == req' = [req EXCEPT ![w] = NoRequest]

\* What a save notes for the history: whether the status it was decided on is
\* still the row's.
Decided(w) == stale' = (req[w].seen.status # row.status)

AddMessage(kind) == messages' = [messages EXCEPT ![kind] = @ + 1]
AddEvent(kind)   == events' = [events EXCEPT ![kind] = @ + 1]

\* _create_system_message after a save; the row is not touched again.
Note(w, op) ==
  /\ At(w, op, "note")
  /\ AddMessage(op)
  /\ UNCHANGED <<row, newest, events, clock, crashes, history>>

\* EventLog.objects.create, the last statement of an operation.
Record(w, op) ==
  /\ At(w, op, "event")
  /\ AddEvent(op)
  /\ Finish(w)
  /\ UNCHANGED <<row, messages, newest, clock, crashes, history>>

-----------------------------------------------------------------------------
(* send_message: read, Message row, save, EventLog row. *)

SendRead(w) == row.status # "closed" /\ Begin(w, "send", "message")

SendMessage(w) ==
  /\ At(w, "send", "message")
  /\ AddMessage("send")
  /\ newest' = "customer"
  /\ Goto(w, "save")
  /\ UNCHANGED <<row, events, clock, crashes, history>>

SendSave(w) ==
  /\ At(w, "send", "save")
  /\ Decided(w)
  /\ row' = AfterSend(row, req[w].seen)
  /\ Goto(w, "event")
  /\ UNCHANGED <<messages, newest, events, clock, crashes, heard>>

SendRecord(w) == Record(w, "send")

Send(w) == SendRead(w) \/ SendMessage(w) \/ SendSave(w) \/ SendRecord(w)

-----------------------------------------------------------------------------
(* handle_chat_message: read by thread key, then one transaction. *)

ReplyRead(w) == Begin(w, "reply", "txn")

ReplyCommit(w) ==
  /\ At(w, "reply", "txn")
  /\ AddMessage("reply")
  /\ newest' = "analyst"
  /\ Decided(w)
  /\ row' = AfterReply(row, req[w].seen, req[w].now)
  /\ heard' = IF heard = 0 THEN clock ELSE heard
  /\ AddEvent("reply")
  /\ Finish(w)
  /\ UNCHANGED <<clock, crashes>>

Reply(w) == ReplyRead(w) \/ ReplyCommit(w)

-----------------------------------------------------------------------------
(* resolve_conversation, close_conversation, reopen_conversation. *)

ResolveRead(w) == row.status \in Resolvable /\ Begin(w, "resolve", "save")

ResolveSaveMutant(w) ==   \* the event is recorded first
  /\ At(w, "resolve", "save")
  /\ Decided(w)
  /\ row' = AfterResolve(row, req[w].now)
  /\ Goto(w, "event")
  /\ UNCHANGED <<messages, newest, events, clock, crashes, heard>>

ResolveSave(w) ==
  /\ At(w, "resolve", "save")
  /\ Decided(w)
  /\ row' = AfterResolve(row, req[w].now)
  /\ Goto(w, "note")
  /\ UNCHANGED <<messages, newest, events, clock, crashes, heard>>

ResolveNote(w)   == Note(w, "resolve") /\ Goto(w, "event")
ResolveRecord(w) == Record(w, "resolve")

Resolve(w) == ResolveRead(w) \/ ResolveSave(w) \/ ResolveNote(w) \/ ResolveRecord(w)

CloseRead(w) == row.status \in Closeable /\ Begin(w, "close", "save")

CloseSave(w) ==
  /\ At(w, "close", "save")
  /\ Decided(w)
  /\ row' = AfterClose(row, req[w].now)
  /\ Goto(w, "note")
  /\ UNCHANGED <<messages, newest, events, clock, crashes, heard>>

CloseNote(w)   == Note(w, "close") /\ Goto(w, "event")
CloseRecord(w) == Record(w, "close")

Close(w) == CloseRead(w) \/ CloseSave(w) \/ CloseNote(w) \/ CloseRecord(w)

ReopenRead(w) == row.status \in Reopenable /\ Begin(w, "reopen", "save")

ReopenSave(w) ==
  /\ At(w, "reopen", "save")
  /\ Decided(w)
  /\ row' = AfterReopen(row)
  /\ Goto(w, "note")
  /\ UNCHANGED <<messages, newest, events, clock, crashes, heard>>

ReopenNote(w)   == Note(w, "reopen") /\ Goto(w, "event")
ReopenRecord(w) == Record(w, "reopen")

Reopen(w) == ReopenRead(w) \/ ReopenSave(w) \/ ReopenNote(w) \/ ReopenRecord(w)

-----------------------------------------------------------------------------
(* The two branches of check_idle_conversations that write the row. *)

\* The query of _check_customer_idle picks the conversation ...
AutoResolveQuery(w) == row.status = "waiting_customer" /\ Begin(w, "autoresolve", "check")

\* ... a second query skips it when it was auto-resolved before ...
AutoResolveCheck(w) ==
  /\ At(w, "autoresolve", "check")
  /\ IF messages["autoresolve"] > 0 THEN Finish(w) ELSE Goto(w, "save")
  /\ UNCHANGED <<row, messages, newest, events, clock, crashes, history>>

\* ... and the snapshot of the first query is saved.
AutoResolveSave(w) ==
  /\ At(w, "autoresolve", "save")
  /\ Decided(w)
  /\ row' = AfterResolve(row, req[w].now)
  /\ Goto(w, "note")
  /\ UNCHANGED <<messages, newest, events, clock, crashes, heard>>

AutoResolveNote(w) == Note(w, "autoresolve") /\ Finish(w)

AutoResolve(w) ==
  AutoResolveQuery(w) \/ AutoResolveCheck(w) \/ AutoResolveSave(w) \/ AutoResolveNote(w)

AutoCloseQuery(w) ==
  row.status = "resolved" /\ row.resolved_at # 0 /\ Begin(w, "autoclose", "save")

AutoCloseSaveMutant(w) ==   \* no system message
  /\ At(w, "autoclose", "save")
  /\ Decided(w)
  /\ row' = AfterClose(row, req[w].now)
  /\ Finish(w)
  /\ UNCHANGED <<messages, newest, events, clock, crashes, heard>>

AutoCloseSave(w) ==
  /\ At(w, "autoclose", "save")
  /\ Decided(w)
  /\ row' = AfterClose(row, req[w].now)
  /\ Goto(w, "note")
  /\ UNCHANGED <<messages, newest, events, clock, crashes, heard>>

AutoCloseNote(w) == Note(w, "autoclose") /\ Finish(w)

AutoClose(w) == AutoCloseQuery(w) \/ AutoCloseSave(w) \/ AutoCloseNote(w)

-----------------------------------------------------------------------------
\* A worker is killed, or a statement raises, between two statements: what
\* was committed stays, the rest of the request is lost.
Crash(w) ==
  /\ req[w].op # "none"
  /\ crashes < MaxCrashes
  /\ crashes' = crashes + 1
  /\ Finish(w)
  /\ UNCHANGED <<row, messages, newest, events, clock, history>>

Next == \E w \in Workers :
  \/ Send(w)
  \/ Reply(w)
  \/ Resolve(w)
  \/ Close(w)
  \/ Reopen(w)
  \/ AutoResolve(w)
  \/ AutoClose(w)
  \/ Crash(w)

Spec == Init /\ [][Next]_vars

-----------------------------------------------------------------------------
(* Properties that hold however requests overlap and crash. *)

\* A closed conversation has a closing time and a resolved one a resolution
\* time (analytics and the auto-close query filter on them), although the
\* status and the two times are written from stale snapshots by five writers.
StampsFollowStatus ==
  /\ row.status = "closed" => row.closed_at # 0
  /\ row.status = "resolved" => row.resolved_at # 0

\* The first-response time is set exactly when an analyst message exists: the
\* transaction of the reply writes both, and no other save takes it back.
AnsweredIsStamped == messages["reply"] > 0 <=> row.first_response_at # 0

\* While the conversation is queued nothing has been done to it: no analyst
\* has written, nobody resolved, closed or reopened it.  QUEUED is left for
\* good, also when a save comes from a snapshot that is out of date.
QueuedIsUntouched ==
  row.status = "queued" =>
    /\ row = NewRow
    /\ \A k \in MessageKinds \ {"send"} : messages[k] = 0

InFlight(op, step) == Cardinality({w \in Workers : At(w, op, step)})

\* The audit trail: an event never precedes the message it tells about, a
\* message misses its event only while its request is between the two
\* statements or after a crash, and a reply has both or neither.
AuditTrail ==
  /\ events["reply"] = messages["reply"]
  /\ \A k \in {"resolve", "close", "reopen"} :
       /\ events[k] + InFlight(k, "event") <= messages[k]
       /\ messages[k] <= events[k] + InFlight(k, "event") + crashes
  /\ events["send"] + InFlight("send", "save") + InFlight("send", "event") <= messages["send"]

\* A conversation is only found closed or resolved after the customer was
\* told so in the thread, unless the telling is still under way or crashed.
EndIsAnnounced ==
  LET Told(auto, manual) ==
        \/ messages[auto] + messages[manual] > 0
        \/ InFlight(auto, "note") + InFlight(manual, "note") > 0
        \/ crashes > 0
  IN  /\ row.status = "closed" => Told("autoclose", "close")
      /\ row.status = "resolved" => Told("autoresolve", "resolve")

\* The SLA stamp: however replies overlap, the time of the first response is
\* the time of a reply that was under way when the first one was stored.  A
\* reply that began afterwards never moves it.
FirstResponseKept ==
  row.first_response_at # 0 => row.first_response_at <= heard

\* When no request is in progress (and none was cut off) a conversation whose
\* newest message is the customer's does not wait for the customer, unless
\* the latest save was decided on a status that had changed since.
TurnIsRight ==
  (crashes = 0 /\ (\A w \in Workers : req[w].op = "none") /\ newest = "customer")
    => row.status # "waiting_customer" \/ stale

Contract == INSTANCE ConversationContract WITH
  status <- row.status,
  answered <- row.first_response_at # 0,
  stamped <- row.closed_at # 0,
  overtaken <- stale

\* The statement-level lifecycle implements the contract: a save whose
\* snapshot still shows the row's status is one legal step of its operation,
\* and an overtaken one does no more damage than the contract concedes.
ImplementsContract == Contract!Spec

=============================================================================
