------------------------------ MODULE Gateway ------------------------------
(***************************************************************************)
(* The way of a request through a server process (backend/main.py): the    *)
(* LoggingMiddleware, installed last and so outermost, around the rate     *)
(* limiter, around the handler; and the OperationsRateTracker that the     *)
(* logging middleware feeds and GET /operations/metrics reads.             *)
(*                                                                         *)
(* Middlewares run on the event loop, so that a time stamp is taken and    *)
(* appended before the next one; handlers and readers run in pool threads, *)
(* and a reader takes its time before it waits for the tracker's lock.     *)
(***************************************************************************)
EXTENDS RateLimiter, Sequences

CONSTANTS
  Connections,  \* requests one process may have in hand
  Readers,      \* pool threads that serve GET /operations/metrics
  Paths,        \* "login", "register", "transfer", "other"
  BucketOf,     \* path -> the bucket its requests count in (lines 92-106)
  MaxCalls      \* bound: requests a process answers

ASSUME PathsAssumption == BucketOf \in [Paths -> Buckets] /\ MaxCalls \in Nat

Categories == {"transactions", "logins", "registrations", "errors_4xx", "errors_5xx"}

VARIABLES
  calls,    \* process -> connection -> the request in hand
  events,   \* process -> category -> time stamps, oldest first (the deques)
  reader,   \* process -> thread -> what its get_rates has computed
  served    \* process -> every request answered so far (not in the code)

tracking == <<calls, events, reader, served>>
gvars    == <<vars, tracking>>

NoCall == [path |-> "none", status |-> 0]
NoRead == [on |-> FALSE, cutoff |-> 0]

GatewayInit ==
  /\ Init
  /\ calls = [p \in Processes |-> [s \in Connections |-> NoCall]]
  /\ events = [p \in Processes |-> [c \in Categories |-> <<>>]]
  /\ reader = [p \in Processes |-> [r \in Readers |-> NoRead]]
  /\ served = [p \in Processes |-> <<>>]

-----------------------------------------------------------------------------
(* Requests.  A status stands for its class: 200 for success, 400 for what *)
(* the handler refuses, 500 for an HTTPException(500).                     *)

Busy(p) == Cardinality({s \in Connections : calls[p][s] # NoCall})

(* dispatch of the rate limiter: the handler is called or 429 answered.    *)
Arrive(p, s, client, path) ==
  LET k == <<client, BucketOf[path]>> IN
  /\ calls[p][s] = NoCall
  /\ Len(served[p]) + Busy(p) < MaxCalls
  /\ \/ Admit(p, k) /\ calls' = [calls EXCEPT ![p][s] = [path |-> path, status |-> 1]]
     \/ Refuse(p, k) /\ calls' = [calls EXCEPT ![p][s] = [path |-> path, status |-> 429]]
  /\ UNCHANGED <<events, reader, served>>

CategoriesOf(path, status) ==
  {c \in Categories :
     \/ c = "errors_5xx" /\ status >= 500
     \/ c = "errors_4xx" /\ status \in 400..499
     \/ c = "logins" /\ path = "login"
     \/ c = "registrations" /\ path = "register" /\ status = 200
     \/ c = "transactions" /\ path = "transfer" /\ status = 200}

(* The response passes the logging middleware.                             *)
Log(p, path, status) ==
  /\ events' = [events EXCEPT ![p] =
        [c \in Categories |-> IF c \in CategoriesOf(path, status)
                              THEN Append(@[c], now) ELSE @[c]]]
  /\ served' = [served EXCEPT ![p] =
        Append(@, [path |-> path, status |-> status, at |-> now])]

Respond(p, s) ==
  LET call == calls[p][s] IN
  /\ call # NoCall
  /\ \E status \in (IF call.status = 429 THEN {429} ELSE {200, 400, 500}) :
        Log(p, call.path, status)
  /\ calls' = [calls EXCEPT ![p][s] = NoCall]
  /\ UNCHANGED <<vars, reader>>

(* An exception no handler catches passes call_next as an exception: the   *)
(* client gets 500 from the outermost layer and nothing is recorded.       *)
Raise(p, s) ==
  /\ calls[p][s] # NoCall /\ calls[p][s].status = 1
  /\ calls' = [calls EXCEPT ![p][s] = NoCall]
  /\ UNCHANGED <<vars, events, reader, served>>

-----------------------------------------------------------------------------
(* get_rates: the time is taken, then the lock; old stamps leave at the    *)
(* head and the rest is counted.                                           *)

ReadClock(p, r) ==
  /\ ~ reader[p][r].on
  /\ reader' = [reader EXCEPT ![p][r] = [on |-> TRUE, cutoff |-> now - Window]]
  /\ UNCHANGED <<vars, calls, events, served>>

(* Slip: a stamp at the very edge of the window is dropped.                *)
SlipKept(stamps, cutoff) ==
  LET old == {i \in DOMAIN stamps : \A j \in 1..i : stamps[j] <= cutoff}
  IN SubSeq(stamps, Cardinality(old) + 1, Len(stamps))

Kept(stamps, cutoff) ==
  LET old == {i \in DOMAIN stamps : \A j \in 1..i : stamps[j] < cutoff}
  IN SubSeq(stamps, Cardinality(old) + 1, Len(stamps))

Sweep(p, r) ==
  /\ reader[p][r].on
  /\ events' = [events EXCEPT ![p] =
        [c \in Categories |-> Kept(events[p][c], reader[p][r].cutoff)]]
  /\ reader' = [reader EXCEPT ![p][r] = NoRead]
  /\ UNCHANGED <<vars, calls, served>>

(* The count that Sweep returns for a category.                            *)
CountNow(p, r, c) == Len(Kept(events[p][c], reader[p][r].cutoff))

-----------------------------------------------------------------------------

RestartProcess(p) ==
  /\ Restart(p)
  /\ calls' = [calls EXCEPT ![p] = [s \in Connections |-> NoCall]]
  /\ events' = [events EXCEPT ![p] = [c \in Categories |-> <<>>]]
  /\ reader' = [reader EXCEPT ![p] = [r \in Readers |-> NoRead]]
  /\ served' = [served EXCEPT ![p] = <<>>]

GatewayNext ==
  \/ Tick /\ UNCHANGED tracking
  \/ \E p \in Processes :
        \/ RestartProcess(p)
        \/ \E s \in Connections :
              \/ \E client \in Clients, path \in Paths : Arrive(p, s, client, path)
              \/ Respond(p, s) \/ Raise(p, s)
        \/ \E r \in Readers : ReadClock(p, r) \/ Sweep(p, r)

GatewaySpec == GatewayInit /\ [][GatewayNext]_gvars

-----------------------------------------------------------------------------

(* What a category should have counted from a time on.                     *)
Happened(p, c, from) ==
  {i \in DOMAIN served[p] :
     /\ served[p][i].at >= from
     /\ CASE c = "logins" -> served[p][i].path = "login"
          [] c = "registrations" -> served[p][i].path = "register" /\ served[p][i].status = 200
          [] c = "transactions" -> served[p][i].path = "transfer" /\ served[p][i].status = 200
          [] c = "errors_4xx" -> served[p][i].status \in {400, 429}
          [] c = "errors_5xx" -> served[p][i].status = 500}

(* The counts a reader is about to show are right up to the time it has    *)
(* waited for the lock: no answered request of the last window is missing, *)
(* though other readers have pruned the same deques with a later cutoff,   *)
(* and none from before the reader's own window is included; refused       *)
(* logins count, refused registrations and transfers do not               *)
(* (operations_service.py:36-53, logging_middleware.py:24-34).             *)
CountsAreTrue ==
  \A p \in Processes, r \in Readers, c \in Categories : reader[p][r].on =>
     /\ CountNow(p, r, c) >= Cardinality(Happened(p, c, now - Window))
     /\ CountNow(p, r, c) <= Cardinality(Happened(p, c, reader[p][r].cutoff))
=============================================================================
