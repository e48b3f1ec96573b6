------------------------------- MODULE Server -------------------------------
(***************************************************************************)
(* The RESP3 server (internal/protocol/resp3/server.go): the accept loop   *)
(* with its connection limit, a goroutine per connection with MULTI, EXEC  *)
(* and DISCARD, and Close.  The commands are those of Keyspace.            *)
(***************************************************************************)
EXTENDS Keyspace, Sequences

CONSTANTS
  MaxConns,  \* maxConns
  MaxQueue,  \* bound: commands queued by a MULTI
  Queueable  \* bound: the commands clients send inside a MULTI

ASSUME ServerAssumption ==
  MaxConns \in Nat \ {0} /\ MaxQueue \in Nat /\ Queueable \subseteq Command

VARIABLES
  phase,        \* of a connection: off; in the accept loop, accepted, admitted and
                \*   counted; open; leaving
  activeConns,  \* the counter
  inMulti,      \* the connection is between MULTI and EXEC
  queue,        \* commands queued
  todo,         \* commands EXEC has still to run
  closing       \* Close: not called ("no"), waiting for the handlers, done

connVars == <<phase, activeConns, inMulti, queue, todo, closing>>
vars == <<keyVars, connVars>>

Init ==
  /\ KeyInit
  /\ phase = [c \in Conn |-> "off"]
  /\ activeConns = 0
  /\ inMulti = [c \in Conn |-> FALSE]
  /\ queue = [c \in Conn |-> <<>>]
  /\ todo = [c \in Conn |-> <<>>]
  /\ closing = "no"

-----------------------------------------------------------------------------
(* ListenAndServe.                                                         *)

Move(c, ph) == phase' = [phase EXCEPT ![c] = ph]

(* The loop works on the connection: it takes the next one after the go    *)
(* statement.                                                              *)
InLoop(d) == phase[d] \in {"accepted", "admitted", "counted"}

(* A mutant of Accept: the loop does not end with the listener.            *)
AcceptAlways(c) ==
  /\ phase[c] = "off"
  /\ \A d \in Conn : ~InLoop(d)
  /\ Move(c, "accepted")
  /\ UNCHANGED <<keyVars, activeConns, inMulti, queue, todo, closing>>

(* Accept returns a connection.                                            *)
Accept(c) ==
  /\ closing = "no"
  /\ phase[c] = "off"
  /\ \A d \in Conn : ~InLoop(d)
  /\ Move(c, "accepted")
  /\ UNCHANGED <<keyVars, activeConns, inMulti, queue, todo, closing>>

(* A mutant of AtLimit: one connection too many.                           *)
PastLimit == activeConns > MaxConns

AtLimit == activeConns >= MaxConns

(* The counter is read, and the connection turned away or not ...          *)
Admit(c) ==
  /\ phase[c] = "accepted"
  /\ Move(c, IF AtLimit THEN "off" ELSE "admitted")
  /\ UNCHANGED <<keyVars, activeConns, inMulti, queue, todo, closing>>

(* ... counted, while goroutines of others end ...                         *)
Count(c) ==
  /\ phase[c] = "admitted"
  /\ Move(c, "counted")
  /\ activeConns' = activeConns + 1
  /\ UNCHANGED <<keyVars, inMulti, queue, todo, closing>>

(* ... and given a goroutine that Close waits for.  The listener may have  *)
(* been closed since.                                                      *)
Spawn(c) ==
  /\ phase[c] = "counted"
  /\ Move(c, "open")
  /\ UNCHANGED <<keyVars, activeConns, inMulti, queue, todo, closing>>

-----------------------------------------------------------------------------
(* handleConnection.                                                       *)

(* readCommand is waiting for the client.                                  *)
Waiting(c) == phase[c] = "open" /\ job[c].pc = "idle" /\ todo[c] = <<>>

(* A mutant of HangUp: the counter is taken down twice.                    *)
HangUpTwice(c) ==
  /\ Waiting(c)
  /\ Move(c, "leaving")
  /\ activeConns' = activeConns - 2
  /\ inMulti' = [inMulti EXCEPT ![c] = FALSE]
  /\ queue' = [queue EXCEPT ![c] = <<>>]
  /\ UNCHANGED <<keyVars, todo, closing>>

(* The client is gone, and of the deferred calls the decrement runs first; *)
HangUp(c) ==
  /\ Waiting(c)
  /\ Move(c, "leaving")
  /\ activeConns' = activeConns - 1
  /\ inMulti' = [inMulti EXCEPT ![c] = FALSE]
  /\ queue' = [queue EXCEPT ![c] = <<>>]
  /\ UNCHANGED <<keyVars, todo, closing>>

(* the socket is closed and Close told afterwards.                         *)
Leave(c) ==
  /\ phase[c] = "leaving"
  /\ Move(c, "off")
  /\ UNCHANGED <<keyVars, activeConns, inMulti, queue, todo, closing>>

(* A command outside MULTI is run at once.                                 *)
Run(c, m) ==
  /\ Waiting(c)
  /\ ~inMulti[c]
  /\ Begin(c, m)
  /\ UNCHANGED <<store, keyTypes, faults>>
  /\ UNCHANGED connVars

Multi(c) ==
  /\ Waiting(c)
  /\ ~inMulti[c]
  /\ inMulti' = [inMulti EXCEPT ![c] = TRUE]
  /\ queue' = [queue EXCEPT ![c] = <<>>]
  /\ UNCHANGED <<keyVars, phase, activeConns, todo, closing>>

Queue(c, m) ==
  /\ Waiting(c)
  /\ inMulti[c]
  /\ Len(queue[c]) < MaxQueue
  /\ queue' = [queue EXCEPT ![c] = Append(@, m)]
  /\ UNCHANGED <<keyVars, phase, activeConns, inMulti, todo, closing>>

Discard(c) ==
  /\ Waiting(c)
  /\ inMulti[c]
  /\ inMulti' = [inMulti EXCEPT ![c] = FALSE]
  /\ queue' = [queue EXCEPT ![c] = <<>>]
  /\ UNCHANGED <<keyVars, phase, activeConns, todo, closing>>

(* EXEC: the queue is worked through, one command after the other.         *)
Exec(c) ==
  /\ Waiting(c)
  /\ inMulti[c]
  /\ inMulti' = [inMulti EXCEPT ![c] = FALSE]
  /\ todo' = [todo EXCEPT ![c] = queue[c]]
  /\ queue' = [queue EXCEPT ![c] = <<>>]
  /\ UNCHANGED <<keyVars, phase, activeConns, closing>>

(* A mutant of ExecNext: the queue is not left behind.                     *)
ExecAgain(c) ==
  /\ phase[c] = "open"
  /\ job[c].pc = "idle"
  /\ todo[c] # <<>>
  /\ Begin(c, Head(todo[c]))
  /\ UNCHANGED <<store, keyTypes, faults>>
  /\ UNCHANGED connVars

ExecNext(c) ==
  /\ phase[c] = "open"
  /\ job[c].pc = "idle"
  /\ todo[c] # <<>>
  /\ Begin(c, Head(todo[c]))
  /\ todo' = [todo EXCEPT ![c] = Tail(@)]
  /\ UNCHANGED <<store, keyTypes, faults>>
  /\ UNCHANGED <<phase, activeConns, inMulti, queue, closing>>

-----------------------------------------------------------------------------
(* Close: no more connections, and wait for the goroutines there are.      *)
Close ==
  /\ closing = "no"
  /\ closing' = "waiting"
  /\ UNCHANGED <<keyVars, phase, activeConns, inMulti, queue, todo>>

CloseReturns ==
  /\ closing = "waiting"
  /\ \A c \in Conn : phase[c] \notin {"open", "leaving"}
  /\ closing' = "done"
  /\ UNCHANGED <<keyVars, phase, activeConns, inMulti, queue, todo>>

Keys(c) == CommandStep(c) /\ UNCHANGED connVars

Next ==
  \/ \E c \in Conn :
       \/ Accept(c) \/ Admit(c) \/ Count(c) \/ Spawn(c) \/ HangUp(c) \/ Leave(c)
       \/ Multi(c) \/ Discard(c) \/ Exec(c) \/ ExecNext(c)
       \/ \E m \in Command : Run(c, m)
       \/ \E m \in Queueable : Queue(c, m)
       \/ Keys(c)
  \/ \E p \in Path : Vanish(p) /\ UNCHANGED connVars
  \/ \E p \in Fed : Refresh(p) /\ UNCHANGED connVars
  \/ Close
  \/ CloseReturns

Spec == Init /\ [][Next]_vars

(* The goroutines of the server run on; nothing is assumed of the clients. *)
Fairness ==
  /\ WF_vars(CloseReturns)
  /\ \A c \in Conn :
       WF_vars(Admit(c) \/ Count(c) \/ Spawn(c) \/ ExecNext(c) \/ Keys(c) \/ Leave(c))

FairSpec == Spec /\ Fairness

-----------------------------------------------------------------------------
(* Every variable has its type.                                            *)
TypeOK ==
  /\ KeyTypeOK
  /\ phase \in [Conn -> {"off", "accepted", "admitted", "counted", "open", "leaving"}]
  /\ activeConns \in 0..Cardinality(Conn)
  /\ inMulti \in [Conn -> BOOLEAN]
  /\ \A c \in Conn : /\ queue[c] \in Seq(Command) /\ Len(queue[c]) <= MaxQueue
                      /\ todo[c] \in Seq(Command) /\ Len(todo[c]) <= MaxQueue
  /\ closing \in {"no", "waiting", "done"}

(* Never are more than maxConns connections served, although the loop      *)
(* checks the counter in one operation and raises it in another: what it   *)
(* does with one connection is over before it accepts the next, and the    *)
(* goroutines only lower the counter.  A socket that is still to be closed *)
(* is not counted any more (ListenAndServe, the deferred calls of          *)
(* handleConnection).                                                      *)
WithinLimit == Cardinality({c \in Conn : phase[c] \in {"counted", "open"}}) <= MaxConns

(* Close leaves no connection behind but the one the accept loop held when *)
(* it was called, which may be registered after Close has returned: the    *)
(* loop is not waited for (ListenAndServe, Close).                         *)
ClosedButOne ==
  closing = "done" => Cardinality({c \in Conn : phase[c] # "off"}) <= 1

(* With one connection at a time and no append failed, a live value of a   *)
(* key that is no column of the database is never replaced by one of       *)
(* another type, except by SETEX, and by HSET writing a field, which check *)
(* nothing about the path they write; nor does it change its type when     *)
(* another key's record, which is its own, loses elements (assertKeyType,  *)
(* the shape checks of the handlers, NewEConst).                           *)
TypeStable ==
  [][\A p \in Path \ Fed :
       /\ MaxConns = 1 /\ faults' = 0 /\ Live(p) /\ store[p].n > 0
       /\ Live(p)' /\ store'[p].n > 0 /\ store'[p].type # store[p].type
       => \E c \in Conn : /\ job[c].pc = "put" /\ Cmd(c).path = p
                          /\ Cmd(c).op \in {"setex", "hset"}]_vars

(* If every client that is waited for hangs up sooner or later, Close      *)
(* returns, whatever commands and transactions are under way.              *)
CloseTerminates ==
  (\A c \in Conn : SF_vars(HangUp(c))) => (closing = "waiting" ~> closing = "done")

=============================================================================
