--------------------------- MODULE DutHistoryProofs -------------------------
(* What a late datagram can still do, on a network that does not duplicate:  *)
(* each one is sent once, so it is known which calls may still have one      *)
(* under way.  Every step of the driver, the network and the device is one   *)
(* of five kinds (Quiet, Serves, Begins, Again, Finishes) as far as the      *)
(* datagrams and the calls are concerned.                                    *)
EXTENDS DutLinkProofs

\* Nothing is sent or executed; a datagram may get lost.
Quiet ==
  /\ calls' = calls /\ correction' = correction
  /\ requests' \subseteq requests /\ replies' \subseteq replies
  /\ answer' = answer

\* A request is executed, whole or cut short, and perhaps replied to.
Serves(d, r) ==
  /\ d \in requests /\ requests' = requests \ {d}
  /\ r.call = d.call /\ r.attempt = d.attempt
  /\ replies' \in {replies, replies \cup {r}}
  /\ calls' = calls /\ answer' = answer
  /\ \/ correction' = correction /\ r.msg # "RSP_ACK"
     \/ /\ Corrects(calls[d.call].request) /\ r.msg = "RSP_ACK"
        /\ correction' = calls[d.call].request.arg
  /\ Corrects(calls[d.call].request) => r.msg = "RSP_ACK" \/ Cuts

\* A call is made, and sends its first request.
Begins ==
  /\ Len(calls') = Len(calls) + 1
  /\ \A n \in 1..Len(calls) : calls'[n] = calls[n]
  /\ calls'[Len(calls')].ending = "pending" /\ calls'[Len(calls')].attempts = 1
  /\ requests' = requests \cup {[call |-> Len(calls) + 1, attempt |-> 1]}
  /\ replies' \subseteq replies /\ correction' = correction
  /\ answer' = NoReply /\ Idle

\* The pending call sends another request.
Again ==
  /\ Waiting /\ Len(calls') = Len(calls)
  /\ calls'[Len(calls)] = [Current EXCEPT !.attempts = @ + 1]
  /\ \A n \in 1..Len(calls) : n # Len(calls) => calls'[n] = calls[n]
  /\ requests' = requests \cup {[call |-> Len(calls), attempt |-> Current.attempts + 1]}
  /\ replies' = replies /\ correction' = correction /\ answer' = answer

\* The pending call ends: by a reply that is used up, or without one.
Finishes(ending, r) ==
  /\ Waiting /\ ending # "pending" /\ Len(calls') = Len(calls)
  /\ calls'[Len(calls)] = [Current EXCEPT !.ending = ending]
  /\ \A n \in 1..Len(calls) : n # Len(calls) => calls'[n] = calls[n]
  /\ requests' = requests /\ correction' = correction
  /\ replies' \subseteq replies /\ answer' = r
  /\ \/ r = NoReply /\ ending \in {"protocol_error", "timeout", "os_error"}
     \/ /\ r \in replies /\ r \notin replies'
        /\ calls[r.call].request.msg = Current.request.msg
        /\ ending = "answered" => r.msg = Expected(Current.request)
        /\ ending = "refused" => r.msg = "RSP_NACK"
        /\ ending \in {"answered", "refused", "protocol_error"}

Kinds ==
  \/ Quiet \/ Begins \/ Again
  \/ \E d \in requests, r \in ReplyDatagram : Serves(d, r)
  \/ \E ending \in Endings, r \in ReplyDatagram \cup {NoReply} : Finishes(ending, r)

-----------------------------------------------------------------------------
LEMMA ServerKind ==
  ASSUME ~Duplicates, Inv, NEW d \in requests, ServerHandles(d)
  PROVE  Kinds
  <1> DEFINE request == calls[d.call].request
  <1>1. d.call \in 1..Len(calls) /\ request.msg \in ReqMsgs
    BY CallType DEF Inv, Sent
  <1>2. PICK r : r = Execute(d, request)
    OBVIOUS
  <1>3. Answers(d, r) /\ r \in ReplyDatagram
    BY <1>1, <1>2, ExecuteAnswers DEF Inv, Answers
  <1>4. r.call = d.call /\ r.attempt = d.attempt /\ (r.msg = "RSP_ACK" <=> Corrects(request))
    BY <1>1, <1>2 DEF Execute, Corrects, ReqMsgs, ReadMsgs
  <1>5. /\ requests' = requests \ {d} /\ replies' \in {replies, replies \cup {r}}
        /\ calls' = calls /\ answer' = answer
        /\ correction' = IF Corrects(request) THEN request.arg ELSE correction
    BY <1>2 DEF ServerHandles, driver
  <1>6. Serves(d, r)
    BY <1>4, <1>5 DEF Serves
  <1> QED BY <1>3, <1>6 DEF Kinds

LEMMA ServerCutKind ==
  ASSUME Inv, NEW d \in requests, ServerHandlesCut(d)
  PROVE  Kinds
  <1> DEFINE r == [call |-> d.call, attempt |-> d.attempt, msg |-> "RSP_NACK", echo |-> 0,
                   about |-> calls[d.call].request.msg, reading |-> NoReading]
  <1>1. d.call \in 1..Len(calls) /\ d.call \in 1..MaxTransactions /\ d.attempt \in 1..Retries
    BY DEF Inv, Sent, TypeOK, RequestDatagram
  <1>2. calls[d.call].request.msg \in ReqMsgs
    BY <1>1, CallType DEF Inv
  <1>3. r \in ReplyDatagram
    BY <1>1, <1>2, DutLinkAssumption DEF ReplyDatagram, RspMsgs, NoReading, Reading
  <1>4. Serves(d, r)
    BY DEF ServerHandlesCut, Serves, driver
  <1> QED BY <1>3, <1>4 DEF Kinds

LEMMA BeginKind ==
  ASSUME Inv, Connect \/ \E request \in Requests : Operation(request)
  PROVE  Kinds
  <1>1. PICK request \in Requests \cup {IdentRequest}, on \in 1..MaxSockets :
          /\ Transact(request, on) /\ Idle /\ replies' \subseteq replies
          /\ correction' = correction
    <2>1. CASE Connect
      <3>1. socket' \in 1..MaxSockets
        BY <2>1, DutLinkAssumption DEF Connect, Inv, TypeOK
      <3> QED BY <2>1, <3>1 DEF Connect
    <2>2. CASE \E request \in Requests : Operation(request)
      <3>1. socket \in 1..MaxSockets
        BY <2>2 DEF Operation, Inv, TypeOK
      <3> QED BY <2>2, <3>1 DEF Operation
    <2> QED BY <2>1, <2>2
  <1>2. TypeOK
    BY DEF Inv
  <1>3. /\ Len(calls') = Len(calls) + 1
        /\ calls'[Len(calls')] = [request |-> request, socket |-> on,
                                 attempts |-> 1, ending |-> "pending"]
        /\ \A n \in 1..Len(calls) : calls'[n] = calls[n]
        /\ requests' = requests \cup {[call |-> Len(calls) + 1, attempt |-> 1]}
        /\ answer' = NoReply
    BY <1>1, <1>2, TransactType
  <1> QED BY <1>1, <1>3 DEF Begins, Kinds

LEMMA RetryKind == ASSUME Inv, Retry PROVE Kinds
  BY RetryType DEF Inv, Retry, Again, Kinds

LEMMA FailureKind ==
  ASSUME Inv, GiveUp \/ SocketFails \/ \E r \in replies : ReceiveCut(r)
  PROVE  Kinds
  <1>1. PICK ending \in {"protocol_error", "timeout", "os_error"} :
          /\ Ends(ending, NoReply) /\ Waiting /\ replies' \subseteq replies
          /\ UNCHANGED <<requests, correction>>
    BY DEF GiveUp, SocketFails, ReceiveCut
  <1>2. ending \in Endings \ {"pending"}
    BY DEF Endings
  <1>3. /\ Len(calls') = Len(calls) /\ answer' = NoReply
        /\ calls'[Len(calls)] = [Current EXCEPT !.ending = ending]
        /\ \A n \in 1..Len(calls) : n # Len(calls) => calls'[n] = calls[n]
    BY <1>1, <1>2, EndsType DEF Inv
  <1>4. Finishes(ending, NoReply)
    BY <1>1, <1>2, <1>3 DEF Finishes
  <1> QED BY <1>2, <1>4 DEF Kinds

LEMMA ReceiveKind ==
  ASSUME ~Duplicates, Inv, NEW r \in replies, Receive(r)
  PROVE  Kinds
  <1>1. PICK verdict : verdict = Verdict(Current.request, r)
    OBVIOUS
  <1>2. Waiting /\ UNCHANGED <<requests, correction>> /\ r \in ReplyDatagram
    BY DEF Receive, Inv, TypeOK
  <1>3. CASE verdict = "discarded"
    BY <1>1, <1>2, <1>3 DEF Receive, Quiet, Kinds
  <1>4. CASE verdict # "discarded"
    <2>1. Ends(verdict, r) /\ replies' \subseteq replies /\ r \notin replies'
      BY <1>1, <1>4 DEF Receive
    <2>2. /\ verdict \in Endings \ {"pending"}
          /\ calls[r.call].request.msg = Current.request.msg
      BY <1>1, <1>2, <1>4, VerdictFits
    <2>3. /\ Len(calls') = Len(calls) /\ answer' = r
          /\ calls'[Len(calls)] = [Current EXCEPT !.ending = verdict]
          /\ \A n \in 1..Len(calls) : n # Len(calls) => calls'[n] = calls[n]
      BY <1>2, <2>1, <2>2, EndsType DEF Inv
    <2>4. /\ verdict \in {"answered", "refused", "protocol_error"}
          /\ verdict = "answered" => r.msg = Expected(Current.request)
          /\ verdict = "refused" => r.msg = "RSP_NACK"
      <3>1. CASE r.msg = "RSP_NACK"
        <4>1. Current.request.msg \in ReqMsgs
          BY <1>2, WaitingType, CallType DEF Inv
        <4>2. Expected(Current.request) # "RSP_NACK"
          BY <4>1 DEF Expected, ReqMsgs, ReadMsgs
        <4> QED BY <1>1, <1>4, <3>1, <4>2 DEF Verdict
      <3>2. CASE r.msg # "RSP_NACK"
        BY <1>1, <1>4, <3>2 DEF Verdict
      <3> QED BY <3>1, <3>2
    <2>5. Finishes(verdict, r)
      BY <1>2, <2>1, <2>2, <2>3, <2>4 DEF Finishes
    <2> QED BY <1>2, <2>2, <2>5 DEF Kinds
  <1> QED BY <1>3, <1>4

LEMMA StepKinds == ASSUME ~Duplicates, Inv, [Next]_vars PROVE Kinds
  <1>1. CASE \/ UNCHANGED vars \/ Tick \/ Disconnect \/ Reprogram
             \/ (\E d \in requests : LoseRequest(d)) \/ (\E r \in replies : LoseReply(r))
    <2>1. Quiet
      BY <1>1 DEF vars, driver, Tick, Disconnect, Reprogram, LoseRequest, LoseReply, Quiet
    <2> QED BY <2>1 DEF Kinds
  <1> QED
    BY <1>1, ServerKind, ServerCutKind, BeginKind, RetryKind, FailureKind, ReceiveKind
    DEF Next, Deadline

-----------------------------------------------------------------------------
(* Each attempt has one datagram under way at most, and a call that was not  *)
(* disturbed has none when it has ended.                                     *)

Unique ==
  /\ \A d \in requests : d.attempt =< calls[d.call].attempts
  /\ \A r \in replies : r.attempt =< calls[r.call].attempts
  /\ \A r \in replies : \A d \in requests : r.call # d.call \/ r.attempt # d.attempt
  /\ \A r, q \in replies : r.call = q.call /\ r.attempt = q.attempt => r = q

OneAtATime == \A n \in 1..Len(calls) : n # Len(calls) => calls[n].ending # "pending"

Gone(m) == (\A d \in requests : d.call # m) /\ (\A r \in replies : r.call # m)

Excused(m) ==
  \E n \in 1..m :
    /\ calls[n].socket = calls[m].socket
    /\ calls[n].request.msg = calls[m].request.msg
    /\ Disturbed(n)

Settled == \A m \in 1..Len(calls) : calls[m].ending # "pending" => Gone(m) \/ Excused(m)

History == ServiceInv /\ Unique /\ OneAtATime /\ Settled /\ StaleOnlyAfterRetry

\* The types that the lemmas below need.
LEMMA HistoryTypes ==
  ASSUME Inv
  PROVE  /\ Len(calls) \in Nat /\ Retries \in Nat
         /\ \A n \in 1..Len(calls) : calls[n] \in Call
         /\ \A n \in 1..Len(calls) : calls[n].attempts \in 1..Retries
         /\ \A d \in requests :
              d.call \in 1..Len(calls) /\ d.attempt \in 1..Retries
              /\ d = [call |-> d.call, attempt |-> d.attempt]
         /\ \A r \in replies :
              r.call \in 1..Len(calls) /\ r.attempt \in 1..Retries
              /\ calls[r.call].socket = socket
         /\ Waiting => Len(calls) \in 1..Len(calls) /\ Current = calls[Len(calls)]
  <1>1. Len(calls) \in Nat /\ Retries \in Nat
    BY DutLinkAssumption DEF Inv, TypeOK
  <1>2. \A n \in 1..Len(calls) : calls[n] \in Call /\ calls[n].attempts \in 1..Retries
    BY CallType DEF Inv, Call
  <1>3. \A d \in requests :
          d.call \in 1..Len(calls) /\ d.attempt \in 1..Retries
          /\ d = [call |-> d.call, attempt |-> d.attempt]
    BY DEF Inv, TypeOK, Sent, RequestDatagram
  <1>4. \A r \in replies :
          r.call \in 1..Len(calls) /\ r.attempt \in 1..Retries
          /\ calls[r.call].socket = socket
    BY DEF Inv, TypeOK, Delivered, RepliesTo, ReplyDatagram
  <1>5. Waiting => Len(calls) \in 1..Len(calls) /\ Current = calls[Len(calls)]
    BY WaitingType DEF Inv
  <1> QED BY <1>1, <1>2, <1>3, <1>4, <1>5

\* What is known of a call is not taken back.
Remains ==
  /\ Len(calls') \in Nat /\ Len(calls) =< Len(calls')
  /\ \A n \in 1..Len(calls) :
       /\ calls'[n].request = calls[n].request /\ calls'[n].socket = calls[n].socket
       /\ calls'[n].attempts \in Nat /\ calls[n].attempts =< calls'[n].attempts
       /\ calls[n].ending # "pending" => calls'[n].ending = calls[n].ending

LEMMA KindsRemain ==
  ASSUME Inv, Inv', OneAtATime, Kinds
  PROVE  Remains
  <1>0. /\ Len(calls) \in Nat /\ Len(calls') \in Nat
        /\ \A n \in 1..Len(calls) : calls[n] \in Call /\ calls[n].attempts \in 1..Retries
        /\ Waiting => Len(calls) \in 1..Len(calls) /\ Current = calls[Len(calls)]
    BY HistoryTypes DEF Inv, TypeOK
  <1>1. CASE calls' = calls
    BY <1>0, <1>1 DEF Remains
  <1>2. CASE Begins
    BY <1>0, <1>2 DEF Begins, Remains
  <1>3. CASE Again
    BY <1>0, <1>3 DEF Again, Remains, Call, Waiting
  <1>4. ASSUME NEW ending, NEW r, Finishes(ending, r)
        PROVE  Remains
    BY <1>0, <1>4 DEF Finishes, Remains, Call, Waiting
  <1> QED BY <1>1, <1>2, <1>3, <1>4 DEF Kinds, Quiet, Serves

LEMMA DisturbedRemains ==
  ASSUME Inv, Remains, NEW n \in 1..Len(calls), Disturbed(n)
  PROVE  Disturbed(n)'
  <1>1. calls[n].attempts \in Nat
    BY HistoryTypes
  <1>2. n \in 1..Len(calls')
    BY DEF Remains, Inv, TypeOK
  <1> QED BY <1>1 DEF Remains, Disturbed

LEMMA ExcusedRemains ==
  ASSUME Inv, Remains, NEW m \in 1..Len(calls), Excused(m)
  PROVE  Excused(m)'
  <1>1. PICK n \in 1..m :
          /\ calls[n].socket = calls[m].socket
          /\ calls[n].request.msg = calls[m].request.msg
          /\ Disturbed(n)
    BY DEF Excused
  <1>2. n \in 1..Len(calls)
    BY HistoryTypes
  <1>3. Disturbed(n)'
    BY <1>1, <1>2, DisturbedRemains
  <1> QED BY <1>1, <1>2, <1>3 DEF Excused, Remains

\* A call that is settled stays so in a step that sends nothing for it.
LEMMA SettledRemains ==
  ASSUME Inv, Settled, Remains, NEW m \in 1..Len(calls), calls[m].ending # "pending",
         \A d \in requests' : d.call = m => \E e \in requests : e.call = m,
         \A r \in replies' : r.call = m =>
           (\E e \in requests : e.call = m) \/ (\E q \in replies : q.call = m)
  PROVE  Gone(m)' \/ Excused(m)'
  <1>1. CASE Gone(m)
    BY <1>1 DEF Gone
  <1>2. CASE Excused(m)
    BY <1>2, ExcusedRemains
  <1> QED BY <1>1, <1>2 DEF Settled

LEMMA UniqueStep ==
  ASSUME Inv, Unique, Kinds, Inv'
  PROVE  Unique'
  <1>0. /\ Len(calls) \in Nat
        /\ \A n \in 1..Len(calls) : calls[n] \in Call /\ calls[n].attempts \in Nat
        /\ \A d \in requests :
             d.call \in 1..Len(calls) /\ d.attempt \in Nat
             /\ d = [call |-> d.call, attempt |-> d.attempt]
        /\ \A r \in replies : r.call \in 1..Len(calls) /\ r.attempt \in Nat
        /\ Waiting => Len(calls) \in 1..Len(calls) /\ Current = calls[Len(calls)]
    BY HistoryTypes
  <1>1. CASE Quiet
    BY <1>1 DEF Quiet, Unique
  <1>2. ASSUME NEW d, NEW r, Serves(d, r)
        PROVE  Unique'
    <2>1. /\ d \in requests /\ requests' = requests \ {d} /\ calls' = calls
          /\ r.call = d.call /\ r.attempt = d.attempt
          /\ replies' \subseteq replies \cup {r}
      BY <1>2 DEF Serves
    <2>2. \A e \in requests' : e.call # d.call \/ e.attempt # d.attempt
      BY <1>0, <2>1
    <2>3. \A q \in replies : q.call # r.call \/ q.attempt # r.attempt
      BY <2>1 DEF Unique
    <2> QED BY <2>1, <2>2, <2>3 DEF Unique
  <1>3. CASE Begins
    <2>1. /\ \A n \in 1..Len(calls) : calls'[n].attempts = calls[n].attempts
          /\ calls'[Len(calls) + 1].attempts = 1
          /\ requests' = requests \cup {[call |-> Len(calls) + 1, attempt |-> 1]}
          /\ replies' \subseteq replies
      BY <1>3 DEF Begins
    <2> QED BY <1>0, <2>1 DEF Unique
  <1>4. CASE Again
    <2>1. /\ Len(calls) \in 1..Len(calls)
          /\ calls'[Len(calls)].attempts = calls[Len(calls)].attempts + 1
          /\ \A n \in 1..Len(calls) : n # Len(calls) => calls'[n] = calls[n]
          /\ requests' = requests \cup
               {[call |-> Len(calls), attempt |-> calls[Len(calls)].attempts + 1]}
          /\ replies' = replies
      BY <1>0, <1>4 DEF Again, Call
    <2>2. \A n \in 1..Len(calls) : calls[n].attempts =< calls'[n].attempts
      BY <1>0, <2>1
    <2>3. /\ \A d \in requests : d.attempt =< calls'[d.call].attempts
          /\ \A r \in replies : r.attempt =< calls'[r.call].attempts
      <3>1. \A n \in 1..Len(calls) : calls'[n].attempts \in Nat
        BY <1>0, <2>1
      <3>2. \A n \in 1..Len(calls) : \A k \in Nat :
              k =< calls[n].attempts => k =< calls'[n].attempts
        BY <1>0, <2>2, <3>1
      <3>3. \A d \in requests : d.attempt =< calls'[d.call].attempts
        BY <1>0, <3>2 DEF Unique
      <3>4. \A r \in replies : r.attempt =< calls'[r.call].attempts
        BY <1>0, <3>2 DEF Unique
      <3> QED BY <3>3, <3>4
    <2>4. \A r \in replies : r.call # Len(calls) \/ r.attempt # calls[Len(calls)].attempts + 1
      BY <1>0, <2>1 DEF Unique
    <2> QED BY <1>0, <2>1, <2>3, <2>4 DEF Unique
  <1>5. ASSUME NEW ending, NEW r, Finishes(ending, r)
        PROVE  Unique'
    <2>1. /\ requests' = requests /\ replies' \subseteq replies
          /\ \A n \in 1..Len(calls) : calls'[n].attempts = calls[n].attempts
      BY <1>0, <1>5 DEF Finishes, Call
    <2> QED BY <1>0, <2>1 DEF Unique
  <1> QED BY <1>1, <1>2, <1>3, <1>4, <1>5 DEF Kinds

LEMMA OneAtATimeStep ==
  ASSUME Inv, OneAtATime, Kinds
  PROVE  OneAtATime'
  <1>0. /\ Len(calls) \in Nat
        /\ Waiting => Len(calls) \in 1..Len(calls) /\ Current = calls[Len(calls)]
    BY HistoryTypes
  <1>1. CASE calls' = calls
    BY <1>1 DEF OneAtATime
  <1>2. CASE Begins
    <2>1. \A n \in 1..Len(calls) : calls[n].ending # "pending"
      BY <1>0, <1>2 DEF Begins, OneAtATime, Idle, Waiting, Current
    <2> QED BY <1>0, <1>2, <2>1 DEF Begins, OneAtATime
  <1>3. CASE Again
    BY <1>0, <1>3 DEF Again, OneAtATime
  <1>4. ASSUME NEW ending, NEW r, Finishes(ending, r)
        PROVE  OneAtATime'
    BY <1>0, <1>4 DEF Finishes, OneAtATime
  <1> QED BY <1>1, <1>2, <1>3, <1>4 DEF Kinds, Quiet, Serves

\* A call that was sent once has no other datagram under way when its reply is
\* used up.
LEMMA LastReply ==
  ASSUME Inv, Unique, NEW m \in 1..Len(calls), calls[m].attempts = 1,
         NEW r \in replies, r.call = m, r \notin replies',
         requests' = requests, replies' \subseteq replies
  PROVE  Gone(m)'
  <1>1. \A d \in requests : d.call # m
    <2> SUFFICES ASSUME NEW d \in requests, d.call = m PROVE FALSE
      OBVIOUS
    <2>1. d.attempt = 1 /\ r.attempt = 1
      BY HistoryTypes DEF Unique
    <2> QED BY <2>1 DEF Unique
  <1>2. \A q \in replies' : q.call # m
    <2> SUFFICES ASSUME NEW q \in replies', q.call = m PROVE FALSE
      OBVIOUS
    <2>1. q \in replies /\ q # r
      OBVIOUS
    <2>2. q.attempt = 1 /\ r.attempt = 1
      BY <2>1, HistoryTypes DEF Unique
    <2> QED BY <2>1, <2>2 DEF Unique
  <1> QED BY <1>1, <1>2 DEF Gone

\* A reply that ends the pending call is its own, and the only datagram it had
\* if it was sent once; or it is that of a call that excuses this one too.
LEMMA FinishSettles ==
  ASSUME History, Inv', Remains, NEW ending, NEW r, Finishes(ending, r),
         NEW m \in 1..Len(calls), m = Len(calls)
  PROVE  Gone(m)' \/ Excused(m)'
  <1>0. /\ Inv /\ m \in 1..m /\ m \in 1..Len(calls) /\ Current = calls[m]
        /\ \A n \in 1..m : calls[n] \in Call
    BY HistoryTypes DEF History, ServiceInv, Finishes
  <1>1. /\ calls'[m] = [calls[m] EXCEPT !.ending = ending]
        /\ calls'[m].ending = ending /\ calls'[m].attempts = calls[m].attempts
        /\ requests' = requests /\ replies' \subseteq replies
    BY <1>0 DEF Finishes, Call
  <1>2. CASE r = NoReply \/ ending = "protocol_error" \/ calls[m].attempts > 1
    <2>1. r \in replies => r # NoReply
      BY <1>0, HistoryTypes DEF NoReply
    <2>2. r = NoReply => ending \in {"timeout", "os_error", "protocol_error"}
      BY <2>1 DEF Finishes
    <2>3. Disturbed(m)'
      BY <1>1, <1>2, <2>2 DEF Disturbed
    <2> QED BY <1>0, <2>3 DEF Excused
  <1>3. CASE r # NoReply /\ ending # "protocol_error" /\ ~(calls[m].attempts > 1)
    <2>1. /\ r \in replies /\ r \notin replies'
          /\ calls[r.call].request.msg = calls[m].request.msg
      BY <1>0, <1>3 DEF Finishes
    <2>2. r.call \in 1..m /\ calls[r.call].socket = socket /\ calls[m].socket = socket
      BY <1>0, <2>1, HistoryTypes DEF Inv, PendingHere, Finishes
    <2>3. CASE r.call = m
      <3>1. calls[m].attempts = 1
        BY <1>0, <1>3, HistoryTypes
      <3> QED BY <1>0, <1>1, <2>1, <2>3, <3>1, LastReply DEF History
    <2>4. CASE r.call # m
      <3>1. calls[r.call].ending # "pending" /\ ~Gone(r.call)
        BY <2>1, <2>2, <2>4 DEF History, OneAtATime, Gone
      <3>2. Excused(r.call)
        BY <2>2, <3>1 DEF History, Settled
      <3>3. Excused(m)
        BY <1>0, <2>1, <2>2, <3>2 DEF Excused
      <3> QED BY <1>0, <3>3, ExcusedRemains
    <2> QED BY <2>3, <2>4
  <1> QED BY <1>2, <1>3

LEMMA SettledStep ==
  ASSUME History, Kinds, Inv', Remains
  PROVE  Settled'
  <1>0. Inv /\ Settled /\ Unique /\ OneAtATime /\ Len(calls) \in Nat
        /\ (Waiting => Len(calls) \in 1..Len(calls) /\ Current = calls[Len(calls)])
    BY HistoryTypes DEF History, ServiceInv
  <1> SUFFICES ASSUME NEW m \in 1..Len(calls'), calls'[m].ending # "pending"
               PROVE  Gone(m)' \/ Excused(m)'
    BY DEF Settled
  <1>1. CASE Quiet
    <2>1. m \in 1..Len(calls) /\ calls[m].ending # "pending"
      BY <1>1 DEF Quiet
    <2> QED BY <1>0, <1>1, <2>1, SettledRemains DEF Quiet
  <1>2. ASSUME NEW d, NEW r, Serves(d, r)
        PROVE  Gone(m)' \/ Excused(m)'
    <2>1. m \in 1..Len(calls) /\ calls[m].ending # "pending"
      BY <1>2 DEF Serves
    <2> QED BY <1>0, <1>2, <2>1, SettledRemains DEF Serves
  <1>3. CASE Begins
    <2>1. m \in 1..Len(calls) /\ calls[m].ending # "pending"
      <3>1. m # Len(calls')
        BY <1>3 DEF Begins
      <3> QED BY <1>0, <1>3, <3>1 DEF Begins
    <2>2. /\ requests' = requests \cup {[call |-> Len(calls) + 1, attempt |-> 1]}
          /\ replies' \subseteq replies
      BY <1>3 DEF Begins
    <2>3. \A d \in requests' : d.call = m => d \in requests
      BY <1>0, <2>1, <2>2
    <2> QED BY <1>0, <2>1, <2>2, <2>3, SettledRemains
  <1>4. CASE Again
    <2>1. m \in 1..Len(calls) /\ m # Len(calls) /\ calls[m].ending # "pending"
      <3>1. calls'[Len(calls)].ending = "pending"
        BY <1>0, <1>4, HistoryTypes DEF Again, Call, Waiting
      <3> QED BY <1>0, <1>4, <3>1 DEF Again
    <2> QED BY <1>0, <1>4, <2>1, SettledRemains DEF Again
  <1>5. ASSUME NEW ending, NEW r, Finishes(ending, r)
        PROVE  Gone(m)' \/ Excused(m)'
    <2>1. CASE m = Len(calls)
      <3>1. m \in 1..Len(calls)
        BY <1>0, <1>5, <2>1 DEF Finishes
      <3> QED BY <1>5, <2>1, <3>1, FinishSettles
    <2>2. CASE m # Len(calls)
      <3>1. m \in 1..Len(calls) /\ calls[m].ending # "pending"
        BY <1>0, <1>5, <2>2 DEF Finishes
      <3> QED BY <1>0, <1>5, <3>1, SettledRemains DEF Finishes
    <2> QED BY <2>1, <2>2
  <1> QED BY <1>1, <1>2, <1>3, <1>4, <1>5 DEF Kinds

AnswerKnown == answer # NoReply => answer.call \in 1..Len(calls)

LEMMA StaleStep ==
  ASSUME History, AnswerKnown, Kinds, Inv', Remains
  PROVE  AnswerKnown' /\ StaleOnlyAfterRetry'
  <1>0. /\ Inv /\ Len(calls) \in Nat /\ Len(calls') \in Nat
        /\ (Waiting => Len(calls) \in 1..Len(calls) /\ Current = calls[Len(calls)])
    BY HistoryTypes DEF History, ServiceInv, Remains
  <1>1. CASE answer' = answer /\ Len(calls') = Len(calls)
    <2> SUFFICES ASSUME answer' # NoReply, answer.call # Len(calls)
                 PROVE  StaleOnlyAfterRetry'
      BY <1>1 DEF AnswerKnown, StaleOnlyAfterRetry
    <2>1. answer.call \in 1..Len(calls) /\ Len(calls) \in 1..Len(calls)
      BY <1>0, <1>1 DEF AnswerKnown
    <2>2. PICK n \in 1..answer.call :
            /\ calls[n].socket = Current.socket
            /\ calls[n].request.msg = Current.request.msg
            /\ Disturbed(n)
      BY <1>1 DEF History, StaleOnlyAfterRetry
    <2>3. n \in 1..Len(calls)
      BY <1>0, <2>1
    <2>4. Disturbed(n)'
      BY <1>0, <2>2, <2>3, DisturbedRemains
    <2>5. /\ calls'[n].socket = Current'.socket
          /\ calls'[n].request.msg = Current'.request.msg
      BY <1>1, <2>1, <2>2, <2>3 DEF Remains, Current
    <2>6. n \in 1..answer'.call
      BY <1>1
    <2> QED BY <2>4, <2>5, <2>6 DEF StaleOnlyAfterRetry
  <1>2. CASE Begins
    BY <1>2 DEF Begins, AnswerKnown, StaleOnlyAfterRetry
  <1>3. ASSUME NEW ending, NEW r, Finishes(ending, r)
        PROVE  AnswerKnown' /\ StaleOnlyAfterRetry'
    <2>1. CASE r = NoReply
      BY <1>3, <2>1 DEF Finishes, AnswerKnown, StaleOnlyAfterRetry
    <2>2. CASE r # NoReply
      <3>1. /\ r \in replies /\ answer' = r /\ Len(calls') = Len(calls)
            /\ calls[r.call].request.msg = Current.request.msg
            /\ Waiting
        BY <1>3, <2>2 DEF Finishes
      <3>2. /\ r.call \in 1..Len(calls) /\ calls[r.call].socket = socket
            /\ calls[Len(calls)].socket = socket
        BY <1>0, <3>1, HistoryTypes DEF Inv, PendingHere
      <3>3. AnswerKnown'
        BY <3>1, <3>2 DEF AnswerKnown
      <3> SUFFICES ASSUME r.call # Len(calls)
                   PROVE  StaleOnlyAfterRetry'
        BY <3>1, <3>3 DEF StaleOnlyAfterRetry
      <3>4. calls[r.call].ending # "pending" /\ ~Gone(r.call)
        BY <3>1, <3>2 DEF History, OneAtATime, Gone
      <3>5. Excused(r.call)
        BY <3>2, <3>4 DEF History, Settled
      <3>6. PICK n \in 1..r.call :
              /\ calls[n].socket = calls[r.call].socket
              /\ calls[n].request.msg = calls[r.call].request.msg
              /\ Disturbed(n)
        BY <3>5 DEF Excused
      <3>7. n \in 1..Len(calls)
        BY <1>0, <3>2
      <3>8. Disturbed(n)'
        BY <1>0, <3>6, <3>7, DisturbedRemains
      <3>9. Len(calls) \in 1..Len(calls) /\ Current = calls[Len(calls)]
        BY <1>0, <3>1
      <3>10. /\ calls'[n].socket = Current'.socket
             /\ calls'[n].request.msg = Current'.request.msg
        BY <3>1, <3>2, <3>6, <3>7, <3>9 DEF Remains, Current
      <3>11. n \in 1..answer'.call
        BY <3>1
      <3> QED BY <3>8, <3>10, <3>11 DEF StaleOnlyAfterRetry
    <2> QED BY <2>1, <2>2
  <1> QED BY <1>1, <1>2, <1>3 DEF Kinds, Quiet, Serves, Again

HistoryInv == History /\ AnswerKnown

LEMMA HistoryInit == Init => HistoryInv
  <1> SUFFICES ASSUME Init PROVE HistoryInv
    OBVIOUS
  <1>1. ServiceInv
    BY ServiceInit
  <1>2. calls = <<>> /\ requests = {} /\ replies = {} /\ answer = NoReply
    BY DEF Init
  <1> QED
    BY <1>1, <1>2
    DEF HistoryInv, History, Unique, OneAtATime, Settled, StaleOnlyAfterRetry, AnswerKnown

LEMMA HistoryStep ==
  ASSUME ~Duplicates, HistoryInv, [Next]_vars
  PROVE  HistoryInv'
  <1>1. Inv /\ ServiceInv' /\ Inv' /\ Kinds
    BY ServiceStep, StepKinds DEF HistoryInv, History, ServiceInv
  <1>2. Remains
    BY <1>1, KindsRemain DEF HistoryInv, History
  <1>3. Unique' /\ OneAtATime'
    BY <1>1, UniqueStep, OneAtATimeStep DEF HistoryInv, History
  <1>4. Settled'
    BY <1>1, <1>2, SettledStep DEF HistoryInv
  <1>5. AnswerKnown' /\ StaleOnlyAfterRetry'
    BY <1>1, <1>2, StaleStep DEF HistoryInv
  <1> QED BY <1>1, <1>3, <1>4, <1>5 DEF HistoryInv, History

\* On a network that duplicates nothing, however much it loses, delays and
\* reorders, a call is answered by the reply to another only after a retry or a
\* failure of a call of that kind on that socket.
THEOREM StaleAnswersFollowRetries ==
  ASSUME ~Duplicates
  PROVE  Spec => []StaleOnlyAfterRetry
  <1>1. HistoryInv /\ [Next]_vars => HistoryInv'
    BY HistoryStep
  <1>2. HistoryInv => StaleOnlyAfterRetry
    BY DEF HistoryInv, History
  <1> QED BY HistoryInit, <1>1, <1>2, PTL DEF Spec

-----------------------------------------------------------------------------
(* Which correction the device works with, on a network that duplicates      *)
(* nothing.  Only a correction that was retried or given up can arrive late, *)
(* so as long as none other than n was, and the ones after n were refused,   *)
(* what the device executed last is n.                                       *)
Only(n) == \A m \in 1..Len(calls) : m # n /\ SetsCorrection(m) => ~Disturbed(m)

Latest(n) ==
  /\ SetsCorrection(n) /\ calls[n].ending \in {"pending", "answered"} /\ Only(n)
  /\ \A m \in 1..Len(calls) : m > n /\ SetsCorrection(m) =>
       calls[m].ending \in {"refused", "pending"} /\ ~(Cuts /\ Disturbed(n))

Valid(n) == calls[n].request.arg \in ValidFactors

\* The device has executed n, as far as its replies tell.
Acked(n) ==
  calls[n].ending = "answered" \/ \E r \in replies : r.call = n /\ r.msg = "RSP_ACK"

\* A later correction that is pending has not been executed, or was refused.
Ahead(n) ==
  \A m \in 1..Len(calls) : m > n /\ SetsCorrection(m) /\ calls[m].ending = "pending" =>
    \/ \E d \in requests : d.call = m
    \/ \E r \in replies : r.call = m /\ r.msg = "RSP_NACK"

\* A factor in range is refused only for the length of a frame that was cut.
RefusedForCause ==
  \A r \in replies : r.msg = "RSP_NACK" /\ Corrects(calls[r.call].request) => Cuts

AnsweredIsValid ==
  \A n \in 1..Len(calls) :
    SetsCorrection(n) /\ calls[n].ending = "answered" /\ Only(n) => Valid(n)

RefusedIsGone ==
  \A n \in 1..Len(calls) : Latest(n) /\ Valid(n) =>
    \A m \in 1..Len(calls) :
      m > n /\ SetsCorrection(m) /\ calls[m].ending = "refused" => Gone(m)

Holds ==
  \A n \in 1..Len(calls) :
    Latest(n) /\ Acked(n) /\ Ahead(n) => correction = calls[n].request.arg

CorrectionInv ==
  HistoryInv /\ RefusedForCause /\ AnsweredIsValid /\ RefusedIsGone /\ Holds

-----------------------------------------------------------------------------
(* What a step may forget of a correction.                                   *)

LEMMA OnlyBefore ==
  ASSUME Inv, Remains, NEW n \in 1..Len(calls), Only(n)'
  PROVE  Only(n)
  <1> SUFFICES ASSUME NEW m \in 1..Len(calls), m # n, SetsCorrection(m), Disturbed(m)
               PROVE  FALSE
    BY DEF Only
  <1>1. Disturbed(m)' /\ SetsCorrection(m)' /\ m \in 1..Len(calls')
    BY DisturbedRemains DEF Remains, SetsCorrection, Inv, TypeOK
  <1> QED BY <1>1 DEF Only

LEMMA LatestBefore ==
  ASSUME Inv, Inv', Remains, NEW n \in 1..Len(calls), Latest(n)'
  PROVE  Latest(n)
  <1>1. Only(n)
    BY OnlyBefore DEF Latest
  <1>2. \A m \in 1..Len(calls) :
          /\ m \in 1..Len(calls') /\ (SetsCorrection(m)' <=> SetsCorrection(m))
          /\ calls[m].ending # "pending" => calls'[m].ending = calls[m].ending
    BY DEF Remains, SetsCorrection, Inv, TypeOK
  <1>3. SetsCorrection(n) /\ calls[n].ending \in {"pending", "answered"}
    BY <1>2 DEF Latest
  <1>4. Disturbed(n) => Disturbed(n)'
    BY DisturbedRemains
  <1>5. ASSUME NEW m \in 1..Len(calls), m > n, SetsCorrection(m)
        PROVE  calls[m].ending \in {"refused", "pending"} /\ ~(Cuts /\ Disturbed(n))
    BY <1>2, <1>4, <1>5 DEF Latest
  <1> QED BY <1>1, <1>3, <1>5 DEF Latest

\* Of the corrections but one that was disturbed, only that one may be late.
LEMMA LateCorrection ==
  ASSUME HistoryInv, NEW n \in 1..Len(calls), Only(n),
         NEW k \in 1..Len(calls), SetsCorrection(k), calls[k].ending # "pending", ~Gone(k)
  PROVE  n =< k /\ Disturbed(n)
  <1>1. Excused(k)
    BY DEF HistoryInv, History, Settled
  <1>2. PICK j \in 1..k : calls[j].request.msg = calls[k].request.msg /\ Disturbed(j)
    BY <1>1 DEF Excused
  <1>3. j \in 1..Len(calls) /\ SetsCorrection(j)
    BY <1>2 DEF SetsCorrection, HistoryInv, History, ServiceInv, Inv, TypeOK
  <1>4. j = n
    BY <1>2, <1>3 DEF Only
  <1> QED BY <1>2, <1>4

\* An acknowledgement is of a correction in range.
LEMMA AckIsValid ==
  ASSUME HistoryInv, NEW r \in replies, r.msg = "RSP_ACK"
  PROVE  r.call \in 1..Len(calls) /\ SetsCorrection(r.call) /\ Valid(r.call)
  <1>1. r.call \in 1..Len(calls)
    BY HistoryTypes DEF HistoryInv, History, ServiceInv
  <1>2. calls[r.call].request.msg \in ReqMsgs
    BY <1>1, CallType DEF HistoryInv, History, ServiceInv, Inv
  <1>3. r.msg \in {Expected(calls[r.call].request), "RSP_NACK"}
    BY DEF HistoryInv, History, ServiceInv, Inv, Delivered, RepliesTo
  <1>4. SetsCorrection(r.call)
    BY <1>2, <1>3 DEF Expected, ReqMsgs, ReadMsgs, SetsCorrection
  <1>5. Genuine(r)
    BY DEF HistoryInv, History, ServiceInv
  <1> QED BY <1>1, <1>4, <1>5 DEF Genuine, Valid

LEMMA AckedIsValid ==
  ASSUME HistoryInv, AnsweredIsValid, NEW n \in 1..Len(calls), Latest(n), Acked(n)
  PROVE  Valid(n)
  BY AckIsValid DEF Acked, AnsweredIsValid, Latest

-----------------------------------------------------------------------------
(* The reply that ends a correction is its own.                              *)

LEMMA OwnAnswer ==
  ASSUME HistoryInv, NEW n \in 1..Len(calls), n = Len(calls), SetsCorrection(n), Only(n),
         NEW r \in ReplyDatagram \cup {NoReply}, Finishes("answered", r)
  PROVE  r \in replies /\ r.msg = "RSP_ACK" /\ r.call = n
  <1>1. Inv /\ Current = calls[n]
    BY HistoryTypes DEF HistoryInv, History, ServiceInv, Finishes
  <1>2. r \in replies /\ r.msg = "RSP_ACK"
    BY <1>1 DEF Finishes, SetsCorrection, Expected
  <1>3. r.call \in 1..Len(calls) /\ SetsCorrection(r.call)
    BY <1>2, AckIsValid
  <1>4. ASSUME r.call # n PROVE FALSE
    <2>1. calls[r.call].ending # "pending" /\ ~Gone(r.call)
      BY <1>2, <1>3, <1>4 DEF HistoryInv, History, OneAtATime, Gone
    <2>2. n =< r.call
      BY <1>3, <2>1, LateCorrection
    <2> QED BY <1>1, <1>3, <1>4, <2>2 DEF Inv, TypeOK
  <1> QED BY <1>2, <1>4

LEMMA OwnRefusal ==
  ASSUME CorrectionInv, NEW n \in 1..Len(calls), Latest(n), Valid(n),
         NEW m \in 1..Len(calls), m = Len(calls), m > n, SetsCorrection(m),
         NEW r \in ReplyDatagram \cup {NoReply}, Finishes("refused", r)
  PROVE  r \in replies /\ r.msg = "RSP_NACK" /\ r.call = m
  <1>1. Inv /\ Current = calls[m] /\ HistoryInv /\ Len(calls) \in Nat
    BY HistoryTypes DEF CorrectionInv, HistoryInv, History, ServiceInv, Finishes
  <1>2. /\ r \in replies /\ r.msg = "RSP_NACK"
        /\ calls[r.call].request.msg = calls[m].request.msg
    BY <1>1 DEF Finishes
  <1>3. r.call \in 1..Len(calls) /\ SetsCorrection(r.call)
    BY <1>1, <1>2, HistoryTypes DEF SetsCorrection
  <1>4. ~(Cuts /\ Disturbed(n)) /\ Only(n)
    BY DEF Latest
  <1>5. ASSUME r.call # m PROVE FALSE
    <2>1. calls[r.call].ending # "pending" /\ ~Gone(r.call)
      BY <1>2, <1>3, <1>5 DEF CorrectionInv, HistoryInv, History, OneAtATime, Gone
    <2>2. n =< r.call /\ Disturbed(n)
      BY <1>1, <1>3, <1>4, <2>1, LateCorrection
    <2>3. CASE r.call = n
      <3>1. Corrects(calls[r.call].request)
        BY <1>3, <2>3 DEF Corrects, Valid, SetsCorrection
      <3> QED BY <1>2, <1>4, <2>2, <3>1 DEF CorrectionInv, RefusedForCause
    <2>4. CASE r.call # n
      <3>1. r.call > n
        BY <1>1, <1>3, <2>2, <2>4
      <3>2. calls[r.call].ending = "refused"
        BY <1>3, <2>1, <3>1 DEF Latest
      <3> QED BY <1>3, <2>1, <3>1, <3>2 DEF CorrectionInv, RefusedIsGone
    <2> QED BY <2>3, <2>4
  <1> QED BY <1>2, <1>5

-----------------------------------------------------------------------------
(* Every step keeps the four invariants.                                     *)

LEMMA CauseStep ==
  ASSUME CorrectionInv, Kinds, Remains
  PROVE  RefusedForCause'
  <1>0. /\ \A r \in replies : r.call \in 1..Len(calls)
        /\ \A d \in requests : d.call \in 1..Len(calls)
    BY HistoryTypes DEF CorrectionInv, HistoryInv, History, ServiceInv
  <1>1. \A n \in 1..Len(calls) : Corrects(calls'[n].request) => Corrects(calls[n].request)
    BY DEF Remains
  <1>2. ASSUME replies' \subseteq replies PROVE RefusedForCause'
    BY <1>0, <1>1, <1>2 DEF CorrectionInv, RefusedForCause
  <1>3. ASSUME NEW d, NEW r, Serves(d, r) PROVE RefusedForCause'
    <2>1. /\ replies' \subseteq replies \cup {r} /\ d \in requests /\ r.call = d.call
          /\ Corrects(calls[d.call].request) => r.msg = "RSP_ACK" \/ Cuts
      BY <1>3 DEF Serves
    <2> QED BY <1>0, <1>1, <2>1 DEF CorrectionInv, RefusedForCause
  <1> QED BY <1>2, <1>3 DEF Kinds, Quiet, Begins, Again, Finishes

LEMMA ValidStep ==
  ASSUME CorrectionInv, Kinds, Inv', Remains
  PROVE  AnsweredIsValid'
  <1>0. HistoryInv /\ Inv /\ Len(calls) \in Nat
    BY HistoryTypes DEF CorrectionInv, HistoryInv, History, ServiceInv
  <1> SUFFICES ASSUME NEW n \in 1..Len(calls'),
                      SetsCorrection(n)', calls'[n].ending = "answered", Only(n)'
               PROVE  Valid(n)'
    BY DEF AnsweredIsValid
  <1>1. CASE n \in 1..Len(calls) /\ calls[n].ending = "answered"
    BY <1>0, <1>1, OnlyBefore DEF CorrectionInv, AnsweredIsValid, Remains, SetsCorrection, Valid
  <1>2. CASE ~(n \in 1..Len(calls) /\ calls[n].ending = "answered")
    <2>1. PICK ending \in Endings, r \in ReplyDatagram \cup {NoReply} : Finishes(ending, r)
      BY <1>0, <1>2, HistoryTypes DEF Kinds, Quiet, Serves, Begins, Again, Call, Waiting
    <2>2. n \in 1..Len(calls) /\ n = Len(calls) /\ ending = "answered"
      BY <1>0, <1>2, <2>1, HistoryTypes DEF Finishes, Call
    <2>3. SetsCorrection(n) /\ Only(n)
      BY <1>0, <2>2, OnlyBefore DEF Remains, SetsCorrection
    <2>4. r \in replies /\ r.msg = "RSP_ACK" /\ r.call = n
      BY <1>0, <2>1, <2>2, <2>3, OwnAnswer
    <2> QED BY <1>0, <2>2, <2>4, AckIsValid DEF Remains, Valid
  <1> QED BY <1>1, <1>2

\* Nothing is sent for a call that has ended.
LEMMA GoneRemains ==
  ASSUME Inv, Kinds, OneAtATime, NEW m \in 1..Len(calls), calls[m].ending # "pending", Gone(m)
  PROVE  Gone(m)'
  <1>0. /\ Len(calls) \in Nat
        /\ (Waiting => Current = calls[Len(calls)] /\ calls[Len(calls)].ending = "pending")
    BY HistoryTypes DEF Waiting
  <1>1. CASE requests' \subseteq requests /\ replies' \subseteq replies
    BY <1>1 DEF Gone
  <1>2. ASSUME NEW d, NEW r, Serves(d, r) PROVE Gone(m)'
    BY <1>2 DEF Serves, Gone
  <1>3. CASE Begins
    <2>1. /\ requests' = requests \cup {[call |-> Len(calls) + 1, attempt |-> 1]}
          /\ replies' \subseteq replies /\ m # Len(calls) + 1
      BY <1>0, <1>3 DEF Begins
    <2> QED BY <2>1 DEF Gone
  <1>4. CASE Again
    <2>1. /\ requests' = requests \cup {[call |-> Len(calls), attempt |-> Current.attempts + 1]}
          /\ replies' = replies /\ m # Len(calls)
      BY <1>0, <1>4 DEF Again
    <2> QED BY <2>1 DEF Gone
  <1> QED BY <1>1, <1>2, <1>3, <1>4 DEF Kinds, Quiet, Finishes

LEMMA GoneStep ==
  ASSUME CorrectionInv, Kinds, Inv', Remains
  PROVE  RefusedIsGone'
  <1>0. HistoryInv /\ Inv /\ Unique /\ OneAtATime /\ Len(calls) \in Nat /\ Len(calls') \in Nat
    BY HistoryTypes DEF CorrectionInv, HistoryInv, History, ServiceInv, Remains
  <1> SUFFICES ASSUME NEW n \in 1..Len(calls'), Latest(n)', Valid(n)',
                      NEW m \in 1..Len(calls'),
                      m > n, SetsCorrection(m)', calls'[m].ending = "refused"
               PROVE  Gone(m)'
    BY DEF RefusedIsGone
  <1>1. m \in 1..Len(calls)
    <2>1. CASE Begins
      <3>1. m # Len(calls')
        BY <2>1 DEF Begins
      <3> QED BY <1>0, <2>1, <3>1 DEF Begins
    <2>2. CASE Len(calls') = Len(calls)
      BY <2>2
    <2> QED BY <2>1, <2>2 DEF Kinds, Quiet, Serves, Again, Finishes
  <1>2. n \in 1..Len(calls)
    BY <1>0, <1>1
  <1>3. SetsCorrection(m) /\ Latest(n) /\ Valid(n)
    BY <1>0, <1>1, <1>2, LatestBefore DEF Remains, SetsCorrection, Valid
  <1>4. CASE calls[m].ending = "refused"
    <2>1. Gone(m)
      BY <1>1, <1>2, <1>3, <1>4 DEF CorrectionInv, RefusedIsGone
    <2> QED BY <1>0, <1>1, <1>4, <2>1, GoneRemains
  <1>5. CASE calls[m].ending # "refused"
    <2>1. PICK ending \in Endings, r \in ReplyDatagram \cup {NoReply} : Finishes(ending, r)
      BY <1>0, <1>1, <1>5, HistoryTypes DEF Kinds, Quiet, Serves, Begins, Again, Call, Waiting
    <2>2. m = Len(calls) /\ ending = "refused"
      BY <1>0, <1>1, <1>5, <2>1, HistoryTypes DEF Finishes, Call
    <2>3. r \in replies /\ r.call = m
      BY <1>1, <1>2, <1>3, <2>1, <2>2, OwnRefusal
    <2>4. calls[m].attempts = 1
      <3>1. ~Disturbed(m)'
        BY <1>3 DEF Latest, Only
      <3>2. calls[m].attempts \in 1..Retries /\ calls'[m].attempts \in Nat
        BY <1>0, <1>1, HistoryTypes DEF Remains
      <3>3. ~(calls'[m].attempts > 1) /\ calls[m].attempts =< calls'[m].attempts
        BY <1>1, <3>1 DEF Disturbed, Remains
      <3> QED BY <1>0, <3>2, <3>3, HistoryTypes
    <2>5. r \notin replies' /\ requests' = requests /\ replies' \subseteq replies
      BY <2>1, <2>2 DEF Finishes
    <2> QED BY <1>0, <1>1, <2>3, <2>4, <2>5, LastReply
  <1> QED BY <1>4, <1>5

\* A step that executes nothing, and after which n is acked and ahead, leaves
\* it so.
LEMMA HoldsKept ==
  ASSUME CorrectionInv, Inv', Remains, NEW n \in 1..Len(calls), Latest(n)',
         Acked(n)' => Acked(n), Ahead(n)' => Ahead(n), correction' = correction,
         Acked(n)', Ahead(n)'
  PROVE  correction' = calls'[n].request.arg
  <1>1. Inv
    BY DEF CorrectionInv, HistoryInv, History, ServiceInv
  <1>2. Latest(n)
    BY <1>1, LatestBefore
  <1> QED BY <1>2 DEF CorrectionInv, Holds, Remains

LEMMA HoldsBegins ==
  ASSUME CorrectionInv, Begins, Inv', Remains, NEW n \in 1..Len(calls'),
         Latest(n)', Acked(n)', Ahead(n)'
  PROVE  correction' = calls'[n].request.arg
  <1>0. /\ Len(calls) \in Nat /\ Inv /\ OneAtATime
        /\ \A r \in replies : r.call \in 1..Len(calls)
    BY HistoryTypes DEF CorrectionInv, HistoryInv, History, ServiceInv
  <1>1. n \in 1..Len(calls)
    <2> SUFFICES ASSUME n = Len(calls) + 1 PROVE FALSE
      BY <1>0 DEF Begins
    <2>1. calls'[n].ending = "pending"
      BY DEF Begins
    <2>2. PICK r \in replies' : r.call = n
      BY <2>1 DEF Acked
    <2> QED BY <1>0, <2>2 DEF Begins
  <1>2. Acked(n)' => Acked(n)
    BY <1>1 DEF Begins, Acked
  <1>3. \A m \in 1..Len(calls) : calls[m].ending # "pending"
    BY <1>0 DEF Begins, OneAtATime, Idle, Waiting, Current
  <1>4. Ahead(n)
    BY <1>3 DEF Ahead
  <1> QED BY <1>1, <1>2, <1>4, HoldsKept DEF Begins

LEMMA HoldsAgain ==
  ASSUME CorrectionInv, Again, Inv', Remains, NEW n \in 1..Len(calls'),
         Latest(n)', Acked(n)', Ahead(n)'
  PROVE  correction' = calls'[n].request.arg
  <1>0. /\ Len(calls) \in Nat /\ Inv /\ OneAtATime
        /\ Len(calls) \in 1..Len(calls) /\ Current = calls[Len(calls)]
        /\ Current.attempts \in 1..Retries /\ Retries \in Nat
        /\ calls[Len(calls)] \in Call
    BY HistoryTypes DEF CorrectionInv, HistoryInv, History, ServiceInv, Again
  <1>1. n \in 1..Len(calls)
    BY DEF Again
  <1>2. PICK k : k = Len(calls)
    OBVIOUS
  <1>3. calls'[k].attempts = calls[k].attempts + 1 /\ calls'[k].ending = calls[k].ending
    BY <1>0, <1>2 DEF Again, Call
  <1>4. Disturbed(k)'
    BY <1>0, <1>2, <1>3 DEF Disturbed
  <1>5. k # n => ~SetsCorrection(k)
    <2>1. k \in 1..Len(calls') /\ (SetsCorrection(k) => SetsCorrection(k)')
      BY <1>0, <1>2 DEF Again, Remains, SetsCorrection
    <2> QED BY <1>4, <2>1 DEF Latest, Only
  <1>6. Ahead(n)
    BY <1>0, <1>1, <1>2, <1>5 DEF Ahead, OneAtATime
  <1>7. calls'[n].ending = calls[n].ending
    BY <1>1, <1>2, <1>3 DEF Again
  <1>8. Acked(n)' => Acked(n)
    BY <1>7 DEF Again, Acked
  <1> QED BY <1>1, <1>6, <1>8, HoldsKept DEF Again

LEMMA HoldsFinishes ==
  ASSUME CorrectionInv, Inv', Remains, NEW n \in 1..Len(calls'),
         NEW ending \in Endings, NEW r \in ReplyDatagram \cup {NoReply}, Finishes(ending, r),
         Latest(n)', Acked(n)', Ahead(n)'
  PROVE  correction' = calls'[n].request.arg
  <1>0. /\ Len(calls) \in Nat /\ Inv /\ OneAtATime /\ HistoryInv /\ AnsweredIsValid
        /\ Len(calls) \in 1..Len(calls) /\ calls[Len(calls)] \in Call
    BY HistoryTypes DEF CorrectionInv, HistoryInv, History, ServiceInv, Finishes
  <1>1. n \in 1..Len(calls)
    BY DEF Finishes
  <1>2. Latest(n)
    BY <1>0, <1>1, LatestBefore
  <1>3. calls'[Len(calls)].ending = ending
    BY <1>0, HistoryTypes DEF Finishes, Call
  <1>4. Acked(n)
    <2>1. CASE n # Len(calls)
      BY <1>1, <2>1 DEF Acked, Finishes
    <2>2. CASE n = Len(calls) /\ ending = "answered"
      <3>1. r \in replies /\ r.msg = "RSP_ACK" /\ r.call = n
        BY <1>0, <1>1, <1>2, <2>2, OwnAnswer DEF Latest
      <3> QED BY <3>1 DEF Acked
    <2>3. CASE n = Len(calls) /\ ending # "answered"
      BY <1>3, <2>3 DEF Acked, Finishes
    <2> QED BY <2>1, <2>2, <2>3
  <1>5. Valid(n)
    BY <1>0, <1>1, <1>2, <1>4, AckedIsValid
  <1>6. ASSUME NEW m \in 1..Len(calls), m > n, SetsCorrection(m), calls[m].ending = "pending"
        PROVE  \E q \in replies : q.call = m /\ q.msg = "RSP_NACK"
    <2>1. m = Len(calls)
      BY <1>0, <1>6 DEF OneAtATime
    <2>2. m \in 1..Len(calls') /\ SetsCorrection(m)'
      BY <1>6 DEF Finishes, Remains, SetsCorrection
    <2>3. ending = "refused"
      BY <1>3, <1>6, <2>1, <2>2 DEF Latest, Finishes
    <2>4. r \in replies /\ r.msg = "RSP_NACK" /\ r.call = m
      BY <1>1, <1>2, <1>5, <1>6, <2>1, <2>3, OwnRefusal
    <2> QED BY <2>4
  <1>7. Ahead(n)
    BY <1>6 DEF Ahead
  <1> QED BY <1>1, <1>4, <1>7, HoldsKept DEF Finishes

LEMMA HoldsQuiet ==
  ASSUME CorrectionInv, Quiet, Inv', Remains, NEW n \in 1..Len(calls'),
         Latest(n)', Acked(n)', Ahead(n)'
  PROVE  correction' = calls'[n].request.arg
  <1>1. n \in 1..Len(calls)
    BY DEF Quiet
  <1>2. Acked(n)' => Acked(n)
    BY DEF Quiet, Acked
  <1>3. Ahead(n)' => Ahead(n)
    BY DEF Quiet, Ahead, SetsCorrection
  <1> QED BY <1>1, <1>2, <1>3, HoldsKept DEF Quiet

\* A correction that the device executes is n, for another one would be late,
\* gone, or not ahead any more.
LEMMA ExecutedIsLatest ==
  ASSUME CorrectionInv, NEW d \in requests, NEW r, Serves(d, r), r.msg = "RSP_ACK",
         SetsCorrection(d.call), NEW n \in 1..Len(calls), Latest(n), Valid(n), Ahead(n)'
  PROVE  d.call = n
  <1>0. /\ Len(calls) \in Nat /\ Inv /\ HistoryInv /\ OneAtATime /\ Unique
        /\ d.call \in 1..Len(calls)
    BY HistoryTypes DEF CorrectionInv, HistoryInv, History, ServiceInv
  <1> SUFFICES ASSUME d.call # n PROVE FALSE
    OBVIOUS
  <1>1. ~Gone(d.call)
    BY DEF Gone
  <1>2. d.call > n
    <2> SUFFICES ASSUME d.call < n PROVE FALSE
      BY <1>0
    <2>1. calls[d.call].ending # "pending"
      BY <1>0 DEF OneAtATime
    <2>2. n =< d.call
      BY <1>0, <1>1, <2>1, LateCorrection DEF Latest
    <2> QED BY <1>0, <2>2
  <1>3. ~Disturbed(d.call) /\ calls[d.call].ending \in {"refused", "pending"}
    BY <1>0, <1>2 DEF Latest, Only
  <1>4. calls[d.call].ending = "pending"
    BY <1>0, <1>1, <1>2, <1>3 DEF CorrectionInv, RefusedIsGone
  <1>5. d.attempt = 1 /\ calls[d.call].attempts = 1
    BY <1>0, <1>3, HistoryTypes DEF Disturbed, Unique
  <1>6. \A e \in requests' : e.call # d.call
    <2> SUFFICES ASSUME NEW e \in requests', e.call = d.call PROVE FALSE
      OBVIOUS
    <2>1. e \in requests /\ e # d
      BY DEF Serves
    <2>2. e.attempt = 1
      BY <1>0, <1>5, <2>1, HistoryTypes DEF Unique
    <2> QED BY <1>0, <1>5, <2>1, <2>2, HistoryTypes
  <1>7. \A q \in replies' : q.call = d.call => q.msg # "RSP_NACK"
    <2> SUFFICES ASSUME NEW q \in replies', q.call = d.call, q.msg = "RSP_NACK" PROVE FALSE
      OBVIOUS
    <2>1. q \in replies
      BY DEF Serves
    <2>2. q.attempt = 1
      BY <1>0, <1>5, <2>1, HistoryTypes DEF Unique
    <2> QED BY <1>0, <1>5, <2>1, <2>2 DEF Unique
  <1>8. calls' = calls
    BY DEF Serves
  <1> QED BY <1>0, <1>2, <1>4, <1>6, <1>7, <1>8 DEF Ahead, SetsCorrection

LEMMA HoldsServes ==
  ASSUME CorrectionInv, Inv', Remains, NEW n \in 1..Len(calls'),
         NEW d \in requests, NEW r \in ReplyDatagram, Serves(d, r),
         Latest(n)', Acked(n)', Ahead(n)'
  PROVE  correction' = calls'[n].request.arg
  <1>0. /\ Inv /\ HistoryInv /\ AnsweredIsValid /\ n \in 1..Len(calls) /\ calls' = calls
        /\ d.call \in 1..Len(calls)
        /\ replies' \in {replies, replies \cup {r}} /\ requests' = requests \ {d}
        /\ r.call = d.call
    BY HistoryTypes DEF CorrectionInv, HistoryInv, History, ServiceInv, Serves
  <1>1. Latest(n)
    BY <1>0, LatestBefore
  <1>2. CASE r.msg # "RSP_ACK"
    <2>1. correction' = correction
      BY <1>2 DEF Serves
    <2>2. Acked(n)' => Acked(n)
      BY <1>0, <1>2 DEF Acked
    <2>3. Ahead(n)' => Ahead(n)
      BY <1>0 DEF Ahead, SetsCorrection
    <2> QED BY <1>0, <2>1, <2>2, <2>3, HoldsKept
  <1>3. CASE r.msg = "RSP_ACK" /\ d.call = n
    BY <1>0, <1>3 DEF Serves
  <1>4. CASE r.msg = "RSP_ACK" /\ d.call # n
    <2>1. Acked(n)
      BY <1>0, <1>4 DEF Acked
    <2>2. Valid(n)
      BY <1>0, <1>1, <2>1, AckedIsValid
    <2>3. CASE Corrects(calls[d.call].request)
      <3>1. SetsCorrection(d.call)
        BY <2>3 DEF Corrects, SetsCorrection
      <3> QED BY <1>0, <1>1, <1>4, <2>2, <3>1, ExecutedIsLatest
    <2>4. CASE ~Corrects(calls[d.call].request)
      BY <1>4, <2>4 DEF Serves
    <2> QED BY <2>3, <2>4
  <1> QED BY <1>2, <1>3, <1>4

LEMMA HoldsStep ==
  ASSUME CorrectionInv, Kinds, Inv', Remains
  PROVE  Holds'
  <1> SUFFICES ASSUME NEW n \in 1..Len(calls'), Latest(n)', Acked(n)', Ahead(n)'
               PROVE  correction' = calls'[n].request.arg
    BY DEF Holds
  <1> QED
    BY HoldsQuiet, HoldsBegins, HoldsAgain, HoldsFinishes, HoldsServes DEF Kinds

-----------------------------------------------------------------------------
LEMMA CorrectionInit == Init => CorrectionInv
  <1> SUFFICES ASSUME Init PROVE CorrectionInv
    OBVIOUS
  <1>1. calls = <<>> /\ replies = {} /\ HistoryInv
    BY HistoryInit DEF Init
  <1> QED
    BY <1>1 DEF CorrectionInv, RefusedForCause, AnsweredIsValid, RefusedIsGone, Holds

LEMMA CorrectionStep ==
  ASSUME ~Duplicates, CorrectionInv, [Next]_vars
  PROVE  CorrectionInv'
  <1>1. HistoryInv /\ Inv /\ ServiceInv /\ OneAtATime
    BY DEF CorrectionInv, HistoryInv, History, ServiceInv
  <1>2. HistoryInv' /\ Inv' /\ Kinds
    BY <1>1, HistoryStep, StepKinds DEF HistoryInv, History, ServiceInv
  <1>3. Remains
    BY <1>1, <1>2, KindsRemain
  <1> QED
    BY <1>2, <1>3, CauseStep, ValidStep, GoneStep, HoldsStep DEF CorrectionInv

LEMMA CorrectionHolds == CorrectionInv => AckedCorrectionHolds
  <1> SUFFICES ASSUME CorrectionInv, NEW n \in 1..Len(calls),
                      SetsCorrection(n), calls[n].ending = "answered",
                      \A m \in 1..Len(calls) \ {n} : SetsCorrection(m) =>
                        /\ ~Disturbed(m)
                        /\ m > n => calls[m].ending = "refused" /\ ~(Cuts /\ Disturbed(n))
               PROVE  correction = calls[n].request.arg
    BY DEF AckedCorrectionHolds
  <1>1. Latest(n)
    BY DEF Latest, Only
  <1>2. Acked(n) /\ Ahead(n)
    <2>1. ASSUME NEW m \in 1..Len(calls), m > n, SetsCorrection(m)
          PROVE  calls[m].ending = "refused"
      <3>1. m # n
        BY <2>1 DEF CorrectionInv, HistoryInv, History, ServiceInv, Inv, TypeOK
      <3> QED BY <2>1, <3>1
    <2> QED BY <2>1 DEF Acked, Ahead
  <1> QED BY <1>1, <1>2 DEF CorrectionInv, Holds

\* On a network that duplicates nothing, and may lose, delay, reorder and cut
\* short, the device works with the last correction it acknowledged as long as
\* no other correction was retried or given up.
THEOREM AcknowledgedCorrectionsHold ==
  ASSUME ~Duplicates
  PROVE  Spec => []AckedCorrectionHolds
  <1>1. CorrectionInv /\ [Next]_vars => CorrectionInv'
    BY CorrectionStep
  <1> QED BY CorrectionInit, <1>1, CorrectionHolds, PTL DEF Spec
=============================================================================
