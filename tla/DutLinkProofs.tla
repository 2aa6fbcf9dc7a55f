---------------------------- MODULE DutLinkProofs ---------------------------
(* Theorems about DutLink: for any number of retries, sockets, transactions  *)
(* and requests, and any network, with or without duplicates.                *)
EXTENDS DutLink, TLAPS

LEMMA RequestType ==
  \A request \in Requests \cup {IdentRequest} :
    request.msg \in ReqMsgs /\ request.arg \in Int
  BY DutLinkAssumption DEF IdentRequest, ReqMsgs, ReadMsgs

\* A call that was made has its type, and so has what it asks.
LEMMA CallType ==
  ASSUME TypeOK, NEW n \in 1..Len(calls)
  PROVE  /\ n \in 1..MaxTransactions
         /\ calls[n] \in Call
         /\ calls[n].request \in Requests \cup {IdentRequest}
         /\ calls[n].request.msg \in ReqMsgs /\ calls[n].request.arg \in Int
  <1>1. calls[n] \in Call /\ n \in 1..MaxTransactions
    BY DutLinkAssumption DEF TypeOK
  <1>2. calls[n].request \in Requests \cup {IdentRequest}
    BY <1>1 DEF Call
  <1> QED BY <1>1, <1>2, RequestType

-----------------------------------------------------------------------------
(* Types.                                                                    *)

\* What the device makes of a request it receives is a reply to that request.
Answers(d, r) ==
  LET request == calls[d.call].request IN
  /\ r \in ReplyDatagram
  /\ r.call = d.call /\ r.about = request.msg
  /\ r.msg \in {Expected(request), "RSP_NACK"}
  /\ r.msg = "RSP_ANALOG" => r.echo = request.arg

LEMMA ExecuteAnswers ==
  ASSUME TypeOK, NEW d \in requests, d.call \in 1..Len(calls)
  PROVE  Answers(d, Execute(d, calls[d.call].request))
  <1> DEFINE request == calls[d.call].request
  <1>1. d.call \in 1..MaxTransactions /\ d.attempt \in 1..Retries
    BY DEF TypeOK, RequestDatagram
  <1>3. request.msg \in ReqMsgs /\ request.arg \in Int
    BY CallType
  <1>4. NoReading \in Reading
    BY DutLinkAssumption DEF NoReading, Reading
  <1>5. /\ [world |-> world, correction |-> Unity] \in Reading
        /\ [world |-> world, correction |-> correction] \in Reading
    BY DutLinkAssumption DEF Reading, TypeOK
  <1> DEFINE datagram(msg, echo, reading) ==
               [call |-> d.call, attempt |-> d.attempt, msg |-> msg, echo |-> echo,
                about |-> request.msg, reading |-> reading]
  <1>6. ASSUME NEW msg \in RspMsgs, NEW echo \in Int, NEW reading \in Reading
        PROVE  /\ datagram(msg, echo, reading) \in ReplyDatagram
               /\ datagram(msg, echo, reading).call = d.call
               /\ datagram(msg, echo, reading).about = request.msg
               /\ datagram(msg, echo, reading).msg = msg
               /\ datagram(msg, echo, reading).echo = echo
    BY <1>1, <1>3 DEF ReplyDatagram
  <1>7. ASSUME NEW msg \in {Expected(request), "RSP_NACK"}, msg \in RspMsgs,
               NEW echo \in Int, NEW reading \in Reading,
               msg = "RSP_ANALOG" => echo = request.arg,
               Execute(d, request) = datagram(msg, echo, reading)
        PROVE  Answers(d, Execute(d, request))
    <2> HIDE DEF datagram
    <2> QED BY <1>6, <1>7 DEF Answers
  <1>8. "RSP_NACK" \in RspMsgs
    BY DEF RspMsgs
  <1>9. CASE request.msg = "REQ_IDENT"
    <2>1. Execute(d, request) = datagram("RSP_IDENT", 0, NoReading)
      BY <1>9 DEF Execute
    <2>2. Expected(request) = "RSP_IDENT" /\ "RSP_IDENT" \in RspMsgs
      BY <1>9 DEF Expected, RspMsgs
    <2> QED BY <2>1, <2>2, <1>4, <1>7
  <1>10. CASE request.msg = "REQ_RELAYS"
    <2>1. Execute(d, request)
            = datagram("RSP_RELAYS", 0, [world |-> world, correction |-> Unity])
      BY <1>10 DEF Execute
    <2>2. Expected(request) = "RSP_RELAYS" /\ "RSP_RELAYS" \in RspMsgs
      BY <1>10 DEF Expected, RspMsgs
    <2> QED BY <2>1, <2>2, <1>5, <1>7
  <1>11. CASE request.msg = "REQ_ANALOG"
    <2>1. Execute(d, request) = IF request.arg \in ValidChannels
            THEN datagram("RSP_ANALOG", request.arg,
                          [world |-> world, correction |-> correction])
            ELSE datagram("RSP_NACK", 0, NoReading)
      BY <1>11 DEF Execute
    <2>2. Expected(request) = "RSP_ANALOG" /\ "RSP_ANALOG" \in RspMsgs
      BY <1>11 DEF Expected, RspMsgs
    <2>3. CASE request.arg \in ValidChannels
      BY <2>1, <2>2, <2>3, <1>3, <1>5, <1>7
    <2>4. CASE request.arg \notin ValidChannels
      BY <2>1, <2>4, <1>4, <1>7, <1>8
    <2> QED BY <2>3, <2>4
  <1>12. CASE request.msg = "REQ_SET_CORRECTION"
    <2>1. Execute(d, request) = IF request.arg \in ValidFactors
            THEN datagram("RSP_ACK", 0, NoReading)
            ELSE datagram("RSP_NACK", 0, NoReading)
      BY <1>12 DEF Execute
    <2>2. Expected(request) = "RSP_ACK" /\ "RSP_ACK" \in RspMsgs
      BY <1>12 DEF Expected, RspMsgs
    <2> QED BY <2>1, <2>2, <1>4, <1>7, <1>8
  <1> QED BY <1>3, <1>9, <1>10, <1>11, <1>12 DEF ReqMsgs, ReadMsgs

\* The pending call is the last one.  Amending it leaves the others alone.
LEMMA WaitingType ==
  ASSUME TypeOK, Waiting
  PROVE  /\ Len(calls) \in 1..MaxTransactions /\ Len(calls) \in 1..Len(calls)
         /\ Current = calls[Len(calls)] /\ Current \in Call
  <1>1. Len(calls) \in 1..Len(calls)
    BY DEF TypeOK, Waiting
  <1> QED BY <1>1, CallType DEF Current

LEMMA AmendType ==
  ASSUME TypeOK, Waiting, NEW call \in Call,
         calls' = [calls EXCEPT ![Len(calls)] = call]
  PROVE  /\ calls' \in Seq(Call) /\ Len(calls') = Len(calls)
         /\ calls'[Len(calls)] = call
         /\ \A n \in 1..Len(calls) : n # Len(calls) => calls'[n] = calls[n]
  BY WaitingType DEF TypeOK

LEMMA EndsType ==
  ASSUME TypeOK, Waiting, NEW ending \in Endings, NEW reply \in ReplyDatagram \cup {NoReply},
         Ends(ending, reply)
  PROVE  /\ calls' \in Seq(Call) /\ Len(calls') = Len(calls)
         /\ calls'[Len(calls)] = [Current EXCEPT !.ending = ending]
         /\ \A n \in 1..Len(calls) : n # Len(calls) => calls'[n] = calls[n]
         /\ answer' = reply /\ remaining' = 0
         /\ identified' \in BOOLEAN /\ socket' \in {0, socket}
  <1> DEFINE call == [Current EXCEPT !.ending = ending]
  <1>1. call \in Call
    BY WaitingType DEF Call
  <1>2. calls' = [calls EXCEPT ![Len(calls)] = call]
    BY WaitingType DEF Ends, TypeOK
  <1>3. /\ answer' = reply /\ remaining' = 0
        /\ identified' \in BOOLEAN /\ socket' \in {0, socket}
    BY DEF Ends, TypeOK
  <1> HIDE DEF call
  <1>4. /\ calls' \in Seq(Call) /\ Len(calls') = Len(calls)
        /\ calls'[Len(calls)] = call
        /\ \A n \in 1..Len(calls) : n # Len(calls) => calls'[n] = calls[n]
    BY <1>1, <1>2, AmendType
  <1> QED BY <1>3, <1>4 DEF call

LEMMA RetryType ==
  ASSUME TypeOK, Retry
  PROVE  /\ calls' \in Seq(Call) /\ Len(calls') = Len(calls)
         /\ calls'[Len(calls)] = [Current EXCEPT !.attempts = @ + 1]
         /\ \A n \in 1..Len(calls) : n # Len(calls) => calls'[n] = calls[n]
         /\ [call |-> Len(calls), attempt |-> Current.attempts + 1] \in RequestDatagram
  <1> DEFINE call == [Current EXCEPT !.attempts = @ + 1]
  <1>1. Waiting
    BY DEF Retry
  <1>2. Current.attempts + 1 \in 1..Retries
    BY <1>1, WaitingType, DutLinkAssumption DEF Retry, Call
  <1>3. call \in Call
    BY <1>1, <1>2, WaitingType DEF Call
  <1>4. calls' = [calls EXCEPT ![Len(calls)] = call]
    BY <1>1, WaitingType DEF Retry, TypeOK
  <1> HIDE DEF call
  <1>5. /\ calls' \in Seq(Call) /\ Len(calls') = Len(calls)
        /\ calls'[Len(calls)] = call
        /\ \A n \in 1..Len(calls) : n # Len(calls) => calls'[n] = calls[n]
    BY <1>1, <1>3, <1>4, AmendType
  <1> QED BY <1>1, <1>2, <1>5, WaitingType DEF call, RequestDatagram

LEMMA TransactType ==
  ASSUME TypeOK, NEW request \in Requests \cup {IdentRequest}, NEW on \in 1..MaxSockets,
         Transact(request, on)
  PROVE  /\ calls' \in Seq(Call) /\ Len(calls') = Len(calls) + 1
         /\ Len(calls') =< MaxTransactions
         /\ calls'[Len(calls')] = [request |-> request, socket |-> on,
                                  attempts |-> 1, ending |-> "pending"]
         /\ \A n \in 1..Len(calls) : calls'[n] = calls[n]
         /\ requests' \subseteq RequestDatagram
         /\ requests' = requests \cup {[call |-> Len(calls) + 1, attempt |-> 1]}
         /\ remaining' \in 0..Patience /\ answer' = NoReply
  <1> DEFINE call == [request |-> request, socket |-> on, attempts |-> 1, ending |-> "pending"]
  <1>1. call \in Call
    BY DutLinkAssumption DEF Call, Endings
  <1>2. calls' = Append(calls, call) /\ calls \in Seq(Call)
    BY DEF Transact, TypeOK
  <1> HIDE DEF call
  <1>3. /\ calls' \in Seq(Call) /\ Len(calls') = Len(calls) + 1
        /\ calls'[Len(calls')] = call
        /\ \A n \in 1..Len(calls) : calls'[n] = calls[n]
    BY <1>1, <1>2
  <1>4. [call |-> Len(calls) + 1, attempt |-> 1] \in RequestDatagram
        /\ Len(calls) + 1 =< MaxTransactions
    BY <1>2, DutLinkAssumption DEF RequestDatagram, Transact
  <1> QED BY <1>3, <1>4, DutLinkAssumption DEF Transact, TypeOK, call

-----------------------------------------------------------------------------
(* The inductive invariant.  AnswerFits looks at a reply that has arrived;   *)
(* it takes knowing of every datagram under way where it comes from.         *)

\* Every request under way was sent by a call.
Sent == \A d \in requests : d.call \in 1..Len(calls)

\* A reply is to the request of the call that it names.
RepliesTo(r) ==
  /\ r.call \in 1..Len(calls)
  /\ LET request == calls[r.call].request IN
     /\ r.about = request.msg
     /\ r.msg \in {Expected(request), "RSP_NACK"}
     /\ r.msg = "RSP_ANALOG" => r.echo = request.arg

\* Every reply under way is to a call made on the present socket.
Delivered == \A r \in replies : RepliesTo(r) /\ calls[r.call].socket = socket

\* A pending call waits on the present socket.  Only connect, whose call is the
\* identity request, waits on one that has not proved itself.
PendingHere ==
  Waiting =>
    /\ socket # 0 /\ Current.socket = socket /\ answer = NoReply
    /\ Current.request # IdentRequest => identified

Inv == TypeOK /\ Sent /\ Delivered /\ PendingHere /\ ConnectedMeansIdentified /\ AnswerFits

LEMMA InitInv == Init => Inv
  <1> SUFFICES ASSUME Init PROVE Inv
    OBVIOUS
  <1>1. TypeOK
    <2>1. calls \in Seq(Call) /\ Len(calls) = 0
      BY DEF Init
    <2>2. /\ MaxSockets \in Nat /\ MaxTransactions \in Nat /\ MaxWorlds \in Nat
          /\ Patience \in Nat /\ Unity \in ValidFactors
      BY DutLinkAssumption
    <2>3. answer \in {NoReply}
      BY DEF Init
    <2>4. /\ socket \in 0..MaxSockets /\ sockets \in 0..MaxSockets /\ socket =< sockets
          /\ remaining \in 0..Patience /\ world \in 0..MaxWorlds
      BY <2>2 DEF Init
    <2>6. identified \in BOOLEAN
      BY DEF Init
    <2>5. requests \subseteq RequestDatagram /\ replies \subseteq ReplyDatagram
          /\ correction \in ValidFactors
      BY <2>2 DEF Init
    <2> QED BY <2>1, <2>2, <2>3, <2>4, <2>5, <2>6 DEF TypeOK
  <1>2. ~Waiting
    BY DEF Init, Waiting
  <1> QED
    BY <1>1, <1>2
    DEF Init, Inv, Sent, Delivered, PendingHere, ConnectedMeansIdentified, AnswerFits, Idle

\* A call and its request do not change once it is made.
Keeps ==
  /\ Len(calls') >= Len(calls)
  /\ \A n \in 1..Len(calls) :
       calls'[n].request = calls[n].request /\ calls'[n].socket = calls[n].socket

-----------------------------------------------------------------------------
(* One lemma per action, or group of actions that change the same things.    *)

LEMMA ServerStep ==
  ASSUME Inv, NEW d \in requests, ServerHandles(d)
  PROVE  Inv'
  <1> DEFINE reply == Execute(d, calls[d.call].request)
  <1>1. d.call \in 1..Len(calls)
    BY DEF Inv, Sent
  <1>2. Answers(d, reply)
    BY <1>1, ExecuteAnswers DEF Inv
  <1> HIDE DEF reply
  <1>3. requests' \subseteq requests /\ UNCHANGED <<driver, world>>
    BY DEF ServerHandles
  <1>4. \/ replies' = replies
        \/ replies' = replies \cup {reply} /\ calls[d.call].socket = socket
    BY DEF ServerHandles, reply
  <1>5. correction' \in ValidFactors
    BY DEF ServerHandles, Corrects, Inv, TypeOK
  <1>6. TypeOK'
    BY <1>2, <1>3, <1>4, <1>5 DEF Inv, TypeOK, Answers, driver
  <1>7. Sent'
    BY <1>3 DEF Inv, Sent, driver
  <1>8. RepliesTo(reply) /\ reply.call = d.call
    BY <1>1, <1>2 DEF RepliesTo, Answers
  <1>9. Delivered'
    BY <1>3, <1>4, <1>8 DEF Inv, Delivered, RepliesTo, driver
  <1>10. PendingHere' /\ ConnectedMeansIdentified' /\ AnswerFits'
    BY <1>3 DEF Inv, PendingHere, ConnectedMeansIdentified, AnswerFits, driver,
                Waiting, Idle, Current
  <1> QED BY <1>6, <1>7, <1>9, <1>10 DEF Inv

\* What is left of a request that was cut gets a NACK about it.
LEMMA ServerCutStep ==
  ASSUME Inv, NEW d \in requests, ServerHandlesCut(d)
  PROVE  Inv'
  <1> DEFINE request == calls[d.call].request
             nack == [call |-> d.call, attempt |-> d.attempt, msg |-> "RSP_NACK", echo |-> 0,
                      about |-> request.msg, reading |-> NoReading]
  <1>1. d.call \in 1..Len(calls) /\ d.call \in 1..MaxTransactions /\ d.attempt \in 1..Retries
    BY DEF Inv, Sent, TypeOK, RequestDatagram
  <1>2. request.msg \in ReqMsgs
    BY <1>1, CallType DEF Inv
  <1>3. NoReading \in Reading /\ "RSP_NACK" \in RspMsgs
    BY DutLinkAssumption DEF NoReading, Reading, RspMsgs
  <1>4. nack \in ReplyDatagram /\ RepliesTo(nack) /\ nack.call = d.call
    BY <1>1, <1>2, <1>3 DEF ReplyDatagram, RepliesTo
  <1>5. /\ requests' \subseteq requests /\ UNCHANGED <<driver, world, correction>>
        /\ \/ replies' = replies
           \/ replies' = replies \cup {nack} /\ calls[d.call].socket = socket
    BY DEF ServerHandlesCut
  <1> HIDE DEF nack, request
  <1>6. TypeOK'
    BY <1>4, <1>5 DEF Inv, TypeOK, driver
  <1>7. Sent'
    BY <1>5 DEF Inv, Sent, driver
  <1>8. Delivered'
    BY <1>4, <1>5 DEF Inv, Delivered, RepliesTo, driver
  <1>9. PendingHere' /\ ConnectedMeansIdentified' /\ AnswerFits'
    BY <1>5 DEF Inv, PendingHere, ConnectedMeansIdentified, AnswerFits, driver,
                Waiting, Idle, Current
  <1> QED BY <1>6, <1>7, <1>8, <1>9 DEF Inv

LEMMA LossStep ==
  ASSUME Inv, (\E d \in requests : LoseRequest(d)) \/ (\E r \in replies : LoseReply(r))
  PROVE  Inv'
  <1>1. /\ requests' \subseteq requests /\ replies' \subseteq replies
        /\ UNCHANGED <<driver, world, correction>>
    BY DEF LoseRequest, LoseReply
  <1> QED
    BY <1>1 DEF Inv, TypeOK, Sent, Delivered, RepliesTo, PendingHere,
                ConnectedMeansIdentified, AnswerFits, driver, Waiting, Idle, Current

LEMMA ConnectStep == ASSUME Inv, Connect PROVE Inv'
  <1> DEFINE call == [request |-> IdentRequest, socket |-> socket',
                      attempts |-> 1, ending |-> "pending"]
  <1>1. socket' = sockets + 1 /\ socket' \in 1..MaxSockets
    BY DutLinkAssumption DEF Connect, Inv, TypeOK
  <1>2. /\ calls' \in Seq(Call) /\ Len(calls') = Len(calls) + 1
        /\ Len(calls') =< MaxTransactions /\ calls'[Len(calls')] = call
        /\ requests' \subseteq RequestDatagram
        /\ requests' = requests \cup {[call |-> Len(calls) + 1, attempt |-> 1]}
        /\ remaining' \in 0..Patience /\ answer' = NoReply
    BY <1>1, TransactType DEF Connect, Inv
  <1>3. TypeOK'
    BY <1>1, <1>2 DEF Connect, Inv, TypeOK
  <1>4. Sent'
    <2>1. Len(calls) \in Nat
      BY DEF Inv, TypeOK
    <2> QED BY <1>2, <2>1 DEF Inv, Sent
  <1>5. Delivered' /\ AnswerFits'
    BY <1>2 DEF Connect, Delivered, AnswerFits
  <1>6. Current' = call
    BY <1>2 DEF Current
  <1>7. Waiting'
    <2>1. calls' # <<>>
      BY <1>2 DEF Inv, TypeOK
    <2> QED BY <1>6, <2>1 DEF Waiting
  <1>8. PendingHere' /\ ConnectedMeansIdentified'
    BY <1>1, <1>2, <1>6, <1>7 DEF PendingHere, ConnectedMeansIdentified, Idle
  <1> QED BY <1>3, <1>4, <1>5, <1>8 DEF Inv

LEMMA OperationStep ==
  ASSUME Inv, NEW request \in Requests, Operation(request)
  PROVE  Inv'
  <1> DEFINE call == [request |-> request, socket |-> socket,
                      attempts |-> 1, ending |-> "pending"]
  <1>1. socket \in 1..MaxSockets /\ Len(calls) \in Nat
    BY DutLinkAssumption DEF Operation, Inv, TypeOK
  <1>2. /\ calls' \in Seq(Call) /\ Len(calls') = Len(calls) + 1
        /\ Len(calls') =< MaxTransactions /\ calls'[Len(calls')] = call
        /\ \A n \in 1..Len(calls) : calls'[n] = calls[n]
        /\ requests' \subseteq RequestDatagram
        /\ requests' = requests \cup {[call |-> Len(calls) + 1, attempt |-> 1]}
        /\ remaining' \in 0..Patience /\ answer' = NoReply
    BY <1>1, TransactType DEF Operation, Inv
  <1>3. UNCHANGED <<socket, sockets, identified, replies, world, correction>>
    BY DEF Operation
  <1>4. TypeOK'
    BY <1>2, <1>3 DEF Inv, TypeOK
  <1>5. Sent'
    BY <1>1, <1>2 DEF Inv, Sent
  <1>6. Delivered'
    BY <1>1, <1>2, <1>3 DEF Inv, Delivered, RepliesTo
  <1>7. Current' = call
    BY <1>2 DEF Current
  <1>8. Waiting'
    <2>1. calls' # <<>>
      BY <1>1, <1>2
    <2> QED BY <1>7, <2>1 DEF Waiting
  <1>9. identified
    BY DEF Operation, Inv, ConnectedMeansIdentified
  <1>10. PendingHere' /\ ConnectedMeansIdentified' /\ AnswerFits'
    BY <1>1, <1>2, <1>3, <1>7, <1>8, <1>9
    DEF PendingHere, ConnectedMeansIdentified, Idle, AnswerFits
  <1> QED BY <1>4, <1>5, <1>6, <1>10 DEF Inv

\* Whatever ends a call: a reply that fits, or none.
LEMMA EndsStep ==
  ASSUME Inv, Waiting, NEW ending \in Endings \ {"pending"},
         NEW reply \in ReplyDatagram \cup {NoReply}, Ends(ending, reply),
         reply # NoReply =>
           /\ RepliesTo(reply) /\ calls[reply.call].socket = socket
           /\ calls[reply.call].request.msg = Current.request.msg
           /\ ending = "answered" /\ Current.request.msg = "REQ_ANALOG"
                => calls[reply.call].request.arg = Current.request.arg,
         replies' \subseteq replies, socket' = 0 => replies' = {},
         UNCHANGED <<sockets, requests, world, correction>>
  PROVE  Inv'
  <1>1. /\ calls' \in Seq(Call) /\ Len(calls') = Len(calls)
        /\ calls'[Len(calls)] = [Current EXCEPT !.ending = ending]
        /\ \A n \in 1..Len(calls) : n # Len(calls) => calls'[n] = calls[n]
        /\ answer' = reply /\ remaining' = 0
        /\ identified' \in BOOLEAN /\ socket' \in {0, socket}
    BY EndsType DEF Inv
  <1>2. /\ Len(calls) \in 1..Len(calls) /\ Current = calls[Len(calls)] /\ Current \in Call
    BY WaitingType DEF Inv
  <1>3. TypeOK'
    BY <1>1, DutLinkAssumption DEF Inv, TypeOK
  <1>4. Sent'
    BY <1>1 DEF Inv, Sent
  <1>5. \A n \in 1..Len(calls) :
          calls'[n].request = calls[n].request /\ calls'[n].socket = calls[n].socket
    BY <1>1, <1>2 DEF Call
  <1>6. Delivered'
    BY <1>1, <1>5 DEF Inv, Delivered, RepliesTo
  <1>7. /\ Current' = calls'[Len(calls)] /\ Current'.ending = ending
        /\ Current'.request = Current.request /\ Current'.socket = socket
    BY <1>1, <1>2 DEF Current, Call, Inv, PendingHere
  <1>8. ~Waiting'
    BY <1>7 DEF Waiting
  <1>9. AnswerFits'
    BY <1>1, <1>5, <1>7 DEF AnswerFits, RepliesTo
  <1>10. (socket' # 0) = identified'
    BY DEF Ends, Inv, PendingHere, TypeOK
  <1> QED
    BY <1>3, <1>4, <1>6, <1>8, <1>9, <1>10
    DEF Inv, PendingHere, ConnectedMeansIdentified

\* Two requests with one answer are of one kind.
LEMMA ExpectedInjective ==
  ASSUME NEW p, NEW q, p.msg \in ReqMsgs, q.msg \in ReqMsgs, Expected(p) = Expected(q)
  PROVE  p.msg = q.msg
  BY DEF Expected, ReqMsgs, ReadMsgs

\* The checks of _transact and of the operation around it let only a reply to
\* a request of the same kind end a call.
LEMMA VerdictFits ==
  ASSUME Inv, Waiting, NEW r \in replies, Verdict(Current.request, r) # "discarded"
  PROVE  /\ Verdict(Current.request, r) \in Endings \ {"pending"}
         /\ calls[r.call].request.msg = Current.request.msg
         /\ Verdict(Current.request, r) = "answered" /\ Current.request.msg = "REQ_ANALOG"
              => calls[r.call].request.arg = Current.request.arg
  <1> DEFINE asked == Current.request
             origin == calls[r.call].request
  <1>1. RepliesTo(r)
    BY DEF Inv, Delivered
  <1>2. /\ r.about = origin.msg /\ r.msg \in {Expected(origin), "RSP_NACK"}
        /\ r.msg = "RSP_ANALOG" => r.echo = origin.arg
        /\ origin.msg \in ReqMsgs
    BY <1>1, CallType DEF RepliesTo, Inv
  <1>3. asked.msg \in ReqMsgs
    BY WaitingType, CallType DEF Inv
  <1> HIDE DEF asked, origin
  <1>4. CASE r.msg = "RSP_NACK"
    <2>0. Expected(asked) # "RSP_NACK"
      BY <1>3 DEF Expected, ReqMsgs, ReadMsgs
    <2>1. Verdict(asked, r) = IF r.about = asked.msg THEN "refused" ELSE "discarded"
      BY <1>4, <2>0 DEF Verdict
    <2>2. Verdict(asked, r) = "refused" /\ r.about = asked.msg
      BY <2>1 DEF asked
    <2> QED BY <1>2, <2>2 DEF Endings, asked, origin
  <1>5. CASE r.msg # "RSP_NACK"
    <2>1. r.msg = Expected(asked) /\ Verdict(asked, r) \in {"protocol_error", "answered"}
      BY <1>5 DEF Verdict, asked
    <2>2. origin.msg = asked.msg
      BY <1>2, <1>3, <1>5, <2>1, ExpectedInjective
    <2>3. Verdict(asked, r) = "answered" /\ asked.msg = "REQ_ANALOG" => r.echo = asked.arg
      BY <1>5, <2>1 DEF Verdict
    <2>4. asked.msg = "REQ_ANALOG" => r.msg = "RSP_ANALOG"
      BY <2>1 DEF Expected
    <2> QED BY <1>2, <2>1, <2>2, <2>3, <2>4 DEF Endings, asked, origin
  <1> QED BY <1>4, <1>5

LEMMA ReceiveStep ==
  ASSUME Inv, NEW r \in replies, Receive(r)
  PROVE  Inv'
  <1> DEFINE verdict == Verdict(Current.request, r)
             left == IF Duplicates THEN {replies, replies \ {r}} ELSE {replies \ {r}}
  <1>1. Waiting /\ UNCHANGED <<sockets, requests, world, correction>>
    BY DEF Receive
  <1>2. CASE verdict = "discarded"
    <2>1. replies' \in left /\ UNCHANGED <<socket, identified, calls, answer, remaining>>
      BY <1>2 DEF Receive
    <2>2. replies' \subseteq replies
      BY <2>1
    <2> QED
      BY <1>1, <2>1, <2>2
      DEF Inv, TypeOK, Sent, Delivered, RepliesTo, PendingHere,
          ConnectedMeansIdentified, AnswerFits, Waiting, Idle, Current
  <1>3. CASE verdict # "discarded"
    <2>1. Ends(verdict, r) /\ replies' \in (IF socket' = 0 THEN {{}} ELSE left)
      BY <1>3 DEF Receive
    <2>2. replies' \subseteq replies /\ (socket' = 0 => replies' = {})
      BY <2>1
    <2>3. RepliesTo(r) /\ calls[r.call].socket = socket /\ r \in ReplyDatagram
      BY DEF Inv, Delivered, TypeOK
    <2>4. /\ verdict \in Endings \ {"pending"}
          /\ calls[r.call].request.msg = Current.request.msg
          /\ verdict = "answered" /\ Current.request.msg = "REQ_ANALOG"
               => calls[r.call].request.arg = Current.request.arg
      BY <1>1, <1>3, VerdictFits
    <2> HIDE DEF verdict
    <2> QED BY <1>1, <2>1, <2>2, <2>3, <2>4, EndsStep
  <1> QED BY <1>2, <1>3

LEMMA ReceiveCutStep ==
  ASSUME Inv, NEW r \in replies, ReceiveCut(r)
  PROVE  Inv'
  <1>1. Waiting /\ UNCHANGED <<sockets, requests, world, correction>>
    BY DEF ReceiveCut
  <1>2. /\ Ends("protocol_error", NoReply)
        /\ replies' \subseteq replies /\ (socket' = 0 => replies' = {})
    BY DEF ReceiveCut
  <1>3. "protocol_error" \in Endings \ {"pending"}
    BY DEF Endings
  <1> QED BY <1>1, <1>2, <1>3, EndsStep

LEMMA FailureStep == ASSUME Inv, GiveUp \/ SocketFails PROVE Inv'
  <1> PICK ending \in {"timeout", "os_error"} :
        Ends(ending, NoReply) /\ replies' = IF socket' = 0 THEN {} ELSE replies
    BY DEF GiveUp, SocketFails
  <1>1. Waiting /\ UNCHANGED <<sockets, requests, world, correction>>
    BY DEF GiveUp, SocketFails
  <1>2. ending \in Endings \ {"pending"}
    BY DEF Endings
  <1> QED BY <1>1, <1>2, EndsStep

LEMMA RetryStep == ASSUME Inv, Retry PROVE Inv'
  <1>1. /\ calls' \in Seq(Call) /\ Len(calls') = Len(calls)
        /\ calls'[Len(calls)] = [Current EXCEPT !.attempts = @ + 1]
        /\ \A n \in 1..Len(calls) : n # Len(calls) => calls'[n] = calls[n]
        /\ [call |-> Len(calls), attempt |-> Current.attempts + 1] \in RequestDatagram
    BY RetryType DEF Inv
  <1>2. /\ Len(calls) \in 1..Len(calls) /\ Current = calls[Len(calls)] /\ Current \in Call
    BY WaitingType DEF Inv, Retry
  <1>3. /\ UNCHANGED <<socket, sockets, identified, answer, replies, world, correction>>
        /\ requests' = requests \cup {[call |-> Len(calls), attempt |-> Current.attempts + 1]}
        /\ remaining' = Patience /\ Waiting
    BY DEF Retry
  <1>4. TypeOK'
    BY <1>1, <1>3, DutLinkAssumption DEF Inv, TypeOK
  <1>5. Sent'
    BY <1>1, <1>2, <1>3 DEF Inv, Sent
  <1>6. \A n \in 1..Len(calls) :
          calls'[n].request = calls[n].request /\ calls'[n].socket = calls[n].socket
    BY <1>1, <1>2 DEF Call
  <1>7. Delivered'
    BY <1>1, <1>3, <1>6 DEF Inv, Delivered, RepliesTo
  <1>8. Current' = calls'[Len(calls)] /\ Current'.ending = "pending" /\ calls' # <<>>
    BY <1>1, <1>2, <1>3 DEF Current, Waiting, Call
  <1>9. Waiting' /\ Current'.request = Current.request /\ Current'.socket = Current.socket
    BY <1>1, <1>2, <1>8 DEF Waiting, Call
  <1>10. PendingHere' /\ ConnectedMeansIdentified' /\ AnswerFits'
    BY <1>3, <1>9 DEF Inv, PendingHere, ConnectedMeansIdentified, Idle, AnswerFits
  <1> QED BY <1>4, <1>5, <1>7, <1>10 DEF Inv

LEMMA TickStep == ASSUME Inv, Tick PROVE Inv'
  <1>1. /\ remaining' \in 0..Patience
        /\ UNCHANGED <<socket, sockets, identified, calls, answer,
                       requests, replies, world, correction>>
    BY DutLinkAssumption DEF Tick, Inv, TypeOK
  <1> QED
    BY <1>1 DEF Inv, TypeOK, Sent, Delivered, RepliesTo, PendingHere,
                ConnectedMeansIdentified, AnswerFits, Waiting, Idle, Current

LEMMA DisconnectStep == ASSUME Inv, Disconnect PROVE Inv'
  <1>1. /\ socket' = 0 /\ identified' = FALSE /\ replies' = {} /\ Idle
        /\ UNCHANGED <<sockets, calls, remaining, answer, requests, world, correction>>
    BY DEF Disconnect
  <1>2. identified' \in BOOLEAN
    BY <1>1
  <1>3. 0 \in 0..MaxSockets /\ 0 =< sockets
    BY DutLinkAssumption DEF Inv, TypeOK
  <1>4. TypeOK'
    BY <1>1, <1>2, <1>3 DEF Inv, TypeOK
  <1> QED
    BY <1>1, <1>4 DEF Inv, Sent, Delivered, PendingHere,
                      ConnectedMeansIdentified, AnswerFits, Waiting, Idle, Current

LEMMA ReprogramStep == ASSUME Inv, Reprogram PROVE Inv'
  <1>1. UNCHANGED <<driver, requests, replies, correction>> /\ world' \in 0..MaxWorlds
    BY DutLinkAssumption DEF Reprogram, Inv, TypeOK
  <1> QED
    BY <1>1 DEF Inv, TypeOK, Sent, Delivered, RepliesTo, PendingHere,
                ConnectedMeansIdentified, AnswerFits, driver, Waiting, Idle, Current

LEMMA InvStep == Inv /\ [Next]_vars => Inv'
  <1> SUFFICES ASSUME Inv, [Next]_vars PROVE Inv'
    OBVIOUS
  <1>1. CASE UNCHANGED vars
    BY <1>1 DEF vars, Inv, TypeOK, Sent, Delivered, RepliesTo, PendingHere,
                ConnectedMeansIdentified, AnswerFits, Waiting, Idle, Current
  <1>2. CASE Next
    BY <1>2, ConnectStep, DisconnectStep, ReprogramStep, OperationStep, ReceiveStep,
       ReceiveCutStep, LossStep, ServerStep, ServerCutStep, TickStep, RetryStep, FailureStep
    DEF Next, Deadline
  <1> QED BY <1>1, <1>2

LEMMA InvHolds == Spec => []Inv
  BY InitInv, InvStep, PTL DEF Spec

-----------------------------------------------------------------------------
\* The driver, the network and the device keep their types: in particular no
\* transaction makes more attempts than retries, and only a factor in range
\* ever becomes the correction.
THEOREM LinkTypeCorrect == Spec => []TypeOK
  <1>1. Inv => TypeOK
    BY DEF Inv
  <1> QED BY <1>1, InvHolds, PTL

\* A call is only ended by a reply to a request of its kind made on the same
\* socket, and an analog reading is of the channel asked for.
THEOREM AnswersFit == Spec => []AnswerFits
  <1>1. Inv => AnswerFits
    BY DEF Inv
  <1> QED BY <1>1, InvHolds, PTL

\* Between calls the driver has a socket exactly when the device has answered
\* on it.
THEOREM ConnectedIsIdentified == Spec => []ConnectedMeansIdentified
  <1>1. Inv => ConnectedMeansIdentified
    BY DEF Inv
  <1> QED BY <1>1, InvHolds, PTL

-----------------------------------------------------------------------------
(* The driver, the network and the device implement DutService.              *)

\* What a reply says of the device is true of it, or was.
Genuine(r) ==
  LET request == calls[r.call].request IN
  /\ r.msg = "RSP_NACK" => request.msg \in {"REQ_ANALOG", "REQ_SET_CORRECTION"}
  /\ r.msg = "RSP_ANALOG" => request.arg \in ValidChannels
  /\ r.msg = "RSP_ACK" => request.arg \in ValidFactors
  /\ r.msg # "RSP_NACK" => r.reading \in Service!Readings(request)

\* Nothing but a correction that was asked for ever scales a reading.
Asking == correction \in {Unity} \cup Service!Corrections

ServiceInv == Inv /\ Asking /\ \A r \in replies : Genuine(r)

-----------------------------------------------------------------------------
(* What may be read grows with the calls and with the states of the bench.   *)

LEMMA AskedGrows ==
  ASSUME Inv, Inv', Keeps
  PROVE  Asked \subseteq Asked'
  <1>1. Len(calls) \in Nat /\ Len(calls') \in Nat
    BY DEF Inv, TypeOK
  <1> QED BY <1>1 DEF Keeps, Asked

LEMMA CorrectionsGrow ==
  ASSUME Asked \subseteq Asked'
  PROVE  Service!Corrections \subseteq Service!Corrections'
  BY DEF Service!Corrections

LEMMA ReadingsGrow ==
  ASSUME Asked \subseteq Asked', world \in Nat, world' \in Nat, world =< world', NEW request
  PROVE  Service!Readings(request) \subseteq Service!Readings(request)'
  <1>1. Service!Corrections \subseteq Service!Corrections'
    BY CorrectionsGrow
  <1>2. 0..world \subseteq 0..world'
    OBVIOUS
  <1> QED BY <1>1, <1>2 DEF Service!Readings, Service!NoReading

\* What a reply may say depends on the kind of its request only.
LEMMA ReadingsOfKind ==
  ASSUME NEW p, NEW q, p.msg = q.msg
  PROVE  Service!Readings(p) = Service!Readings(q)
  BY DEF Service!Readings

LEMMA GenuineStays ==
  ASSUME ServiceInv, Inv', Keeps, world =< world', NEW r \in replies
  PROVE  Genuine(r)'
  <1>1. r.call \in 1..Len(calls) /\ calls'[r.call].request = calls[r.call].request
    BY DEF ServiceInv, Inv, Delivered, RepliesTo, Keeps
  <1>2. world \in Nat /\ world' \in Nat
    BY DutLinkAssumption DEF ServiceInv, Inv, TypeOK
  <1>3. Asked \subseteq Asked'
    BY AskedGrows DEF ServiceInv
  <1>4. PICK request : request = calls[r.call].request
    OBVIOUS
  <1>5. Service!Readings(request) \subseteq Service!Readings(request)'
    BY <1>2, <1>3, ReadingsGrow
  <1>6. Service!Readings(calls[r.call].request)' = Service!Readings(request)'
    BY <1>1, <1>4 DEF Service!Readings
  <1>7. Genuine(r)
    BY DEF ServiceInv
  <1> QED BY <1>1, <1>4, <1>5, <1>6, <1>7 DEF Genuine

-----------------------------------------------------------------------------
(* The device and the network.                                               *)

\* A call that was made has been asked for.
LEMMA CallAsked ==
  ASSUME NEW n \in 1..Len(calls)
  PROVE  calls[n].request \in Asked
  BY DEF Asked

LEMMA ExecuteGenuine ==
  ASSUME ServiceInv, NEW d \in requests
  PROVE  Genuine(Execute(d, calls[d.call].request))
  <1>1. d.call \in 1..Len(calls) /\ calls[d.call].request.msg \in ReqMsgs
    BY CallType DEF ServiceInv, Inv, Sent
  <1>2. PICK request : request = calls[d.call].request
    OBVIOUS
  <1>3. PICK r : r = Execute(d, request)
    OBVIOUS
  <1>4. r.call = d.call
    BY <1>1, <1>2, <1>3 DEF Execute, ReqMsgs, ReadMsgs
  <1>5. world \in Nat /\ world \in 0..world
    BY DutLinkAssumption DEF ServiceInv, Inv, TypeOK
  <1>6. /\ r.msg = "RSP_NACK" => request.msg \in {"REQ_ANALOG", "REQ_SET_CORRECTION"}
        /\ r.msg = "RSP_ANALOG" => request.arg \in ValidChannels
        /\ r.msg = "RSP_ACK" => request.arg \in ValidFactors
    BY <1>1, <1>2, <1>3 DEF Execute, ReqMsgs, ReadMsgs
  <1>7. r.msg # "RSP_NACK" => r.reading \in Service!Readings(request)
    BY <1>1, <1>2, <1>3, <1>5
    DEF Execute, ReqMsgs, ReadMsgs, Service!Readings, Service!NoReading, NoReading,
        ServiceInv, Asking
  <1> QED BY <1>2, <1>3, <1>4, <1>6, <1>7 DEF Genuine

\* What the caller sees is a function of the driver's calls.
Seen == <<socket # 0, CallInProgress, Asked, LastResult>>

LEMMA DriverUnseen ==
  ASSUME UNCHANGED <<socket, calls, answer>>
  PROVE  UNCHANGED Seen
  BY DEF Seen, CallInProgress, Asked, LastResult, Waiting, Current

\* A step that neither makes a call nor gives the device a correction, and
\* adds no reply but genuine ones, keeps the invariant.
LEMMA QuietStep ==
  ASSUME ServiceInv, Inv', Keeps, world =< world', correction' = correction,
         \A r \in replies' \ replies : Genuine(r)'
  PROVE  ServiceInv'
  <1>1. Service!Corrections \subseteq Service!Corrections'
    BY AskedGrows, CorrectionsGrow DEF ServiceInv
  <1>2. Asking'
    BY <1>1 DEF ServiceInv, Asking
  <1>3. \A r \in replies : Genuine(r)'
    BY GenuineStays
  <1> QED BY <1>2, <1>3 DEF ServiceInv

LEMMA ServerServes ==
  ASSUME ServiceInv, Inv', NEW d \in requests, ServerHandles(d)
  PROVE  ServiceInv' /\ (Service!Correct \/ UNCHANGED Service!vars)
  <1>1. UNCHANGED driver /\ world' = world
    BY DEF ServerHandles
  <1>2. UNCHANGED Seen /\ Keeps
    BY <1>1, DriverUnseen DEF driver, Keeps, Inv, ServiceInv, TypeOK
  <1>3. Asked' = Asked
    BY <1>2 DEF Seen
  <1>4. PICK reply : reply = Execute(d, calls[d.call].request)
    OBVIOUS
  <1>5. replies' \subseteq replies \cup {reply} /\ Genuine(reply)
    BY <1>4, ExecuteGenuine DEF ServerHandles
  <1>6. Genuine(reply)'
    <2>1. PICK request : request = calls[reply.call].request
      OBVIOUS
    <2>2. calls'[reply.call].request = request
      BY <1>1, <2>1 DEF driver
    <2> QED
      BY <1>1, <1>3, <1>5, <2>1, <2>2 DEF Genuine, Service!Readings, Service!Corrections
  <1>7. \A r \in replies : Genuine(r)'
    BY <1>1, <1>2, GenuineStays, DutLinkAssumption DEF ServiceInv, Inv, TypeOK
  <1>8. CASE correction' = correction
    <2>1. ServiceInv'
      BY <1>3, <1>5, <1>6, <1>7, <1>8 DEF ServiceInv, Asking, Service!Corrections
    <2>2. UNCHANGED Service!vars
      BY <1>1, <1>2, <1>8 DEF Seen, Service!vars
    <2> QED BY <2>1, <2>2
  <1>9. CASE correction' # correction
    <2> DEFINE request == calls[d.call].request
    <2>1. Corrects(request) /\ correction' = request.arg
      BY <1>9 DEF ServerHandles
    <2>2. request \in Asked
      BY CallAsked DEF ServiceInv, Inv, Sent
    <2>3. correction' \in Service!Corrections
      BY <2>1, <2>2 DEF Corrects, Service!Corrections
    <2>4. ServiceInv'
      BY <1>3, <1>5, <1>6, <1>7, <2>3 DEF ServiceInv, Asking, Service!Corrections
    <2>5. Service!Correct
      BY <1>1, <1>2, <2>3 DEF Seen, Service!Correct
    <2> QED BY <2>4, <2>5
  <1> QED BY <1>8, <1>9

LEMMA CutServes ==
  ASSUME ServiceInv, Inv', NEW d \in requests, ServerHandlesCut(d)
  PROVE  ServiceInv' /\ UNCHANGED Service!vars
  <1>1. UNCHANGED <<driver, world, correction>>
    BY DEF ServerHandlesCut
  <1>2. UNCHANGED Seen /\ Keeps /\ world =< world'
    BY <1>1, DriverUnseen, DutLinkAssumption DEF driver, Keeps, Inv, ServiceInv, TypeOK
  <1>3. ASSUME NEW r \in replies', r \notin replies
        PROVE  Genuine(r)'
    <2>1. r.msg = "RSP_NACK" /\ r.call = d.call /\ HasPayload(calls[d.call].request)
      BY <1>3 DEF ServerHandlesCut
    <2> QED BY <1>1, <2>1 DEF Genuine, HasPayload, driver
  <1>4. ServiceInv'
    BY <1>1, <1>2, <1>3, QuietStep
  <1> QED BY <1>1, <1>2, <1>4 DEF Seen, Service!vars

LEMMA NetworkServes ==
  ASSUME ServiceInv, Inv', (\E d \in requests : LoseRequest(d)) \/ (\E r \in replies : LoseReply(r))
  PROVE  ServiceInv' /\ UNCHANGED Service!vars
  <1>1. UNCHANGED <<driver, world, correction>> /\ replies' \subseteq replies
    BY DEF LoseRequest, LoseReply
  <1>2. UNCHANGED Seen /\ Keeps /\ world =< world'
    BY <1>1, DriverUnseen, DutLinkAssumption DEF driver, Keeps, Inv, ServiceInv, TypeOK
  <1>3. ServiceInv'
    BY <1>1, <1>2, QuietStep
  <1> QED BY <1>1, <1>2, <1>3 DEF Seen, Service!vars

-----------------------------------------------------------------------------
(* The driver.                                                               *)

LEMMA CallBegins ==
  ASSUME ServiceInv, Inv', Idle,
         NEW request \in Requests \cup {IdentRequest}, NEW on \in 1..MaxSockets,
         Transact(request, on), replies' \subseteq replies, UNCHANGED <<world, correction>>
  PROVE  ServiceInv' /\ Service!Begin(request)
  <1> DEFINE call == [request |-> request, socket |-> on, attempts |-> 1, ending |-> "pending"]
  <1>0. TypeOK /\ Len(calls) \in Nat
    BY DEF ServiceInv, Inv, TypeOK
  <1>1. /\ Len(calls) \in Nat /\ calls' \in Seq(Call)
        /\ Len(calls') = Len(calls) + 1 /\ calls'[Len(calls')] = call
        /\ \A n \in 1..Len(calls) : calls'[n] = calls[n]
    BY <1>0, TransactType
  <1>2. calls'[Len(calls')].request = request /\ calls'[Len(calls')].ending = "pending"
    BY <1>1
  <1>3. Waiting' /\ Current'.request = request
    BY <1>1, <1>2 DEF Waiting, Current
  <1>4. Keeps
    BY <1>1 DEF Keeps
  <1>5. Asked' = Asked \cup {request}
    BY <1>1, <1>2 DEF Asked
  <1>6. ServiceInv'
    <2>1. world =< world'
      BY DutLinkAssumption DEF ServiceInv, Inv, TypeOK
    <2> QED BY <1>4, <2>1, QuietStep
  <1>7. CallInProgress = Service!NoCall /\ CallInProgress' = request
    BY <1>3 DEF CallInProgress, Service!NoCall, Idle
  <1>8. LastResult' = Service!NoResult
    BY <1>3 DEF LastResult, Service!NoResult, Service!NoReading, NoReading
  <1> QED BY <1>5, <1>6, <1>7, <1>8 DEF Service!Begin

LEMMA ConnectServes ==
  ASSUME ServiceInv, Inv', Connect
  PROVE  ServiceInv' /\ Service!Connect
  <1>1. socket' \in 1..MaxSockets
    BY DutLinkAssumption DEF Connect, ServiceInv, Inv, TypeOK
  <1>2. Idle /\ Transact(IdentRequest, socket') /\ replies' \subseteq replies
        /\ UNCHANGED <<world, correction>>
    BY DEF Connect
  <1>3. PICK on \in 1..MaxSockets : on = socket'
    BY <1>1
  <1>4. ServiceInv' /\ Service!Begin(IdentRequest)
    BY <1>2, <1>3, CallBegins
  <1>5. socket' # 0
    BY <1>1
  <1> QED BY <1>4, <1>5 DEF Service!Connect

LEMMA OperationServes ==
  ASSUME ServiceInv, Inv', NEW request \in Requests, Operation(request)
  PROVE  ServiceInv' /\ Service!Request(request)
  <1>1. socket \in 1..MaxSockets /\ socket # 0 /\ socket' = socket
    BY DEF Operation, ServiceInv, Inv, TypeOK
  <1>2. PICK on \in 1..MaxSockets : on = socket
    BY <1>1
  <1>3. Idle /\ Transact(request, on) /\ replies' = replies /\ UNCHANGED <<world, correction>>
    BY <1>2 DEF Operation
  <1>4. ServiceInv' /\ Service!Begin(request)
    BY <1>3, CallBegins
  <1> QED BY <1>1, <1>4 DEF Service!Request

\* A call that ends, ends for the caller too, with what the reply read.
LEMMA CallEnds ==
  ASSUME ServiceInv, Inv', Waiting, NEW ending \in Endings \ {"pending"},
         NEW reply \in ReplyDatagram \cup {NoReply}, Ends(ending, reply),
         replies' \subseteq replies, UNCHANGED <<world, correction>>
  PROVE  /\ ServiceInv' /\ CallInProgress = Current.request
         /\ Service!End(ending, IF ending = "answered" THEN reply.reading ELSE NoReading)
  <1>1. /\ Len(calls') = Len(calls) /\ answer' = reply
        /\ calls'[Len(calls)] = [Current EXCEPT !.ending = ending]
        /\ \A n \in 1..Len(calls) : n # Len(calls) => calls'[n] = calls[n]
    BY EndsType DEF ServiceInv, Inv
  <1>2. /\ Len(calls) \in 1..Len(calls) /\ Current = calls[Len(calls)] /\ Current \in Call
    BY WaitingType DEF ServiceInv, Inv
  <1>3. /\ \A n \in 1..Len(calls) :
             calls'[n].request = calls[n].request /\ calls'[n].socket = calls[n].socket
        /\ Keeps
    BY <1>1, <1>2 DEF Call, Keeps
  <1>4. Asked' = Asked
    BY <1>1, <1>3 DEF Asked
  <1>5. Current'.ending = ending /\ ~Waiting' /\ calls' # <<>>
    BY <1>1, <1>2 DEF Current, Waiting, Call, ServiceInv, Inv, TypeOK
  <1>6. /\ CallInProgress = Current.request /\ CallInProgress' = Service!NoCall
    BY <1>5 DEF CallInProgress, Service!NoCall
  <1>7. CallInProgress # Service!NoCall
    <2>1. Current.request.msg \in ReqMsgs
      BY <1>2, CallType DEF ServiceInv, Inv
    <2> QED BY <1>6, <2>1 DEF Service!NoCall, ReqMsgs, ReadMsgs
  <1>8. LastResult' = [ending |-> ending,
                       reading |-> IF ending = "answered" THEN reply.reading ELSE NoReading]
    BY <1>1, <1>5 DEF LastResult
  <1>9. (socket' # 0) = (Current.request = IdentRequest => ending = "answered")
    BY DEF Ends, ServiceInv, Inv, PendingHere
  <1>10. ServiceInv'
    <2>1. world =< world'
      BY DutLinkAssumption DEF ServiceInv, Inv, TypeOK
    <2> QED BY <1>3, <2>1, QuietStep
  <1> QED BY <1>4, <1>6, <1>7, <1>8, <1>9, <1>10 DEF Service!End

\* An answer is a reading the service may give; a refusal is of a request that
\* may be refused.
LEMMA VerdictServes ==
  ASSUME ServiceInv, Waiting, NEW r \in replies, CallInProgress = Current.request,
         Verdict(Current.request, r) # "discarded"
  PROVE  /\ Verdict(Current.request, r) \in {"answered", "refused", "protocol_error"}
         /\ Verdict(Current.request, r) = "refused" =>
              CallInProgress.msg \in {"REQ_ANALOG", "REQ_SET_CORRECTION"}
         /\ Verdict(Current.request, r) = "answered" =>
              /\ CallInProgress.msg = "REQ_ANALOG" => CallInProgress.arg \in ValidChannels
              /\ CallInProgress.msg = "REQ_SET_CORRECTION" => Service!Corrections # {}
              /\ r.reading \in Service!Readings(CallInProgress)
  <1>1. PICK asked : asked = Current.request
    OBVIOUS
  <1>2. PICK origin : origin = calls[r.call].request
    OBVIOUS
  <1>3. /\ asked.msg \in ReqMsgs /\ origin.msg = asked.msg
        /\ Verdict(asked, r) = "answered" /\ asked.msg = "REQ_ANALOG" => origin.arg = asked.arg
    BY <1>1, <1>2, VerdictFits, WaitingType, CallType DEF ServiceInv, Inv
  <1>4. /\ origin \in Asked
        /\ r.msg = "RSP_NACK" => origin.msg \in {"REQ_ANALOG", "REQ_SET_CORRECTION"}
        /\ r.msg = "RSP_ANALOG" => origin.arg \in ValidChannels
        /\ r.msg = "RSP_ACK" => origin.arg \in ValidFactors
        /\ r.msg # "RSP_NACK" => r.reading \in Service!Readings(origin)
    BY <1>2, CallAsked DEF ServiceInv, Inv, Delivered, RepliesTo, Genuine
  <1>5. /\ Verdict(asked, r) \in {"answered", "refused", "protocol_error"}
        /\ Verdict(asked, r) = "refused" => r.msg = "RSP_NACK"
        /\ Verdict(asked, r) = "answered" => r.msg = Expected(asked) /\ r.msg # "RSP_NACK"
    <2>1. Expected(asked) # "RSP_NACK"
      BY <1>3 DEF Expected, ReqMsgs, ReadMsgs
    <2>2. CASE r.msg = "RSP_NACK"
      BY <1>1, <2>1, <2>2 DEF Verdict
    <2>3. CASE r.msg # "RSP_NACK"
      BY <1>1, <2>3 DEF Verdict
    <2> QED BY <2>2, <2>3
  <1>6. ASSUME Verdict(asked, r) = "answered"
        PROVE  /\ asked.msg = "REQ_ANALOG" => asked.arg \in ValidChannels
               /\ asked.msg = "REQ_SET_CORRECTION" => Service!Corrections # {}
               /\ r.reading \in Service!Readings(asked)
    <2>1. asked.msg = "REQ_ANALOG" => asked.arg \in ValidChannels
      BY <1>3, <1>4, <1>5, <1>6 DEF Expected
    <2>2. asked.msg = "REQ_SET_CORRECTION" => Service!Corrections # {}
      <3> SUFFICES ASSUME asked.msg = "REQ_SET_CORRECTION" PROVE origin.arg \in Service!Corrections
        OBVIOUS
      <3>1. origin.arg \in ValidFactors /\ origin.msg = "REQ_SET_CORRECTION"
        BY <1>3, <1>4, <1>5, <1>6 DEF Expected
      <3> QED BY <1>4, <3>1 DEF Service!Corrections
    <2>3. r.reading \in Service!Readings(asked)
      BY <1>3, <1>4, <1>5, <1>6, ReadingsOfKind
    <2> QED BY <2>1, <2>2, <2>3
  <1> QED BY <1>1, <1>3, <1>4, <1>5, <1>6

LEMMA FailureServes ==
  ASSUME ServiceInv, Inv', Waiting, NEW ending \in {"protocol_error", "timeout", "os_error"},
         NEW reply \in ReplyDatagram \cup {NoReply}, Ends(ending, reply),
         replies' \subseteq replies, UNCHANGED <<world, correction>>
  PROVE  ServiceInv' /\ Service!Fail
  <1>1. ending \in Endings \ {"pending"} /\ ending # "answered"
    BY DEF Endings
  <1>2. ServiceInv' /\ Service!End(ending, NoReading)
    BY <1>1, CallEnds
  <1> QED BY <1>2 DEF Service!Fail, Service!NoReading, NoReading

LEMMA ReceiveServes ==
  ASSUME ServiceInv, Inv', NEW r \in replies, Receive(r)
  PROVE  ServiceInv' /\ (Service!Next \/ UNCHANGED Service!vars)
  <1>1. PICK verdict : verdict = Verdict(Current.request, r)
    OBVIOUS
  <1>2. /\ Waiting /\ UNCHANGED <<world, correction>> /\ r \in ReplyDatagram
        /\ replies' \subseteq replies
    BY DEF Receive, ServiceInv, Inv, TypeOK
  <1>3. CASE verdict = "discarded"
    <2>1. UNCHANGED <<socket, calls, answer>>
      BY <1>1, <1>3 DEF Receive
    <2>2. UNCHANGED Seen /\ Keeps /\ world =< world'
      BY <1>2, <2>1, DriverUnseen, DutLinkAssumption DEF Keeps, Inv, ServiceInv, TypeOK
    <2>3. ServiceInv'
      BY <1>2, <2>2, QuietStep
    <2> QED BY <1>2, <2>2, <2>3 DEF Seen, Service!vars
  <1>4. CASE verdict # "discarded"
    <2>1. Ends(verdict, r)
      BY <1>1, <1>4 DEF Receive
    <2>2. verdict \in Endings \ {"pending"}
      BY <1>1, <1>2, <1>4, VerdictFits DEF ServiceInv
    <2>3. /\ ServiceInv' /\ CallInProgress = Current.request
          /\ Service!End(verdict, IF verdict = "answered" THEN r.reading ELSE NoReading)
      BY <1>2, <2>1, <2>2, CallEnds
    <2>4. /\ verdict \in {"answered", "refused", "protocol_error"}
          /\ verdict = "refused" => CallInProgress.msg \in {"REQ_ANALOG", "REQ_SET_CORRECTION"}
          /\ verdict = "answered" =>
               /\ CallInProgress.msg = "REQ_ANALOG" => CallInProgress.arg \in ValidChannels
               /\ CallInProgress.msg = "REQ_SET_CORRECTION" => Service!Corrections # {}
               /\ r.reading \in Service!Readings(CallInProgress)
      BY <1>1, <1>2, <1>4, <2>3, VerdictServes
    <2>5. CASE verdict = "answered"
      BY <2>3, <2>4, <2>5 DEF Service!Next, Service!Answer
    <2>6. CASE verdict = "refused"
      BY <2>3, <2>4, <2>6 DEF Service!Next, Service!Refuse, Service!NoReading, NoReading
    <2>7. CASE verdict = "protocol_error"
      BY <2>3, <2>7 DEF Service!Next, Service!Fail, Service!NoReading, NoReading
    <2> QED BY <2>3, <2>4, <2>5, <2>6, <2>7
  <1> QED BY <1>3, <1>4

LEMMA DeadlineServes ==
  ASSUME ServiceInv, Inv', Tick \/ Retry
  PROVE  ServiceInv' /\ UNCHANGED Service!vars
  <1>1. UNCHANGED <<socket, answer, replies, world, correction>> /\ Waiting
    BY DEF Tick, Retry
  <1>2. /\ Len(calls') = Len(calls) /\ Waiting'
        /\ \A n \in 1..Len(calls) :
             calls'[n].request = calls[n].request /\ calls'[n].socket = calls[n].socket
        /\ Keeps
    <2>1. CASE Tick
      BY <1>1, <2>1 DEF Tick, Keeps, Waiting, Current, ServiceInv, Inv, TypeOK
    <2>2. CASE Retry
      <3>1. /\ Len(calls') = Len(calls)
            /\ calls'[Len(calls)] = [Current EXCEPT !.attempts = @ + 1]
            /\ \A n \in 1..Len(calls) : n # Len(calls) => calls'[n] = calls[n]
        BY <2>2, RetryType DEF ServiceInv, Inv
      <3>2. /\ Len(calls) \in 1..Len(calls) /\ Current = calls[Len(calls)] /\ Current \in Call
            /\ calls' \in Seq(Call)
        BY <1>1, WaitingType DEF ServiceInv, Inv, TypeOK
      <3>3. Current'.ending = "pending"
        BY <1>1, <3>1, <3>2 DEF Current, Call, Waiting
      <3>4. \A n \in 1..Len(calls) :
              calls'[n].request = calls[n].request /\ calls'[n].socket = calls[n].socket
        BY <3>1, <3>2 DEF Call
      <3>5. Waiting'
        BY <3>1, <3>2, <3>3 DEF Waiting
      <3>6. Len(calls) \in Nat
        BY DEF ServiceInv, Inv, TypeOK
      <3> QED BY <3>1, <3>4, <3>5, <3>6 DEF Keeps
    <2> QED BY <2>1, <2>2
  <1>3. Current'.request = Current.request
    BY <1>1, <1>2, WaitingType DEF Current, ServiceInv, Inv
  <1>4. UNCHANGED Seen
    BY <1>1, <1>2, <1>3 DEF Seen, CallInProgress, LastResult, Asked
  <1>5. ServiceInv'
    <2>1. world =< world'
      BY <1>1, DutLinkAssumption DEF ServiceInv, Inv, TypeOK
    <2> QED BY <1>1, <1>2, <2>1, QuietStep
  <1> QED BY <1>1, <1>4, <1>5 DEF Seen, Service!vars

LEMMA DisconnectServes ==
  ASSUME ServiceInv, Inv', Disconnect
  PROVE  ServiceInv' /\ Service!Disconnect
  <1>1. /\ Idle /\ socket # 0 /\ socket' = 0 /\ replies' = {}
        /\ UNCHANGED <<calls, answer, world, correction>>
    BY DEF Disconnect
  <1>2. /\ CallInProgress = Service!NoCall /\ Keeps /\ world =< world'
        /\ UNCHANGED <<CallInProgress, Asked, LastResult>>
    BY <1>1, DutLinkAssumption
    DEF CallInProgress, Service!NoCall, Idle, Waiting, Current, Asked, LastResult, Keeps,
        ServiceInv, Inv, TypeOK
  <1>3. ServiceInv'
    BY <1>1, <1>2, QuietStep
  <1> QED BY <1>1, <1>2, <1>3 DEF Service!Disconnect

LEMMA ReprogramServes ==
  ASSUME ServiceInv, Inv', Reprogram
  PROVE  ServiceInv' /\ Service!Reprogram
  <1>1. /\ Idle /\ world < MaxWorlds /\ world' = world + 1
        /\ UNCHANGED <<socket, calls, answer, replies, correction>>
    BY DEF Reprogram, driver
  <1>2. UNCHANGED Seen /\ Keeps /\ world =< world'
    BY <1>1, DriverUnseen, DutLinkAssumption DEF Keeps, Inv, ServiceInv, TypeOK
  <1>3. CallInProgress = Service!NoCall
    BY <1>1 DEF CallInProgress, Service!NoCall, Idle
  <1>4. ServiceInv'
    BY <1>1, <1>2, QuietStep
  <1> QED BY <1>1, <1>2, <1>3, <1>4 DEF Seen, Service!Reprogram

-----------------------------------------------------------------------------
LEMMA ServiceInit == Init => ServiceInv /\ Service!Init
  <1> SUFFICES ASSUME Init PROVE ServiceInv /\ Service!Init
    OBVIOUS
  <1>1. Inv
    BY InitInv
  <1>2. ServiceInv
    BY <1>1 DEF Init, ServiceInv, Asking
  <1>3. Asked = {}
    BY DEF Init, Asked
  <1>4. ~Waiting
    BY DEF Init, Waiting
  <1> QED
    BY <1>2, <1>3, <1>4
    DEF Init, Service!Init, CallInProgress, LastResult, Service!NoCall, Service!NoResult,
        Service!NoReading, NoReading

LEMMA ServiceStep ==
  ServiceInv /\ [Next]_vars => ServiceInv' /\ [Service!Next]_(Service!vars)
  <1> SUFFICES ASSUME ServiceInv, [Next]_vars
               PROVE  ServiceInv' /\ (Service!Next \/ UNCHANGED Service!vars)
    OBVIOUS
  <1>1. Inv'
    BY InvStep DEF ServiceInv
  <1>2. CASE UNCHANGED vars
    <2>1. UNCHANGED <<socket, calls, answer, replies, world, correction>>
      BY <1>2 DEF vars
    <2>2. UNCHANGED Seen /\ Keeps /\ world =< world'
      BY <2>1, DriverUnseen, DutLinkAssumption DEF Keeps, Inv, ServiceInv, TypeOK
    <2>3. ServiceInv'
      BY <1>1, <2>1, <2>2, QuietStep
    <2> QED BY <2>1, <2>2, <2>3 DEF Seen, Service!vars
  <1>3. CASE Connect
    BY <1>1, <1>3, ConnectServes DEF Service!Next
  <1>4. CASE Disconnect
    BY <1>1, <1>4, DisconnectServes DEF Service!Next
  <1>5. CASE Reprogram
    BY <1>1, <1>5, ReprogramServes DEF Service!Next
  <1>6. ASSUME NEW request \in Requests, Operation(request)
        PROVE  ServiceInv' /\ Service!Next
    BY <1>1, <1>6, OperationServes DEF Service!Next
  <1>7. ASSUME NEW r \in replies, ReceiveCut(r)
        PROVE  ServiceInv' /\ Service!Next
    <2>1. /\ Waiting /\ Ends("protocol_error", NoReply) /\ replies' \subseteq replies
          /\ UNCHANGED <<world, correction>>
      BY <1>7 DEF ReceiveCut
    <2> QED BY <1>1, <2>1, FailureServes DEF Service!Next
  <1>8. CASE GiveUp \/ SocketFails
    <2> PICK ending \in {"timeout", "os_error"} :
          Ends(ending, NoReply) /\ replies' = IF socket' = 0 THEN {} ELSE replies
      BY <1>8 DEF GiveUp, SocketFails
    <2>1. Waiting /\ UNCHANGED <<world, correction>> /\ replies' \subseteq replies
      BY <1>8 DEF GiveUp, SocketFails
    <2> QED BY <1>1, <2>1, FailureServes DEF Service!Next
  <1>9. ASSUME NEW d \in requests, ServerHandles(d)
        PROVE  ServiceInv' /\ (Service!Next \/ UNCHANGED Service!vars)
    BY <1>1, <1>9, ServerServes DEF Service!Next
  <1>10. CASE Tick \/ Retry
    BY <1>1, <1>10, DeadlineServes
  <1> QED
    BY <1>1, <1>2, <1>3, <1>4, <1>5, <1>6, <1>7, <1>8, <1>9, <1>10,
       ReceiveServes, CutServes, NetworkServes
    DEF Next, Deadline

\* Whatever the network loses, delays, reorders, repeats or cuts short, the
\* driver gives its caller a service that answers at least once: every call
\* ends by itself, and a reading is of the device as it is or was.
THEOREM LinkImplementsService == Spec => ImplementsService
  <1> QED
    BY ServiceInit, ServiceStep, PTL DEF Spec, ImplementsService, Service!Spec
=============================================================================
