-------------------------- MODULE NstarUartProofs ---------------------------
(***************************************************************************)
(* Proofs about the command path for any number of threads, registers,     *)
(* values and retries. Type correctness holds whatever the line does; that *)
(* an accepted answer is the answer to the very command holds as long as   *)
(* the device is never late and no answer is read in pieces.               *)
(***************************************************************************)
EXTENDS NstarUart, TLAPS

Holding == {"send", "recv", "return"}

\* A thread is inside its exchange exactly when it holds uartMutex.
HolderInv == \A t \in Threads : owner = t <=> pc[t] \in Holding

\* A thread has a command exactly while it is inside an entry point.
CallerInv == \A t \in Threads : request[t] = NoCommand <=> pc[t] = "idle"

AttemptInv == \A t \in Threads : pc[t] = "send" => attempts <= MAX_RETRIES

TypeInv == TypeOK /\ HolderInv /\ CallerInv /\ AttemptInv

\* The simulator answers with a frame.
LEMMA AnswerType ==
    ASSUME NEW cmd \in Commands, NEW r \in [Addrs -> Bytes]
    PROVE  Answer(cmd, r) \in AnswerFrames
<1>1. ASSUME NEW addrs \in Seq(Addrs)
      PROVE  Registers(addrs, r) \in Seq(Bytes)
  BY <1>1 DEF Registers
<1>2. ACK_OK \in Seq(Bytes)
  BY RegistersAssumption DEF ACK_OK
<1>3. cmd.op \notin {"W", "C"} => Reads(cmd) \in Seq(Addrs)
  BY RegistersAssumption DEF Reads, Commands
<1> QED  BY <1>1, <1>2, <1>3 DEF Answer, AnswerFrames, Commands

\* A command leaves registers that hold bytes.
LEMMA EffectType ==
    ASSUME NEW cmd \in Commands, NEW r \in [Addrs -> Bytes]
    PROVE  Effect(cmd, r) \in [Addrs -> Bytes]
BY RegistersAssumption DEF Effect, Commands

\* A command carried out twice is a command carried out once.
LEMMA EffectIdempotent ==
    ASSUME NEW cmd \in Commands, NEW r \in [Addrs -> Bytes]
    PROVE  Done(cmd, Effect(cmd, r))
BY RegistersAssumption DEF Done, Effect, Commands

\* The answer computed before a command's effect is the answer after it.
LEMMA AnswerStable ==
    ASSUME NEW cmd \in Commands, NEW r \in [Addrs -> Bytes]
    PROVE  Answer(cmd, Effect(cmd, r)) = Answer(cmd, r)
BY DEF Answer, Effect, Commands

\* A thread that asks for nothing is told from one that asks.
LEMMA NoCommandIsNone == NoCommand \notin Commands
BY DEF NoCommand, Commands
-----------------------------------------------------------------------------
\* Nobody holds the channel at the start, ...
LEMMA TypeInit == Init => TypeInv
BY ThreadsAssumption, RegistersAssumption, RetriesAssumption, BufferAssumption
   DEF Init, TypeInv, TypeOK, HolderInv, CallerInv, AttemptInv, Holding,
       FailedCall, Failure, Result, NoFrame, AnswerFrames, Labels,
       ResultCodes, Bodies

\* The only element of a sequence
LEMMA SingleElement ==
    ASSUME NEW S, NEW s \in Seq(S), Len(s) = 1 PROVE s[1] \in S
OBVIOUS

\* What Decoded returns is a result.
LEMMA DecodedType ==
    ASSUME NEW buf \in Seq(Answers),
           NEW r \in Decoded(buf)
    PROVE  r \in [rc : ResultCodes \ {"none"}, frame : AnswerFrames]
<1>1. NoFrame \in AnswerFrames
  BY DEF NoFrame, AnswerFrames
<1>2. CASE Len(buf) # 1 \/ buf[1].body = "tail"
  BY <1>1, <1>2 DEF Decoded, Failure, Result, ResultCodes
<1>3. CASE Len(buf) = 1 /\ buf[1].body # "tail"
  <2>1. buf[1] \in Answers
    BY <1>3, SingleElement
  <2> QED  BY <1>1, <1>3, <2>1 DEF Answers, Decoded, Failure, Result, ResultCodes
<1> QED  BY <1>2, <1>3

\* Concluding a round keeps the thread inside its exchange.
LEMMA ConcludeType ==
    ASSUME TypeInv, NEW t \in Threads, pc[t] = "recv",
           NEW r \in [rc : ResultCodes, frame : AnswerFrames],
           Conclude(t, r),
           UNCHANGED <<request, owner, attempts>>
    PROVE  /\ pc' \in [Threads -> Labels]
           /\ reply' \in [rc : ResultCodes, frame : AnswerFrames]
           /\ HolderInv' /\ CallerInv' /\ AttemptInv'
BY DEF Conclude, Goto, MayRetry, TypeInv, TypeOK, HolderInv, CallerInv,
       AttemptInv, Holding, Labels

\* ... and no step has two threads hold it, or hold it outside a command.
LEMMA TypeStep == TypeInv /\ [Next]_uartVars => TypeInv'
<1> SUFFICES ASSUME TypeInv, [Next]_uartVars PROVE TypeInv'
  OBVIOUS
<1> USE DEF TypeInv, TypeOK
<1>1. ASSUME NEW t \in Threads, Call(t) PROVE TypeInv'
  BY <1>1, NoCommandIsNone
     DEF Call, Goto, HolderInv, CallerInv, AttemptInv, Holding, Labels,
         FailedCall
<1>2. ASSUME NEW t \in Threads, Lock(t) PROVE TypeInv'
  BY <1>2, ThreadsAssumption, RetriesAssumption
     DEF Lock, Goto, HolderInv, CallerInv, AttemptInv, Holding, Labels
<1>3. ASSUME NEW t \in Threads, Send(t) PROVE TypeInv'
  <2>1. request[t] \in Commands
    BY <1>3 DEF Send, CallerInv
  <2>2. attempts' \in 0..(MAX_RETRIES + 1)
    BY <1>3, RetriesAssumption DEF Send, AttemptInv
  <2>3. /\ h2d' \in Seq(Requests)
        /\ Len(h2d') <= MAX_BUFFERED
    BY <1>3, <2>1, BufferAssumption DEF Send, Bodies, Requests
  <2>4. /\ pc' \in [Threads -> Labels]
        /\ HolderInv' /\ CallerInv' /\ AttemptInv'
    BY <1>3 DEF Send, Goto, HolderInv, CallerInv, AttemptInv, Holding, Labels
  <2> QED  BY <1>3, <2>2, <2>3, <2>4 DEF Send
<1>4. ASSUME NEW t \in Threads, SendFails(t) PROVE TypeInv'
  <2>1. request[t] \in Commands
    BY <1>4 DEF SendFails, CallerInv
  <2>2. attempts' \in 0..(MAX_RETRIES + 1)
    BY <1>4, RetriesAssumption DEF SendFails, AttemptInv
  <2>3. [body |-> "bad", cmd |-> request[t]] \in Requests
    BY <2>1 DEF Requests
  <2>6. /\ h2d' \in Seq(Requests)
        /\ Len(h2d') <= MAX_BUFFERED
    <3>1. CASE h2d' = h2d
      BY <3>1
    <3>2. CASE h2d' = Append(h2d, [body |-> "bad", cmd |-> request[t]])
      BY <1>4, <2>3, <3>2, BufferAssumption DEF SendFails
    <3> QED  BY <1>4, <3>1, <3>2 DEF SendFails
  <2>4. /\ pc' \in [Threads -> Labels]
        /\ HolderInv' /\ CallerInv' /\ AttemptInv'
    BY <1>4
       DEF SendFails, Goto, HolderInv, CallerInv, AttemptInv, Holding, Labels
  <2>5. reply' \in [rc : ResultCodes, frame : AnswerFrames]
    BY <1>4
       DEF SendFails, Failure, Result, NoFrame, ResultCodes, AnswerFrames
  <2> QED  BY <1>4, <2>2, <2>4, <2>5, <2>6 DEF SendFails
<1>5. ASSUME NEW t \in Threads, Receive(t) PROVE TypeInv'
  <2>1. PICK r \in Decoded(d2h) : Conclude(t, r)
    BY <1>5 DEF Receive
  <2>2. r \in [rc : ResultCodes, frame : AnswerFrames]
    BY <2>1, DecodedType
  <2> QED  BY <1>5, <2>1, <2>2, ConcludeType, BufferAssumption DEF Receive
<1>6. ASSUME NEW t \in Threads, ReceiveFragment(t) PROVE TypeInv'
  <2>1. /\ d2h' \in Seq(Answers)
        /\ Len(d2h') <= MAX_BUFFERED
    BY <1>6 DEF ReceiveFragment, LostHead, NoFrame, AnswerFrames, Answers
  <2>2. Failure("BAD_FRAME") \in [rc : ResultCodes, frame : AnswerFrames]
    BY DEF Failure, Result, NoFrame, ResultCodes, AnswerFrames
  <2> QED  BY <1>6, <2>1, <2>2, ConcludeType DEF ReceiveFragment
<1>7. ASSUME NEW t \in Threads, Timeout(t) PROVE TypeInv'
  <2>1. Failure("TIMEOUT") \in [rc : ResultCodes, frame : AnswerFrames]
    BY DEF Failure, Result, NoFrame, ResultCodes, AnswerFrames
  <2> QED  BY <1>7, <2>1, ConcludeType DEF Timeout
<1>8. ASSUME NEW t \in Threads, Return(t) PROVE TypeInv'
  <2>1. outcome' \in [Threads -> [ok : BOOLEAN, data : Seq(Bytes)]]
    BY <1>8 DEF Return, Succeeded, FailedCall, AnswerFrames
  <2>2. Failure("none") \in [rc : ResultCodes, frame : AnswerFrames]
    BY DEF Failure, Result, NoFrame, ResultCodes, AnswerFrames
  <2>3. /\ pc' \in [Threads -> Labels]
        /\ request' \in [Threads -> Commands \cup {NoCommand}]
        /\ owner' \in Threads \cup {NoThread}
        /\ HolderInv' /\ CallerInv' /\ AttemptInv'
    BY <1>8, ThreadsAssumption
       DEF Return, Goto, HolderInv, CallerInv, AttemptInv, Holding, Labels
  <2> QED  BY <1>8, <2>1, <2>2, <2>3, RetriesAssumption DEF Return
<1>9. ASSUME DeviceAnswer PROVE TypeInv'
  <2>1. h2d[1].cmd \in Commands
    <3>1. h2d[1] \in Requests
      BY <1>9, SingleElement DEF DeviceAnswer
    <3> QED  BY <3>1 DEF Requests
  <2>2. /\ regs' \in [Addrs -> Bytes]
        /\ Answer(h2d[1].cmd, regs) \in AnswerFrames
    BY <1>9, <2>1, EffectType, AnswerType DEF DeviceAnswer
  <2>3. /\ d2h' \in Seq(Answers)
        /\ Len(d2h') <= MAX_BUFFERED
    BY <1>9, <2>2, BufferAssumption DEF DeviceAnswer, Bodies, Answers
  <2> QED
    BY <1>9, <2>2, <2>3, BufferAssumption
       DEF DeviceAnswer, HolderInv, CallerInv, AttemptInv
<1>10. ASSUME DeviceIgnore PROVE TypeInv'
  BY <1>10, BufferAssumption
     DEF DeviceIgnore, HolderInv, CallerInv, AttemptInv
<1>11. CASE UNCHANGED uartVars
  BY <1>11 DEF uartVars, HolderInv, CallerInv, AttemptInv
<1> QED
  BY <1>1, <1>2, <1>3, <1>4, <1>5, <1>6, <1>7, <1>8, <1>9, <1>10, <1>11
     DEF Next, Device, Transact

\* Type correctness of the command path, whatever the faults: in particular
\* no call makes more than 1 + MAX_RETRIES attempts.
THEOREM TypeCorrect == Spec => []TypeOK
<1>1. TypeInv => TypeOK
  BY DEF TypeInv
<1> QED  BY <1>1, TypeInit, TypeStep, PTL DEF Spec
-----------------------------------------------------------------------------
(***************************************************************************)
(* Answers belong to their commands. The invariant follows one command     *)
(* along the line: a good request on its way is the holder's, and then no  *)
(* answer is; an answer on its way is the only frame there is and is the   *)
(* answer to the holder's command; an answer decoded stays right until the *)
(* holder returns, because nobody else can reach the device.               *)
(***************************************************************************)
InTime == {"late", "split"} \cap Faults = {}

Waiting == owner \in Threads /\ pc[owner] = "recv"

RequestInv ==
    \A i \in DOMAIN h2d :
        h2d[i].body = "ok" =>
            Waiting /\ h2d[i].cmd = request[owner] /\ d2h = <<>>

AnswerInv ==
    d2h # <<>> =>
        /\ Waiting /\ h2d = <<>>
        /\ Len(d2h) = 1 /\ d2h[1].body # "tail"
        /\ d2h[1].frame = Answer(request[owner], regs)
        /\ Done(request[owner], regs)

ReplyInv ==
    owner \in Threads /\ pc[owner] = "return" /\ reply.rc = "OK" =>
        /\ reply.frame = Answer(request[owner], regs)
        /\ Done(request[owner], regs)

OwnInv == RequestInv /\ AnswerInv /\ ReplyInv

\* What the channel holds is the holder's own: nothing, at the start, ...
LEMMA OwnInit == Init => OwnInv
BY DEF Init, OwnInv, RequestInv, AnswerInv, ReplyInv, Failure, Result

\* ... and what its command asked for or was answered, as long as no answer is late.
LEMMA OwnStep ==
    ASSUME InTime, TypeInv, OwnInv, [Next]_uartVars
    PROVE  OwnInv'
<1> USE DEF OwnInv
<1>1. ASSUME NEW t \in Threads, Call(t) PROVE OwnInv'
  <2>1. t # owner
    BY <1>1 DEF Call, TypeInv, HolderInv, Holding
  <2>2. owner \in Threads => pc'[owner] = pc[owner]
                             /\ request'[owner] = request[owner]
    BY <1>1, <2>1 DEF Call, Goto, TypeInv, TypeOK
  <2>3. UNCHANGED <<regs, owner, reply, h2d, d2h>>
    BY <1>1 DEF Call
  <2> QED
    BY <2>2, <2>3 DEF RequestInv, AnswerInv, ReplyInv, Waiting
<1>2. ASSUME NEW t \in Threads, Lock(t) PROVE OwnInv'
  BY <1>2, ThreadsAssumption
     DEF Lock, Goto, RequestInv, AnswerInv, ReplyInv, Waiting, TypeInv, TypeOK
<1>3. ASSUME NEW t \in Threads, Send(t) PROVE OwnInv'
  <2>1. owner = t /\ ~Waiting /\ d2h = <<>>
    BY <1>3
       DEF Send, TypeInv, HolderInv, Holding, AnswerInv, Waiting
  <2>2. \A i \in DOMAIN h2d : h2d[i].body # "ok"
    BY <2>1 DEF RequestInv
  <2>3. pc'[t] = "recv"
    BY <1>3 DEF Send, Goto, TypeInv, TypeOK
  <2>4. \A i \in DOMAIN h2d' :
            h2d'[i].body = "ok" => h2d'[i].cmd = request[t]
    BY <1>3, <2>2 DEF Send, TypeInv, TypeOK
  <2> QED
    BY <1>3, <2>1, <2>3, <2>4
       DEF Send, RequestInv, AnswerInv, ReplyInv, Waiting
<1>4. ASSUME NEW t \in Threads, SendFails(t) PROVE OwnInv'
  <2>1. owner = t /\ ~Waiting /\ d2h = <<>>
    BY <1>4
       DEF SendFails, TypeInv, HolderInv, Holding, AnswerInv, Waiting
  <2>2. \A i \in DOMAIN h2d : h2d[i].body # "ok"
    BY <2>1 DEF RequestInv
  <2>3. \A i \in DOMAIN h2d' : h2d'[i].body # "ok"
    <3>1. CASE h2d' = h2d
      BY <2>2, <3>1
    <3>2. CASE h2d' = Append(h2d, [body |-> "bad", cmd |-> request[t]])
      BY <2>2, <3>2 DEF TypeInv, TypeOK
    <3> QED  BY <1>4, <3>1, <3>2 DEF SendFails
  <2>4. reply'.rc # "OK"
    BY <1>4 DEF SendFails, Failure, Result
  <2> QED
    BY <1>4, <2>1, <2>3, <2>4
       DEF SendFails, RequestInv, AnswerInv, ReplyInv
<1>5. ASSUME NEW t \in Threads, Receive(t) PROVE OwnInv'
  <2>1. owner = t /\ h2d = <<>> /\ Len(d2h) = 1 /\ d2h[1].body # "tail"
        /\ d2h[1].frame = Answer(request[t], regs) /\ Done(request[t], regs)
    BY <1>5 DEF Receive, TypeInv, HolderInv, Holding, AnswerInv
  <2>2. PICK r \in Decoded(d2h) : Conclude(t, r)
    BY <1>5 DEF Receive
  <2>3. r.rc = "OK" => r.frame = Answer(request[t], regs)
    BY <2>1, <2>2 DEF Decoded, Failure, Result
  <2>4. UNCHANGED <<regs, request, owner, h2d>> /\ d2h' = <<>>
    BY <1>5 DEF Receive
  <2>5. RequestInv' /\ AnswerInv'
    BY <2>1, <2>4 DEF RequestInv, AnswerInv
  <2>6. pc'[t] = "return" => reply' = r
    BY <2>2 DEF Conclude, Goto, TypeInv, TypeOK
  <2>7. ReplyInv'
    BY <2>1, <2>3, <2>4, <2>6 DEF ReplyInv
  <2> QED  BY <2>5, <2>7
<1>6. ASSUME NEW t \in Threads, ReceiveFragment(t) PROVE OwnInv'
  BY <1>6 DEF ReceiveFragment, InTime
<1>7. ASSUME NEW t \in Threads, Timeout(t) PROVE OwnInv'
  <2>1. owner = t /\ h2d = <<>> /\ d2h = <<>>
    BY <1>7 DEF Timeout, InTime, TypeInv, HolderInv, Holding
  <2>2. pc'[t] = "return" => reply'.rc = "TIMEOUT"
    BY <1>7 DEF Timeout, Conclude, Goto, Failure, Result, TypeInv, TypeOK
  <2> QED
    BY <1>7, <2>1, <2>2
       DEF Timeout, RequestInv, AnswerInv, ReplyInv
<1>8. ASSUME NEW t \in Threads, Return(t) PROVE OwnInv'
  <2>1. owner = t /\ ~Waiting
    BY <1>8 DEF Return, TypeInv, HolderInv, Holding, Waiting
  <2> QED
    BY <1>8, <2>1, ThreadsAssumption
       DEF Return, RequestInv, AnswerInv, ReplyInv
<1>9. ASSUME DeviceAnswer PROVE OwnInv'
  <2> DEFINE cmd == request[owner]
  <2>1. Waiting /\ h2d[1].cmd = cmd /\ d2h = <<>>
    BY <1>9 DEF DeviceAnswer, RequestInv, TypeInv, TypeOK
  <2>2. cmd \in Commands
    BY <2>1 DEF Waiting, TypeInv, TypeOK, CallerInv
  <2>3. /\ Answer(cmd, Effect(cmd, regs)) = Answer(cmd, regs)
        /\ Done(cmd, Effect(cmd, regs))
    BY <2>2, AnswerStable, EffectIdempotent DEF TypeInv, TypeOK
  <2>4. regs' = Effect(cmd, regs) /\ h2d' = <<>>
        /\ UNCHANGED <<request, owner, pc, reply>>
    BY <1>9, <2>1 DEF DeviceAnswer
  <2>5. PICK body \in Bodies :
            d2h' = Append(<<>>, [body |-> body, frame |-> Answer(cmd, regs)])
    BY <1>9, <2>1 DEF DeviceAnswer
  <2>6. Len(d2h') = 1 /\ d2h'[1].body # "tail"
        /\ d2h'[1].frame = Answer(cmd, regs)
    BY <2>5 DEF Bodies
  <2>7. AnswerInv'
    <3> HIDE DEF cmd
    <3>1. d2h'[1].frame = Answer(cmd, regs') /\ Done(cmd, regs')
      BY <2>3, <2>4, <2>6
    <3> QED  BY <2>1, <2>4, <2>6, <3>1 DEF AnswerInv, Waiting, cmd
  <2>8. RequestInv' /\ ReplyInv'
    BY <2>1, <2>4 DEF RequestInv, ReplyInv, Waiting
  <2> QED  BY <2>7, <2>8
<1>10. ASSUME DeviceIgnore PROVE OwnInv'
  <2>1. h2d' = <<>> /\ UNCHANGED <<regs, request, owner, pc, reply, d2h>>
    BY <1>10 DEF DeviceIgnore
  <2> QED
    BY <2>1 DEF RequestInv, AnswerInv, ReplyInv, Waiting
<1>11. CASE UNCHANGED uartVars
  BY <1>11 DEF uartVars, RequestInv, AnswerInv, ReplyInv, Waiting
<1> QED
  BY <1>1, <1>2, <1>3, <1>4, <1>5, <1>6, <1>7, <1>8, <1>9, <1>10, <1>11
     DEF Next, Device, Transact

\* So both hold always.
LEMMA Invariance == ASSUME InTime PROVE Spec => [](TypeInv /\ OwnInv)
<1>1. TypeInv /\ OwnInv /\ [Next]_uartVars => TypeInv' /\ OwnInv'
  BY TypeStep, OwnStep
<1> QED  BY <1>1, TypeInit, OwnInit, PTL DEF Spec

\* An entry point that succeeds returns the device's answer to its own
\* command, which the device has carried out, if the device answers in time
\* and answers are read whole. Lost and altered frames, failing writes and
\* retries do not matter.
THEOREM AnswersAreOwn == ASSUME InTime PROVE Spec => []AnswerMatchesDevice
<1>1. TypeInv /\ OwnInv => AnswerMatchesDevice
  BY DEF AnswerMatchesDevice, Accepts, TypeInv, HolderInv, Holding, OwnInv,
         ReplyInv
<1> QED  BY <1>1, Invariance, PTL

\* Under the same condition a free uartMutex means a quiet line.
THEOREM QuietLine == ASSUME InTime PROVE Spec => []LineQuietBetweenCommands
<1>1. OwnInv => LineQuietBetweenCommands
  BY ThreadsAssumption
     DEF LineQuietBetweenCommands, OwnInv, RequestInv, AnswerInv, Waiting
<1> QED  BY <1>1, Invariance, PTL
-----------------------------------------------------------------------------
(***************************************************************************)
(* The refinement. uartMutex is the abstract `serving`; asking is Call,    *)
(* being served is Lock, the device carries a command out in DeviceAnswer, *)
(* the reply is Return; every other step stutters.                         *)
(***************************************************************************)
\* Both modules speak of the same device.
LEMMA SameDevice ==
    /\ Command!NoCommand = NoCommand /\ Command!Commands = Commands
    /\ Command!FailedCall = FailedCall
    /\ \A x : Command!Succeeded(x) = Succeeded(x)
    /\ \A cmd, r : /\ Command!Effect(cmd, r) = Effect(cmd, r)
                   /\ Command!Done(cmd, r) = Done(cmd, r)
                   /\ Command!Answer(cmd, r) = Answer(cmd, r)
BY DEF NoCommand, Commands, FailedCall, Succeeded, Effect, Done, Answer,
       ACK_OK, Registers, Reads, Command!NoCommand, Command!Commands,
       Command!FailedCall, Command!Succeeded, Command!Effect, Command!Done,
       Command!Answer, Command!ACK_OK, Command!Registers, Command!Reads

\* The commands begin where the abstract ones begin, ...
LEMMA RefinementInit == Init => Command!AbstractInit
BY SameDevice DEF Init, Command!AbstractInit

\* ... and every step is one of theirs, or none.
LEMMA RefinementStep ==
    ASSUME TypeInv, OwnInv, [Next]_uartVars
    PROVE  [Command!AbstractNext]_Command!abstractVars
<1> USE DEF Command!abstractVars
<1>1. ASSUME NEW t \in Threads, Call(t) PROVE Command!Ask(t)
  BY <1>1, SameDevice DEF Call, Command!Ask, TypeInv, CallerInv
<1>2. ASSUME NEW t \in Threads, Lock(t) PROVE Command!Serve(t)
  BY <1>2, SameDevice DEF Lock, Command!Serve, TypeInv, CallerInv
<1>3. ASSUME NEW t \in Threads,
             Send(t) \/ SendFails(t) \/ Receive(t) \/ ReceiveFragment(t)
               \/ Timeout(t)
      PROVE  UNCHANGED Command!abstractVars
  BY <1>3 DEF Send, SendFails, Receive, ReceiveFragment, Timeout
<1>4. ASSUME NEW t \in Threads, Return(t) PROVE Command!Reply(t)
  <2>1. owner = t
    BY <1>4 DEF Return, TypeInv, HolderInv, Holding
  <2>2. Accepts(request[t], reply) =>
            /\ reply.frame = Answer(request[t], regs)
            /\ Done(request[t], regs)
    BY <1>4, <2>1 DEF Return, Accepts, OwnInv, ReplyInv
  <2>3. CASE Accepts(request[t], reply)
    BY <1>4, <2>1, <2>2, <2>3, SameDevice DEF Return, Command!Reply
  <2>4. CASE ~Accepts(request[t], reply)
    BY <1>4, <2>1, <2>4, SameDevice DEF Return, Command!Reply
  <2> QED  BY <2>3, <2>4
<1>5. ASSUME DeviceAnswer PROVE Command!CarryOut
  <2>1. Waiting /\ h2d[1].cmd = request[owner]
    BY <1>5 DEF DeviceAnswer, OwnInv, RequestInv, TypeInv, TypeOK
  <2> QED
    BY <1>5, <2>1, ThreadsAssumption, SameDevice
       DEF DeviceAnswer, Command!CarryOut, Waiting
<1>6. ASSUME DeviceIgnore PROVE UNCHANGED Command!abstractVars
  BY <1>6 DEF DeviceIgnore
<1>7. CASE UNCHANGED uartVars
  BY <1>7 DEF uartVars
<1> QED
  BY <1>1, <1>2, <1>3, <1>4, <1>5, <1>6, <1>7
     DEF Next, Device, Transact, Command!AbstractNext

\* The command path of ttc_nstar.c with its frames, retries and lock keeps
\* the promise of NstarCommand, if the device answers in time and answers
\* are read whole.
THEOREM Refinement == ASSUME InTime PROVE Spec => ImplementsCommand
<1>1. TypeInv /\ OwnInv /\ [Next]_uartVars
        => [Command!AbstractNext]_Command!abstractVars
  BY RefinementStep
<1> QED
  BY <1>1, RefinementInit, Invariance, PTL
     DEF Spec, ImplementsCommand, Command!AbstractSpec
=============================================================================
