----------------------------- MODULE NstarUart ------------------------------
(***************************************************************************)
(* The command path of ttc_nstar.c (cmdTransact, cmdqExecute,              *)
(* cmdqSendReceive and the entry points that call them), the two           *)
(* directions of the UART below it (nstarUARTWrite, nstarUARTRead) and the *)
(* main loop of the device simulator (nstar_sim.c) at the other end.       *)
(*                                                                         *)
(* A frame is abstract: what a reader can tell is whether its bytes are    *)
(* "ok", "bad" (altered on the line) or a "tail", the rest of a frame      *)
(* whose first bytes an earlier read has already taken.                    *)
(***************************************************************************)
EXTENDS NstarDevice

CONSTANTS Threads,        \* threads of the process that issue commands
          NoThread,
          Faults,         \* what goes wrong: see FaultKinds
          MAX_RETRIES,    \* NSTAR_CMD_MAX_RETRIES
          MIN_IDENTITY,   \* fewest payload bytes a V answer may have
          MAX_BUFFERED    \* bound on the frames buffered in one direction

\* drop    the device loses a request it has read (FORCE_TIMEOUT, noise)
\* corrupt the line alters a frame
\* hal     nstarUARTWrite fails
\* late    the device may take longer to answer than NSTAR_CMD_TIMEOUT_MS
\* split   read() returns before the whole answer has arrived
FaultKinds == {"drop", "corrupt", "hal", "late", "split"}

ASSUME ThreadsAssumption == NoThread \notin Threads
ASSUME FaultsAssumption == Faults \subseteq FaultKinds
ASSUME RetriesAssumption == MAX_RETRIES \in Nat
ASSUME BufferAssumption == MAX_BUFFERED \in Nat \ {0}
ASSUME IdentityAssumption == MIN_IDENTITY \in Nat

Bodies == {"ok"} \cup (IF "corrupt" \in Faults THEN {"bad"} ELSE {})

Succeeded(data) == [ok |-> TRUE, data |-> data]
FailedCall      == [ok |-> FALSE, data |-> <<>>]

AnswerFrames == [id : {"R", "V", "E", "A"}, data : Seq(Bytes)]
NoFrame == [id |-> "A", data |-> <<>>]

\* What may be on the line, in each direction.
Requests == [body : {"ok", "bad"}, cmd : Commands]
Answers  == [body : {"ok", "bad", "tail"}, frame : AnswerFrames]

Result(rc, frame) == [rc |-> rc, frame |-> frame]
Failure(rc) == Result(rc, NoFrame)
LostHead == [body |-> "tail", frame |-> NoFrame]

\* The results nstarFrameDecode may give for everything one read returned.
Decoded(buf) ==
    IF Len(buf) # 1 \/ buf[1].body = "tail" THEN {Failure("BAD_FRAME")}
    ELSE IF buf[1].body = "bad" THEN {Failure("CRC"), Failure("BAD_FRAME")}
    ELSE {Result("OK", buf[1].frame)}

\* The CMD_ID each entry point expects; CMDReadAllRXStatus does not look.
IdAccepted(cmd, id) ==
    \/ cmd.op = "E"
    \/ id = "A"
    \/ cmd.op \in {"R", "V"} /\ id = cmd.op

LongEnough(cmd, data) ==
    /\ cmd.op = "R" => Len(data) >= 1
    /\ cmd.op = "V" => Len(data) >= MIN_IDENTITY

AckGood(cmd, data) ==
    cmd.op \in {"W", "C"} => ~(Len(data) >= 1 /\ data[1] # 0)

\* Mutant: the result code of the exchange is not looked at.
AcceptsAnyResult(cmd, r) ==
    /\ IdAccepted(cmd, r.frame.id)
    /\ LongEnough(cmd, r.frame.data)
    /\ AckGood(cmd, r.frame.data)

\* What the entry point makes of the result of its exchange.
Accepts(cmd, r) ==
    /\ r.rc = "OK"
    /\ IdAccepted(cmd, r.frame.id)
    /\ LongEnough(cmd, r.frame.data)
    /\ AckGood(cmd, r.frame.data)
-----------------------------------------------------------------------------
VARIABLES regs,       \* the device's registers
          request,    \* request[t]: t's command, NoCommand outside a call
          outcome,    \* outcome[t]: what t's last call returned
          owner,      \* the holder of uartMutex, or NoThread
          pc,         \* where each thread is in cmdTransact
          attempts,   \* the local of cmdqExecute, of the holder
          reply,      \* the result of the holder's exchange
          h2d,        \* frames written by the host, not yet read
          d2h         \* frames written by the device, not yet read

uartVars == <<regs, request, outcome, owner, pc, attempts, reply, h2d, d2h>>

Init ==
    /\ regs = Defaults
    /\ request = [t \in Threads |-> NoCommand]
    /\ outcome = [t \in Threads |-> FailedCall]
    /\ owner = NoThread
    /\ pc = [t \in Threads |-> "idle"]
    /\ attempts = 0
    /\ reply = Failure("none")
    /\ h2d = <<>>
    /\ d2h = <<>>

Goto(t, label) == pc' = [pc EXCEPT ![t] = label]

Call(t) ==
    /\ pc[t] = "idle"
    /\ Goto(t, "lock")
    /\ \E cmd \in Commands : request' = [request EXCEPT ![t] = cmd]
    /\ outcome' = [outcome EXCEPT ![t] = FailedCall]
    /\ UNCHANGED <<regs, owner, attempts, reply, h2d, d2h>>

\* Mutant: the mutex excludes nobody.
LockUnguarded(t) ==
    /\ pc[t] = "lock"
    /\ owner' = t
    /\ Goto(t, "send")
    /\ attempts' = 0
    /\ UNCHANGED <<regs, request, outcome, reply, h2d, d2h>>

Lock(t) ==
    /\ pc[t] = "lock"
    /\ owner = NoThread
    /\ owner' = t
    /\ Goto(t, "send")
    /\ attempts' = 0
    /\ UNCHANGED <<regs, request, outcome, reply, h2d, d2h>>

\* Mutant: one attempt too many.
MayRetryOnceMore(n) == n <= MAX_RETRIES + 1

MayRetry(n) == n <= MAX_RETRIES

\* The end of one round of cmdqExecute's loop.
Conclude(t, r) ==
    IF r.rc \in {"TIMEOUT", "CRC"} /\ MayRetry(attempts)
      THEN Goto(t, "send") /\ UNCHANGED reply
      ELSE Goto(t, "return") /\ reply' = r

\* Mutant: the mutex is given up once the frame is written.
SendUnlocking(t) ==
    /\ pc[t] = "send"
    /\ Len(h2d) < MAX_BUFFERED
    /\ attempts' = attempts + 1
    /\ \E body \in Bodies :
         h2d' = Append(h2d, [body |-> body, cmd |-> request[t]])
    /\ Goto(t, "recv")
    /\ owner' = NoThread
    /\ UNCHANGED <<regs, request, outcome, reply, d2h>>

\* Mutant: the attempt is not counted.
SendUncounted(t) ==
    /\ pc[t] = "send"
    /\ Len(h2d) < MAX_BUFFERED
    /\ \E body \in Bodies :
         h2d' = Append(h2d, [body |-> body, cmd |-> request[t]])
    /\ Goto(t, "recv")
    /\ UNCHANGED <<regs, request, outcome, owner, attempts, reply, d2h>>

Send(t) ==
    /\ pc[t] = "send"
    /\ Len(h2d) < MAX_BUFFERED
    /\ attempts' = attempts + 1
    /\ \E body \in Bodies :
         h2d' = Append(h2d, [body |-> body, cmd |-> request[t]])
    /\ Goto(t, "recv")
    /\ UNCHANGED <<regs, request, outcome, owner, reply, d2h>>

\* nstarUARTWrite fails, before or after the first bytes of the frame.
SendFails(t) ==
    /\ pc[t] = "send"
    /\ "hal" \in Faults
    /\ Len(h2d) < MAX_BUFFERED
    /\ attempts' = attempts + 1
    /\ h2d' \in {h2d, Append(h2d, [body |-> "bad", cmd |-> request[t]])}
    /\ Goto(t, "return")
    /\ reply' = Failure("HAL")
    /\ UNCHANGED <<regs, request, outcome, owner, d2h>>

\* One read() takes everything that has arrived.
Receive(t) ==
    /\ pc[t] = "recv"
    /\ d2h # <<>>
    /\ d2h' = <<>>
    /\ \E r \in Decoded(d2h) : Conclude(t, r)
    /\ UNCHANGED <<regs, request, outcome, owner, attempts, h2d>>

\* Only the first bytes of an answer have arrived when read() returns.
ReceiveFragment(t) ==
    /\ pc[t] = "recv"
    /\ "split" \in Faults
    /\ d2h # <<>>
    /\ d2h' = <<LostHead>> \o Tail(d2h)
    /\ Conclude(t, Failure("BAD_FRAME"))
    /\ UNCHANGED <<regs, request, outcome, owner, attempts, h2d>>

\* select() gives up: nothing has arrived. Unless the device may be late,
\* it has by then read the request and done with it.
Timeout(t) ==
    /\ pc[t] = "recv"
    /\ d2h = <<>>
    /\ h2d = <<>> \/ "late" \in Faults
    /\ Conclude(t, Failure("TIMEOUT"))
    /\ UNCHANGED <<regs, request, outcome, owner, attempts, h2d, d2h>>

\* The mutex is released, then the caller judges the answer by its CMD_ID,
\* its length and its result code; these are locals of the thread.
Return(t) ==
    /\ pc[t] = "return"
    /\ owner' = NoThread
    /\ Goto(t, "idle")
    /\ request' = [request EXCEPT ![t] = NoCommand]
    /\ outcome' = [outcome EXCEPT ![t] =
                     IF Accepts(request[t], reply)
                       THEN Succeeded(reply.frame.data) ELSE FailedCall]
    /\ reply' = Failure("none")
    /\ attempts' = 0
    /\ UNCHANGED <<regs, h2d, d2h>>

\* One turn of the simulator's loop: one read() takes everything sent so
\* far, and only exactly one good frame is carried out and answered.
DeviceAnswer ==
    /\ Len(h2d) = 1
    /\ h2d[1].body = "ok"
    /\ Len(d2h) < MAX_BUFFERED
    /\ h2d' = <<>>
    /\ regs' = Effect(h2d[1].cmd, regs)
    /\ \E body \in Bodies :
         d2h' = Append(d2h, [body |-> body,
                             frame |-> Answer(h2d[1].cmd, regs)])
    /\ UNCHANGED <<request, outcome, owner, pc, attempts, reply>>

DeviceIgnore ==
    /\ h2d # <<>>
    /\ Len(h2d) # 1 \/ h2d[1].body = "bad" \/ "drop" \in Faults
    /\ h2d' = <<>>
    /\ UNCHANGED <<regs, request, outcome, owner, pc, attempts, reply, d2h>>

Transact(t) == \/ Lock(t) \/ Send(t) \/ SendFails(t) \/ Receive(t)
               \/ ReceiveFragment(t) \/ Timeout(t) \/ Return(t)

Device == DeviceAnswer \/ DeviceIgnore

Next == Device \/ \E t \in Threads : Call(t) \/ Transact(t)

Spec == Init /\ [][Next]_uartVars

\* The simulator's loop and a thread inside a call keep going; nobody has to
\* make a call.
FairSpec == Spec /\ WF_uartVars(Device)
                 /\ \A t \in Threads : WF_uartVars(Transact(t))
-----------------------------------------------------------------------------
Labels == {"idle", "lock", "send", "recv", "return"}
ResultCodes == {"none", "OK", "TIMEOUT", "CRC", "BAD_FRAME", "HAL"}

\* The state is well formed: cmdqExecute makes no more than 1 + MAX_RETRIES
\* attempts, and no more than MAX_BUFFERED frames wait in either direction.
TypeOK ==
    /\ regs \in [Addrs -> Bytes]
    /\ request \in [Threads -> Commands \cup {NoCommand}]
    /\ outcome \in [Threads -> [ok : BOOLEAN, data : Seq(Bytes)]]
    /\ owner \in Threads \cup {NoThread}
    /\ pc \in [Threads -> Labels]
    /\ attempts \in 0..(MAX_RETRIES + 1)
    /\ reply \in [rc : ResultCodes, frame : AnswerFrames]
    /\ h2d \in Seq(Requests)
    /\ d2h \in Seq(Answers)
    /\ Len(h2d) <= MAX_BUFFERED /\ Len(d2h) <= MAX_BUFFERED

\* When cmdTransact is about to return success, the payload is the device's
\* answer to this very command, and a write or reset has been carried out:
\* never the answer to an earlier command, another thread's or an earlier
\* attempt's.
AnswerMatchesDevice ==
    \A t \in Threads :
        pc[t] = "return" /\ Accepts(request[t], reply) =>
            /\ reply.frame = Answer(request[t], regs)
            /\ Done(request[t], regs)

\* Whenever uartMutex is free the line is quiet: no answer is waiting to be
\* read, and no request that the device could still carry out.
LineQuietBetweenCommands ==
    owner = NoThread =>
        /\ d2h = <<>>
        /\ \A i \in DOMAIN h2d : h2d[i].body # "ok"

\* Whatever the line does, a thread that holds uartMutex lets it go: no
\* command waits or retries for ever.
HolderReleases ==
    \A t \in Threads : (owner = t) ~> (owner # t)

\* The command path keeps the promise of NstarCommand.
Command == INSTANCE NstarCommand WITH serving <- owner
ImplementsCommand == Command!AbstractSpec
=============================================================================
